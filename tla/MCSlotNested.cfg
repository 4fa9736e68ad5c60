SPECIFICATION FairSpec
CONSTANTS
  p1 = p1
  p2 = p2
  p3 = p3
  q1 = q1
  heavy = heavy
  NoProc = NoProc
  Proc = {p1, p2, p3}
  Pool = {heavy}
  Prober = {q1}
  MaxFiles = 1
  pool <- NestedPool
  budget <- NestedBudget
  parent <- NestedParent
  Background = {}
  Disturbed = {p1, p3}
  probePool <- NestedProbe
INVARIANTS
  ThroughIsPaidFor
PROPERTIES
  EveryWaiterServed
CHECK_DEADLOCK FALSE
