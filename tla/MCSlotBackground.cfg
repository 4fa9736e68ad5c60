SPECIFICATION Spec
CONSTANTS
  p1 = p1
  p2 = p2
  p3 = p3
  q1 = q1
  heavy = heavy
  NoProc = NoProc
  Proc = {p1, p2, p3}
  Pool = {heavy}
  Prober = {}
  MaxFiles = 1
  pool <- NestedPool
  budget <- NestedBudget
  parent <- NestedParent
  Background = {p1}
  Disturbed = {}
  probePool <- NoProbe
INVARIANT
  ThroughIsPaidFor
CHECK_DEADLOCK FALSE
