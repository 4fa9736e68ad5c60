SPECIFICATION Spec
CONSTANTS
  p1 = p1
  p2 = p2
  p3 = p3
  q1 = q1
  heavy = heavy
  NoProc = NoProc
  Proc = {p1, p2, p3}
  Pool = {heavy}
  Prober = {}
  MaxFiles = 2
  pool <- SharedPool
  budget <- SharedBudget
  parent <- SharedParent
  Background = {}
  Disturbed = {p1, p2, p3}
  probePool <- NoProbe
SYMMETRY SharedSymmetry
INVARIANTS
  TypeOK
  BudgetRespected
  SlotCoversCommand
  RecordNamesHolder
  WaitersAreWaiting
PROPERTIES
  ImplementsSemaphore
CHECK_DEADLOCK FALSE
