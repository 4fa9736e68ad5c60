SPECIFICATION Spec
CONSTANTS
  r1 = r1  l1 = l1  s1 = s1  s2 = s2  w1 = w1
  Round = {r1}
  Log = {l1}
  log <- TheLog
  Stopper = {s1}
  stops <- TheRound
  Waiter = {}
  waits <- ItsLog
  Resuming = {r1}
  Limited = {}
  MaxAttempts = 2
  Signalled = {}
  Crashed = {}
  Earlier = Earlier  Absent = Absent  Empty = Empty  Unremoved = Unremoved
PROPERTY StopKeepsDown
CHECK_DEADLOCK FALSE
