SPECIFICATION TwoStops
CONSTANTS
  r1 = r1  l1 = l1  s1 = s1  s2 = s2  w1 = w1
  Round = {r1}
  Log = {l1}
  log <- TheLog
  Stopper = {s1, s2}
  stops <- TheRound
  Waiter = {w1}
  waits <- ItsLog
  Resuming = {r1}
  Limited = {r1}
  MaxAttempts = 2
  Signalled = {r1}
  Crashed = {r1}
  Earlier = Earlier  Absent = Absent  Empty = Empty  Unremoved = Unremoved
INVARIANTS TypeOK SentinelIsOurs ToldAfterRecorded NeverBlamesOutside WaitingHasNoHarness
PROPERTY PaperworkDone
CHECK_DEADLOCK FALSE
