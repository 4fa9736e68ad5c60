SPECIFICATION TwoHooks
CONSTANTS
  r1 = r1  r2 = r2  p1 = p1  p2 = p2
  prune1 = prune1  dismiss1 = dismiss1  h1 = h1  h2 = h2  a = a  b = b
  Round = {r1, r2}
  Pid = {p1, p2}
  NoPid = NoPid
  Pruner = {prune1}
  Dismisser = {dismiss1}
  Hook = {h1, h2}
  Path = {a, b}
  KeepSeconds <- Window
  keepSeconds <- KeepNone
  hookRun <- GivenRun
  hookPath <- Revealing
  Epoch = 5
  MaxTime = 6
  MaxSuffix = 2
  Junk <- Garbage
  Shaky <- NowAndThen
  HurriedReuse = FALSE
  NoRecord = NoRecord  Unreadable = Unreadable  NoTime = NoTime  NoId = NoId
INVARIANTS TypeOK RoundOnRecord AppendsSurvive
PROPERTIES NeverOverwritten EvidenceStays
CHECK_DEADLOCK FALSE
