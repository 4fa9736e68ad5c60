\* The programs beside the rounds, one at a time.
SPECIFICATION DeskSpec
INVARIANTS OneFetchPerLock NumberIsHonest StrictVerdictIsFresh AgyStartsGuarded
    MarksAsDeclared DeclaredOnceIsEnough CleanMeansHeld
PROPERTIES LastGoodKept LockNeverFreezes GuardOnlyAdds OnlyItsKey
\* A program that is through may stop.
CHECK_DEADLOCK FALSE
CONSTANTS
    Jobs = {j1, j2}
    TTL = 1
    LockTTL = 1
    StaleAfter = 2
    MaxFaults = 1
    Callers = {c1, c2}
    Offered = {i1}
    Hosts = {"h1", "h2"}
    PolicyLists <- MCPolicyLists
    EndpointLists <- MCEndpointLists
    FreshFor = 1
    MaxCall = 1
    Rounds = {1, 2, 3}
    DenyRules = {g1}
    MaxEdits = 1
    MaxKills = 1
    Commands <- MCCommands
    Shells = {s1, s2}
    FirstFiles <- MCFirstFiles
    Docs <- MCDocs
    Root = "root"
    Top = "none"
    Dir = "scratch"
    Inside = FALSE
    Paths = {"x"}
    FileLines = 1
    MaxExpansions = 2
    MaxLandings = 1
