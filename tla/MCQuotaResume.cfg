SPECIFICATION FairSpec
CONSTANTS
  maxResumes = 2
  maxRewaits = 3
  maxResetHorizon = 2
  resetGrace = 1
  zoneFallbackWait = 1
  planReadEvery = 1
  MaxRun = 1
  Skip = 2
  MaxClock = 26
INVARIANTS TypeOK AttemptsAccounted WaitsBounded
PROPERTY LaunchEnds
CHECK_DEADLOCK FALSE
