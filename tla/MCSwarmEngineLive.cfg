CONSTANTS
  NumTasks = 3
  Deps <- ChainDeps
  Claims <- ChainClaims
  Group <- NoGroups
  Red = {}
  Impl = {}
  Options <- LiveRuns
  MaxRuns = 1
  MaxCrashes = 0
  AttemptCap = 3
  Faults = {"merge"}
SPECIFICATION FairSpec
PROPERTIES RunEnds
CHECK_DEADLOCK FALSE
