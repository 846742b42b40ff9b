CONSTANTS
  NumTasks = 3
  Deps <- ChainDeps
  Claims <- ChainClaims
  Group <- NoGroups
  Red = {1}
  Impl = {2}
  Options <- EverythingRuns
  MaxRuns = 2
  MaxCrashes = 0
  AttemptCap = 2
  Faults = {"cleanup", "prepare", "merge"}
SPECIFICATION Spec
INVARIANTS TypeOK SatisfiedLeavesNoWork EndsSettled
PROPERTIES StartsFresh SuccessIsFinal
CHECK_DEADLOCK FALSE
