CONSTANTS
  NumTasks = 2
  Deps <- PairDeps
  Claims <- PairClaims
  Group <- PairGroups
  Red = {}
  Impl = {}
  Options <- RetryingRuns
  MaxRuns = 2
  MaxCrashes = 1
  AttemptCap = 2
  Faults = {}
SPECIFICATION Spec
INVARIANTS SatisfiedLeavesNoWork
CHECK_DEADLOCK FALSE
