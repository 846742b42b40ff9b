CONSTANTS
  NumTasks = 4
  Deps <- WideDeps
  Claims <- WideClaims
  Group <- WideGroups
  Red = {}
  Impl = {}
  Options <- MixedRuns
  MaxRuns = 2
  MaxCrashes = 1
  AttemptCap = 2
  Faults = {"merge"}
SPECIFICATION Spec
INVARIANTS DisjointScopes DoneIsMerged ReadyHasWork
PROPERTIES ReviewNeverMerges StartsAfterDependencies
CHECK_DEADLOCK FALSE
