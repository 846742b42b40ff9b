CONSTANTS
  Bridges = {b1, b2}
  Sessions = {s1, s2}
  Keys = {k1, k2}
  None = none
  MaxPrompts = 2
  MaxClaims = 2
  Requests = {"retry", "resume", "delete"}
  MaxRequests = 4
  MaxOutstanding = 2
  Sleeps = TRUE
SYMMETRY QueueSymmetry
SPECIFICATION Spec
INVARIANTS ExecutedOnce CompletedWasPublished
PROPERTIES ImplementsService
CHECK_DEADLOCK FALSE
