CONSTANTS
  Bridges = {b1, b2}
  Sessions = {s1, s2}
  Keys = {k1, k2}
  None = none
  MaxPrompts = 2
  MaxClaims = 3
  Requests = {"retry", "clear", "cancel", "close", "resume", "delete", "shutdown"}
  MaxRequests = 5
  MaxOutstanding = 2
  Sleeps = FALSE
SYMMETRY QueueSymmetry
SPECIFICATION Spec
INVARIANTS TypeOK SchemaHolds OneTurnPerSession
CHECK_DEADLOCK FALSE
