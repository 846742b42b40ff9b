CONSTANTS
  Bridges = {b1, b2}
  Sessions = {s1, s2}
  Keys = {k1, k2}
  None = none
  MaxPrompts = 2
  MaxClaims = 3
  Requests = {"resume"}
  MaxRequests = 5
  MaxOutstanding = 2
  Sleeps = TRUE
SYMMETRY QueueSymmetry
SPECIFICATION Spec
INVARIANTS OldestIsClaimable
CHECK_DEADLOCK FALSE
