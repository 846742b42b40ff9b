CONSTANTS
  Asks = {a1, a2}
  Persistent = {a2}
  Actions = {h1}
  Scopes = {{f1}, {f1, f2}}
  None = none
  MaxRequests = 4
SPECIFICATION FairSpec
INVARIANTS TypeOK AgentObeysClient OneAnswerApplies AppliedOrWithdrawn
PROPERTIES NoGrantReturns WaitersReturn CancelReleases
CHECK_DEADLOCK FALSE
