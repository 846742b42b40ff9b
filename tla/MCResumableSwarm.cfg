CONSTANTS
  Jobs = {j1}
  Workers = {w1, w2}
  Scopes = {s1}
  MaxOutstanding = 1
  MaxGeneration = 6
  MaxRevision = 3
  MaxGrants = 2
  MaxSpend = 1
SPECIFICATION FairSpec
INVARIANTS TypeOK SchemaChecks SingleHolder UsageExactlyOnce GrantUsedOnce 
PROPERTIES AbandonedIsSwept LostLeaseStaysLost FinalStatesAreFinal
CHECK_DEADLOCK FALSE
