CONSTANTS
  Procs = {p1, p2, p3, r1}
  Remote = {r1}
  Nobody = nobody
  HeartbeatOn = TRUE
  Interval = 15
  MaxGrace = 5
  MaxBeats = 1
  Faults = {}
SPECIFICATION FairSpec
 
PROPERTIES DeadOwnerIsRecovered
CHECK_DEADLOCK FALSE
