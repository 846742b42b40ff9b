CONSTANTS
  Procs = {p1, p2, p3}
  Remote = {}
  Nobody = nobody
  HeartbeatOn = TRUE
  Interval = 15
  MaxGrace = 5
  MaxBeats = 1
  Faults = {"late_beat", "recoverer_dies", "sleep", "stall", "unlock", "pid_reused", "write_fails"}
SYMMETRY HostSymmetry
SPECIFICATION Spec
INVARIANTS TypeOK  UnreadableIsTransient
CHECK_DEADLOCK FALSE
