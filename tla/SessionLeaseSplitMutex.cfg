SPECIFICATION Spec
CONSTANTS
  a = a
  b = b
  c = c
  d = d
  Procs = {a, b, c}
  Host <- OneHost
  Pid <- OwnPids
  Identity = TRUE
  MaxAttempts = 4
CHECK_DEADLOCK FALSE
INVARIANTS MutualExclusion
