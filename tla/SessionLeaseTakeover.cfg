SPECIFICATION Spec
CONSTANTS
  a = a
  b = b
  c = c
  d = d
  Procs = {a, b, c, d}
  Host <- TwoHosts
  Pid <- ReusedPid
  Identity = TRUE
  MaxAttempts = 4
CHECK_DEADLOCK FALSE
INVARIANTS
  TakeoversExclude
PROPERTIES
  KeepsContract
