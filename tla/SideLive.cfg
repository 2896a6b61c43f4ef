SPECIFICATION SideSpec
CONSTANTS
  a = a
  b = b
  c = c
  Procs = {a, b, c}
  Host <- OneHost
  Pid <- OwnPids
  Identity = TRUE
  MaxAttempts = 4
  Launches = {l1}
  Hosts = {h1, h2}
  Sessions = {s1, s2}
  Subs = {w1}
  MaxOpens = 3
  MaxUnlinkFails = 1
  k1 = k1
  k2 = k2
  Keys = {k1, k2}
  Batch <- OneBatch
  Reviews = {k2}
  SideCalls = {x1}
  Limit = 1
  Steers = {q1}
  MaxReviews = 2
  MaxAsks = 2
CHECK_DEADLOCK FALSE
INVARIANTS
  CrashesKeepExclusion
  WokenOnce
  OneStory
  EndsCleanly
  FollowedToItsEnd
PROPERTIES
  StaleElectsSuccessor
  StartupSettles
  WaitEnds
  CallsAnswered
  ChildEnds
  ForegroundSettles
