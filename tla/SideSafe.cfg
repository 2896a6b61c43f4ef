SPECIFICATION SideSpec
CONSTANTS
  N = 1
  Key <- OneKey
  Batched <- OneBatched
  Instances = {1, 2, 3}
  Intercom = TRUE
  Fine = TRUE
  CanBlock = TRUE
  MaxFailures = 2
  MaxSwitches = 2
  p1 = p1
  p2 = p2
  p3 = p3
  Admitters = {p1, p2, p3}
  Batch <- Batches
  FanoutLimit = 2
  MaxKills = 1
  Managers = {m1, m2}
  MaxHistory = 2
  MaxTime = 2
  MaxLaunches = 2
  MaxCommands = 1
  MaxFireErrors = 1
  MaxProcessDeaths = 1
  MaxEvents = 3
  MaxDeaths = 1
  Hosts = {h1, h2, h3}
  Passes = {s1, s2}
  MaxSweepKills = 1
SYMMETRY Symmetry
CHECK_DEADLOCK FALSE
INVARIANTS
  KeptUntilSettled
  AdmittedPaid
  SkipsOverlap
  UnguardedForCause
  KeepsArmed
  DispatchedOnce
  KeepsReferenced
  ResultOutlivesRun
PROPERTIES
  OwnerOnly
  CancelledNotDispatched
