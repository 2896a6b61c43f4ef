SPECIFICATION Spec
CONSTANTS
  N = 2
  Key <- TwoKeys
  Batched <- TwoBatched
  Instances = {1}
  Intercom = FALSE
  Fine = TRUE
  CanBlock = FALSE
  MaxFailures = 0
  MaxSwitches = 0
CHECK_DEADLOCK FALSE
INVARIANTS
  NothingLost
