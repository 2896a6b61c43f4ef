SPECIFICATION LiveSpec
CONSTANTS
  N = 2
  Key <- TwoKeys
  Batched <- TwoBatched
  Instances = {1, 2}
  Intercom = TRUE
  Fine = FALSE
  CanBlock = FALSE
  MaxFailures = 2
  MaxSwitches = 2
CHECK_DEADLOCK FALSE
INVARIANTS
  NotifiedOnce
  MarkedWasTold
PROPERTIES
  DeliversOutbox
  EventuallyDelivered
