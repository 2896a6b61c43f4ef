SPECIFICATION LiveSpec
CONSTANTS
  Procs = {p1, p2}
  Runs = {r1, r2}
  Limit = 1
  MaxCrashes = 1
CHECK_DEADLOCK FALSE
INVARIANTS
  ActiveWithinLimit
  ChargedUntilGone
  NoOrphanReservation
PROPERTIES
  EventuallyReleased
  KeepsPool
