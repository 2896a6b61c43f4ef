SPECIFICATION LiveSpec
CONSTANTS
  FirstSteps = 1
  Appends = {a1}
  Steers = {q1}
  Observers = {o1}
  LongSilence = TRUE
  Sticky = FALSE
  MaxAsks = 1
  MaxShort = 1
  MaxCrashes = 1
  MaxEvents = 3
CHECK_DEADLOCK FALSE
INVARIANTS
  NoSilentEnd
  AcceptedSteerSettled
PROPERTIES
  GoneRunEnds
