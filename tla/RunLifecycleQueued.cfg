SPECIFICATION Spec
CONSTANTS
  FirstSteps = 1
  Appends = {a1}
  Steers = {}
  Observers = {}
  LongSilence = FALSE
  Sticky = FALSE
  MaxAsks = 0
  MaxShort = 0
  MaxCrashes = 0
  MaxEvents = 3
CHECK_DEADLOCK FALSE
INVARIANTS
  QueuedAppendRuns
