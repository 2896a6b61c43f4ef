SPECIFICATION Spec
CONSTANTS
  Launches = {l1, l2}
CHECK_DEADLOCK FALSE
SYMMETRY Symmetry
INVARIANTS
  FailureIsFinal
  ExecutesRecorded
  OneRevivalCommitted
  FailureProved
  ObservedReleased
