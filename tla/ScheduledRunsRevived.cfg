SPECIFICATION ScheduleSpec
CONSTANTS
  Managers = {m1, m2}
  MaxHistory = 2
  MaxTime = 1
  MaxLaunches = 3
  MaxCommands = 2
  MaxFireErrors = 1
  MaxProcessDeaths = 1
SYMMETRY Symmetry
CHECK_DEADLOCK FALSE
INVARIANTS
  OverlapSkipped
