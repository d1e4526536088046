CONSTANTS
  N = 2
  InqCap = 2
  PipeCap = 2
  MaxTry = 1
SPECIFICATION BlankFairSpec
PROPERTY AlarmsLeave
CHECK_DEADLOCK FALSE
