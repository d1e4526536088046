CONSTANTS
  N = 3
  InqCap = 4
  PipeCap = 4
  MaxTry = 1
SPECIFICATION Spec
PROPERTY DiscardsCurrent
CHECK_DEADLOCK FALSE
