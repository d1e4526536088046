CONSTANTS
  Frame <- MCPlainFrame
  MaxFrames = 3
  MaxLen = 5
  BufLen = 5
  OneAtATime = FALSE
SPECIFICATION Spec
INVARIANT WholeFrames
CHECK_DEADLOCK FALSE
