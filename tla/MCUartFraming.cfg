CONSTANTS
  Frame <- MCFrame
  MaxFrames = 3
  MaxLen = 6
  BufLen = 6
  OneAtATime = TRUE
SPECIFICATION Spec
INVARIANTS ActedOnce PointerKept
CHECK_DEADLOCK FALSE
