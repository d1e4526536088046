CONSTANTS
  Chunk <- MCMessage
  MaxChunks = 3
  MaxLen = 3
  BufLen = 4
  Roomy = FALSE
SPECIFICATION Spec
INVARIANT WholeMessages
CHECK_DEADLOCK FALSE
