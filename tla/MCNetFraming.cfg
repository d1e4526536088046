CONSTANTS
  Chunk <- MCChunk
  MaxChunks = 3
  MaxLen = 4
  BufLen = 8
  Roomy = TRUE
SPECIFICATION Spec
INVARIANTS CutAtFirstMark QueuedOnce HandedAsSent
CHECK_DEADLOCK FALSE
