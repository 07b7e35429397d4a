SPECIFICATION Spec
CONSTANTS
  MaxChunks = 2
  Buffered = 1
  FallbackDest = 80
INVARIANT AnswerComplete
CHECK_DEADLOCK FALSE
