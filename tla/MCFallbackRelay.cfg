SPECIFICATION FairSpec
CONSTANTS
  MaxChunks = 2
  Buffered = 1
  FallbackDest = 80
INVARIANTS RelayInOrder NilMeansOneComplete
PROPERTY NoGoroutineLeft
CHECK_DEADLOCK FALSE
