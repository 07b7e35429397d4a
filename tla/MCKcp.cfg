SPECIFICATION FairSpec
CONSTANTS
  A = A
  B = B
  Loads <- MCLoads
  Range32 = 32
  Start = 2
  BufferSize = 1
  WindowSize = 2
  InFlight = 2
  Burst = 1
  RemoteNext = 3
  MaxQueued = 0
INVARIANTS DeliveredInOrder AckedMeansHeld EofComplete
 
CHECK_DEADLOCK FALSE
