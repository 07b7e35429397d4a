SPECIFICATION FairSpec
CONSTANTS
  NoWriter = NoWriter
  Writers = {w1, w2}
  MaxFrames = 2
  Window = 2
  MaxFaults = 2
INVARIANTS FramesInv DeliveredInOrder NeverBackwards FramesWhole WindowCoherent EofComplete RepeatsHarmless
PROPERTY AllDelivered
CHECK_DEADLOCK FALSE
