SPECIFICATION FairSpec
CONSTANTS
  Writers = {w1, w2}
  Limits = {0, 1}
  MaxWrite = 2
  MaxItems = 2
INVARIANTS PipeInv Bounded NoLostWakeup WriteResults
PROPERTIES ImplementsStream ReaderServed WriterServed
