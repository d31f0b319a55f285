\* Three slots and five strings: the ring wraps and refuses.
CONSTANTS
  N = 3
  ByteRange = 256
  Interrupt = TRUE
  MaxStrings = 5
SPECIFICATION FairSpec
INVARIANTS QueueNotInterrupted LogInOrder
PROPERTY EveryStringPrinted
