CONSTANTS
  MaxDepth = 4
  RingSlots <- Slots
  MaxSequence = 4
  MaxRuns = 2
SPECIFICATION Spec
INVARIANTS AcquireSucceeds OwnedOnce GapsAreCounted
