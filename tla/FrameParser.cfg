SPECIFICATION Spec
CONSTANTS
  Highs <- SomeHighs
  Lows <- SomeLows
INVARIANTS TypeOK NoOverrun FrameAligned IdleHeapSmall DroppedIsTooLong
