SPECIFICATION FairSpec
CONSTANTS
  Length = 5
  BufferSize = 2
  SendTimeout = 2
  MaxClock = 4
  MaxSignals = 2
INVARIANTS
  NoByteLostOrRepeated
  SuccessIsWhole
PROPERTIES
  EndsUnlessPeerStalls
