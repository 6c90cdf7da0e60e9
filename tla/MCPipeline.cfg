\* Where the frames go, and what must happen while the network blocks the mux thread.
SPECIFICATION FairSpec
CONSTANTS
  d1 = d1
  d2 = d2
  d3 = d3
  d4 = d4
  Descriptors = {d1, d2, d3, d4}
  NoFrame = NoFrame
  RawCapacity = 2
  EsCapacity = 2
  PoolCapacity = 1
  HighWater = 1
  EncoderDelay = 1
  MayPause = TRUE
  MaxCaptured = 3
CHECK_DEADLOCK FALSE
INVARIANTS
  OneOwner
  ReleaseFits
  InOrder
  NothingStranded
PROPERTIES
  EncoderMovesOn
  StopReturns
