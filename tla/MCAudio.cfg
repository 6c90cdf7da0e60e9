\* A device, its packets and three buffers of 6; a video stream of two frames.
SPECIFICATION AudioSpec
CONSTANTS
  BufferSize = 6
  PacketSizes <- SmallSizes
  MaxBytes = 18
  Priming = 1
  Starts <- StartStamps
  Steps <- Buffers
  Delays <- NoDelay
  Tick = 2
  MaxFrames = 2
  MaxQueue = 2
CHECK_DEADLOCK FALSE
INVARIANTS
  InBounds
PROPERTIES
  FeedsMux
