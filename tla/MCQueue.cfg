\* The video queue as the application wires it: the encoder produces, the mux
\* thread consumes and calls in a loop, the device reader cleans.
SPECIFICATION GapFairSpec
CONSTANTS
  f1 = f1
  f2 = f2
  f3 = f3
  f4 = f4
  f5 = f5
  Frames = {f1, f2, f3, f4, f5}
  KeyFrames = {f1, f2}
  NoFrame = NoFrame
  Producers = {enc}
  Consumers = {mux}
  Cleaners = {reader}
  enc = enc
  mux = mux
  reader = reader
  Capacity = 3
  HighWater = 1
  Policy = "key"
  CleanBatch = 1
  ClockUsec <- EdgeUsec
INVARIANTS
  OnePlace
  NoLostWakeup
  GapEndsAtKeyFrame
PROPERTIES
  LossOnlyAfterEarlyReturn
  ImplementsFifo
  FramesLeave
