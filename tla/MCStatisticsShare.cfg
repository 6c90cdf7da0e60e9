\* A reset in the middle of a frame.
SPECIFICATION Spec
CONSTANTS
  MaxStreams = 2
  Threshold = 1
  Second = 1
  MaxFrames = 3
  MaxClock = 3
CHECK_DEADLOCK FALSE
INVARIANT FactorIsShare
