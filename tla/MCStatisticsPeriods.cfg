\* The figures of every period, with resets at any time.
SPECIFICATION Spec
CONSTANTS
  MaxStreams = 2
  Threshold = 1
  Second = 1
  MaxFrames = 3
  MaxClock = 3
CHECK_DEADLOCK FALSE
INVARIANTS
  OnlyClearedStreams
  RateOfItsStream
  NothingLost
  ShareUnlessMidFrame
