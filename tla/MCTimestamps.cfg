\* Both streams, four frames of each, container units of two time base units.
SPECIFICATION FairSpec
CONSTANTS
  Starts <- StartStamps
  Steps <- StepSizes
  Delays <- VideoDelays
  Tick = 2
  MaxFrames = 4
  MaxQueue = 2
CHECK_DEADLOCK FALSE
INVARIANTS
  SameOrigin
  Interleaved
PROPERTIES
  DtsNeverGoesBack
  NoStreamStarves
