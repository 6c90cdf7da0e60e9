\* A debug message of the muxer.
SPECIFICATION Spec
CONSTANTS
  main = main
  other = other
  Threads = {main, other}
  Main = main
  NoOne = NoOne
  Names = {"debug", "error"}
  SetLevels <- SomeLevels
  MaxMessages = 3
CHECK_DEADLOCK FALSE
INVARIANTS
  DebugStaysDebug
