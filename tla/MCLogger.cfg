\* The application, whose main logs first, and a program whose threads log at once and
\* that sets the level.
SPECIFICATION FairSpec
CONSTANTS
  main = main
  other = other
  Threads = {main, other}
  Main = main
  NoOne = NoOne
  Names = {"debug", "error"}
  SetLevels <- SomeLevels
  MaxMessages = 3
CHECK_DEADLOCK FALSE
INVARIANTS
  InitialisedOnce
  WholeLines
  LevelHolds
PROPERTIES
  MessageEnds
