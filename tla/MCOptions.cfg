\* The option list, set at any time before, during and after prepare.
SPECIFICATION Spec
CONSTANTS
  Values <- Strings
  atoi <- Numbers
  NoValue = NoValue
  Garbage = 777
  MaxSets = 3
CHECK_DEADLOCK FALSE
INVARIANTS
  OptionApplied
  BlocksAreReachable
PROPERTIES
  ImplementsMap
