\* Who may use what after it is deleted, and that the process ends.
SPECIFICATION FairSpec
INVARIANTS
  SharedOutlivesThreads
  OnlyLateUsers
  SafeWhileRunning
PROPERTIES
  ShutdownEnds
