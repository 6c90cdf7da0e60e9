\* The session with a listener that is set and cleared and a delegate that may fail to open.
SPECIFICATION FairSpec
CONSTANTS
  Streams <- AudioVideo
  NoThread = NoThread
  OpenMayFail = TRUE
  ListenerChanges = 2
INVARIANTS
  ContextOutlivesMux
  StopIsComplete
  OnlyErrorOutlivesStop
  EventsAreConsistent
  EventReachesListener
  ConnectIsNeverInterrupted
PROPERTIES
  StopTerminates
