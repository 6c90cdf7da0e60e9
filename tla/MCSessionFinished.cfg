\* write_frame's comment against what makes a stream end.
SPECIFICATION Spec
CONSTANTS
  Streams <- AudioVideo
  NoThread = NoThread
  OpenMayFail = FALSE
  ListenerChanges = 0
PROPERTY StreamEndsWhenFinished
