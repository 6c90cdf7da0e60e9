---------------------------- MODULE MCMuxTimestamps ----------------------------
(* An instance of MuxTimestamps for TLC: streams that start before, at and after 0. *)
EXTENDS MuxTimestamps

StartStamps == {-1, 0, 2}
StepSizes == {1, 3}
VideoDelays == {0, 2}
===============================================================================
