-------------------------- MODULE MCStreamerSession --------------------------
(* Instances of StreamerSession for TLC.                                     *)
EXTENDS StreamerSession

AudioVideo == {"video", "audio"}
==============================================================================
