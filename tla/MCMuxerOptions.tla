---------------------------- MODULE MCMuxerOptions ----------------------------
(* An instance of MuxerOptions for TLC: a number, a number with something behind *)
(* it, and none.                                                                 *)
EXTENDS MuxerOptions

Strings == {"1500", "20s", "long"}
Numbers == [s \in Strings |-> CASE s = "1500" -> 1500 [] s = "20s" -> 20 [] s = "long" -> 0]
===============================================================================
