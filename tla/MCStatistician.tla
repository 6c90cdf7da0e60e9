--------------------------- MODULE MCStatistician ---------------------------
(* Instances of Statistician for TLC.                                       *)
EXTENDS Statistician
=============================================================================
