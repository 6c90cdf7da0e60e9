----------------------------- MODULE MCVideoGaps -----------------------------
(* An instance of VideoGaps for TLC.                                         *)
EXTENDS VideoGaps

\* Just below, at and just above the moment where now + 10 ms is a whole second.
EdgeUsec == {0, 989999, 990000, 990001, 999999}
==============================================================================
