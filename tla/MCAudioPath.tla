------------------------------ MODULE MCAudioPath ------------------------------
(* An instance of AudioPath for TLC: sizes that fit, and sizes that do not. *)
EXTENDS AudioPath

SmallSizes == 1 .. 7
StartStamps == -1 .. 18
Buffers == {6, 12, 18}
NoDelay == {0}
===============================================================================
