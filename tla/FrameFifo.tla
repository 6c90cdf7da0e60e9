------------------------------ MODULE FrameFifo ------------------------------
(***************************************************************************)
(* What a mediaFrameQueue promises to the threads on both of its ends: a   *)
(* bounded FIFO.  Frames leave in the order in which they came, from the   *)
(* front only - one at a time (dequeue) or several (cleanIf) - a frame is  *)
(* never in the queue twice, and there are never more than Capacity.       *)
(***************************************************************************)
EXTENDS Integers, Sequences

CONSTANTS Frames,    \* the frame descriptors that can be queued
          Capacity   \* the capacity given to the constructor

VARIABLE fifo        \* the queued frames, oldest first

InFifo(f) == \E i \in 1..Len(fifo) : fifo[i] = f

Init == fifo = << >>

Put(f) ==
  /\ Len(fifo) < Capacity
  /\ ~InFifo(f)
  /\ fifo' = Append(fifo, f)

DropFront(k) == fifo' = SubSeq(fifo, k + 1, Len(fifo))

Next ==
  \/ \E f \in Frames : Put(f)
  \/ \E k \in 1..Len(fifo) : DropFront(k)

Spec == Init /\ [][Next]_fifo
==============================================================================
