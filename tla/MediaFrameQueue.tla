--------------------------- MODULE MediaFrameQueue ---------------------------
(***************************************************************************)
(* The bounded queue between two pipeline threads: class mediaFrameQueue   *)
(* (utils/mediaThread.cpp) over the ring buffer StreamerFiFo               *)
(* (utils/StreamerStack.h).                                                *)
(*                                                                         *)
(* Every operation holds the queue's mutex from entry to return, except    *)
(* while it is blocked in pthread_cond_timedwait, so each piece of an      *)
(* operation between two waits is one action.  A blocked thread is         *)
(*   "waiting"    until somebody signals its condition variable,           *)
(*   "signalled"  from then until it has the mutex again,                  *)
(*   "early"      when the wait ended with neither a signal nor a timeout: *)
(*                a spurious wake-up, or EINVAL for a malformed deadline.  *)
(* The code tests only for ETIMEDOUT: in the other cases it goes on        *)
(* without looking at the ring again.                                      *)
(***************************************************************************)
EXTENDS Integers, FiniteSets, Sequences

CONSTANTS
  Frames,      \* frame descriptors
  KeyFrames,   \* those whose flag says key frame
  NoFrame,     \* NULL
  Producers,   \* threads that call enqueue
  Consumers,   \* threads that call dequeue
  Cleaners,    \* threads that call getSize and then cleanIf
  Capacity,    \* mCapacity
  HighWater,   \* size above which a cleaner cleans (80 of 100, 300 of 400)
  Policy,      \* the cleanIf callback: "key" (myCleanQueueV),
               \* "batch" (myCleanQueueA) or "all" (clean)
  CleanBatch,  \* frames a "batch" removes (100)
  ClockUsec    \* the tv_usec values that gettimeofday can return

Threads == Producers \cup Consumers \cup Cleaners

ASSUME QueueAssumption ==
  /\ Capacity \in Nat \ {0}
  /\ CleanBatch \in Nat \ {0}
  /\ HighWater \in Nat
  /\ KeyFrames \subseteq Frames
  /\ NoFrame \notin Frames
  /\ Policy \in {"key", "batch", "all"}
  /\ Producers \cap Consumers = {}
  /\ Producers \cap Cleaners = {}
  /\ Consumers \cap Cleaners = {}

ASSUME ClockAssumption ==
  ClockUsec \subseteq Nat /\ \A usec \in ClockUsec : usec < 1000000

VARIABLES
  mData, mHeader, mTail, mSize,   \* StreamerFiFo
  pc,      \* where each thread is in its current call
  held,    \* the frame a blocked enqueue was called with
  lost     \* frames for which enqueue returned 0 without storing them

ring == <<mData, mHeader, mTail, mSize>>
vars == <<ring, pc, held, lost>>

\* Definitions named X_slip... are versions of X with a plausible bug; nothing
\* uses them but the mutation runs that show the properties would notice.
IsFull_slipOne == mSize > Capacity

IsEmpty == mSize = 0
IsFull == mSize = Capacity

Contents == [i \in 1..mSize |-> mData[(mHeader + (i - 1)) % Capacity]]
Queued   == {Contents[i] : i \in 1..mSize}
Held     == {held[p] : p \in Producers} \ {NoFrame}
Outside  == Frames \ (Queued \cup Held \cup lost)
------------------------------------------------------------------------------
\* StreamerFiFo
Wrap(i) == i % Capacity

put(f) ==
  IF IsFull
  THEN UNCHANGED ring
  ELSE /\ mData' = [mData EXCEPT ![mTail] = f]
       /\ mTail' = Wrap(mTail + 1)
       /\ mSize' = mSize + 1
       /\ UNCHANGED mHeader

getMany_slipOneStep(k) ==
  /\ mHeader' = Wrap(mHeader + IF k > 0 THEN 1 ELSE 0)
  /\ mSize' = mSize - k
  /\ UNCHANGED <<mData, mTail>>

\* get, called k times on a ring that has k frames
getMany(k) ==
  /\ mHeader' = Wrap(mHeader + k)
  /\ mSize' = mSize - k
  /\ UNCHANGED <<mData, mTail>>

get_slipPeak == UNCHANGED ring
get == IF IsEmpty THEN UNCHANGED ring ELSE getMany(1)

\* pthread_cond_signal: wakes one waiter of S, if there is one.  q is pc as
\* the signalling thread leaves it; the result is the set of possible pc'.
Signal(S, q) ==
  LET waiters == {t \in S : q[t] = "waiting"}
  IN  IF waiters = {} THEN {q} ELSE {[q EXCEPT ![t] = "signalled"] : t \in waiters}

\* make_abstime_latems(10): the deadline's tv_nsec.  The carry into tv_sec is
\* taken only above one second, not at it.
DeadlineNsec(usec) ==
  LET nsec == (usec + 10000) * 1000
  IN  IF nsec > 1000000000 THEN nsec - 1000000000 ELSE nsec

ValidDeadline(usec) == DeadlineNsec(usec) < 1000000000

\* pthread_cond_timedwait blocks, or returns EINVAL at once.
StartWait(t) ==
  \E usec \in ClockUsec :
    pc' = [pc EXCEPT ![t] = IF ValidDeadline(usec) THEN "waiting" ELSE "early"]
------------------------------------------------------------------------------
Init ==
  /\ mData = [i \in 0..Capacity - 1 |-> NoFrame]
  /\ mHeader = 0
  /\ mTail = 0
  /\ mSize = 0
  /\ pc = [t \in Threads |-> "idle"]
  /\ held = [p \in Producers |-> NoFrame]
  /\ lost = {}

\* enqueue: stores the frame, or blocks for at most 10 ms on a full ring
Enqueue(p, f) ==
  /\ pc[p] = "idle"
  /\ \/ /\ ~IsFull
        /\ put(f)
        /\ pc' \in Signal(Consumers, pc)
        /\ UNCHANGED held
     \/ /\ IsFull
        /\ StartWait(p)
        /\ held' = [held EXCEPT ![p] = f]
        /\ UNCHANGED ring
  /\ UNCHANGED lost

\* enqueue after its wait: put's result is not looked at, and 0 is returned
EnqueueResume(p) ==
  /\ pc[p] \in {"signalled", "early"}
  /\ put(held[p])
  /\ lost' = IF IsFull THEN lost \cup {held[p]} ELSE lost
  /\ held' = [held EXCEPT ![p] = NoFrame]
  /\ pc' \in Signal(Consumers, [pc EXCEPT ![p] = "idle"])

\* dequeue: takes the oldest frame, or blocks for at most 10 ms
Dequeue(c) ==
  /\ pc[c] = "idle"
  /\ \/ /\ ~IsEmpty
        /\ get
        /\ pc' \in Signal(Producers, pc)
     \/ /\ IsEmpty
        /\ StartWait(c)
        /\ UNCHANGED ring
  /\ UNCHANGED <<held, lost>>

\* dequeue after its wait: get returns NULL if the frame is gone by now
DequeueResume(c) ==
  /\ pc[c] \in {"signalled", "early"}
  /\ get
  /\ pc' \in Signal(Producers, [pc EXCEPT ![c] = "idle"])
  /\ UNCHANGED <<held, lost>>

\* The wait ends with ETIMEDOUT: enqueue returns -ETIMEDOUT and its caller
\* still has the frame, dequeue returns NULL.  POSIX lets a wait that times
\* out consume a signal sent at the same moment.
TimedOut(t) ==
  /\ pc[t] \in {"waiting", "signalled"}
  /\ pc' = [pc EXCEPT ![t] = "idle"]
  /\ held' = [p \in Producers |-> IF p = t THEN NoFrame ELSE held[p]]
  /\ UNCHANGED <<ring, lost>>

SpuriousWakeup(t) ==
  /\ pc[t] = "waiting"
  /\ pc' = [pc EXCEPT ![t] = "early"]
  /\ UNCHANGED <<ring, held, lost>>

\* ff_read_devices: getSize reads mSize without the mutex, cleanIf follows.
\* clean() has no such test.
CheckSize(k) ==
  /\ pc[k] = "idle"
  /\ Policy = "all" \/ mSize > HighWater
  /\ pc' = [pc EXCEPT ![k] = "cleaning"]
  /\ UNCHANGED <<ring, held, lost>>

CleanStops_slipSparesFirst ==
  {k \in 0..mSize - 1 : Policy = "key" /\ Contents[k + 1] \in KeyFrames}
CleanStops_slipFlagInverted ==
  {k \in 1..mSize - 1 : Policy = "key" /\ Contents[k + 1] \notin KeyFrames}

\* The counts of removed frames at which the callback would stop cleanIf.
\* myCleanQueueV removes the first frame whatever it is and stops before a key
\* frame, myCleanQueueA stops after its batch; cleanIf ends at the first stop,
\* or with the ring empty.
CleanStops ==
  {k \in 1..mSize - 1 :
     \/ Policy = "batch" /\ k = CleanBatch
     \/ Policy = "key" /\ Contents[k + 1] \in KeyFrames}

CleanIf_slipNoSignal(k) ==
  /\ pc[k] = "cleaning"
  /\ \E n \in CleanStops \cup {mSize} :
       /\ \A m \in CleanStops \cup {mSize} : n <= m
       /\ getMany(n)
  /\ pc' = [pc EXCEPT ![k] = "idle"]
  /\ UNCHANGED <<held, lost>>

CleanIf(k) ==
  /\ pc[k] = "cleaning"
  /\ \E n \in CleanStops \cup {mSize} :
       /\ \A m \in CleanStops \cup {mSize} : n <= m
       /\ getMany(n)
  /\ pc' \in Signal(Producers, [pc EXCEPT ![k] = "idle"])
  /\ UNCHANGED <<held, lost>>

Next ==
  \/ \E p \in Producers, f \in Outside : Enqueue(p, f)
  \/ \E p \in Producers : EnqueueResume(p)
  \/ \E c \in Consumers : Dequeue(c) \/ DequeueResume(c)
  \/ \E t \in Producers \cup Consumers : TimedOut(t) \/ SpuriousWakeup(t)
  \/ \E k \in Cleaners : CheckSize(k) \/ CleanIf(k)

Spec == Init /\ [][Next]_vars

\* The thread behind each queue calls dequeue in a loop (mediaThread::run, the
\* mux loop), and a timed wait ends.
Fairness ==
  \A c \in Consumers : WF_vars(Dequeue(c) \/ DequeueResume(c) \/ TimedOut(c))

FairSpec == Spec /\ Fairness
------------------------------------------------------------------------------
\* The types: the two indices stay inside the ring, the size inside the capacity.
TypeOK ==
  /\ mData \in [0..Capacity - 1 -> Frames \cup {NoFrame}]
  /\ mHeader \in 0..Capacity - 1
  /\ mTail \in 0..Capacity - 1
  /\ mSize \in 0..Capacity
  /\ pc \in [Threads -> {"idle", "waiting", "signalled", "early", "cleaning"}]
  /\ held \in [Producers -> Frames \cup {NoFrame}]
  /\ lost \subseteq Frames

\* A descriptor is in one place: no frame is in the ring twice, or in the ring
\* while a blocked enqueue still holds it, or in the hands of two producers.
\* mediaFrameRelease frees a frame through whoever took it out, so a frame in
\* two places would be released twice.
OnePlace ==
  /\ \A i, j \in 1..mSize : Contents[i] = Contents[j] => i = j
  /\ \A p, q \in Producers : held[p] = held[q] /\ held[p] # NoFrame => p = q
  /\ Queued \cap (Held \cup lost) = {}
  /\ Held \cap lost = {}

SingleProducer == \A p, q \in Producers : p = q
SingleConsumer == \A c, d \in Consumers : c = d

\* A wait that nobody has to end is justified: with one thread at each end, as
\* the application wires every queue, a consumer that waits unsignalled has an
\* empty queue in front of it and a producer a full one.  So the 10 ms timeout
\* is never what makes a frame move on.
NoLostWakeup ==
  /\ SingleConsumer => \A c \in Consumers : pc[c] = "waiting" => IsEmpty
  /\ SingleProducer => \A p \in Producers : pc[p] = "waiting" => IsFull

\* The inductive invariant behind these: the tail is where the header and the
\* size say it is; a producer holds a frame exactly while it is blocked; and no
\* other thread fills the slot for which a single producer was signalled before
\* that producer has the mutex again.
RingOK == mTail = (mHeader + mSize) % Capacity

HeldByBlocked ==
  \A p \in Producers :
    \/ pc[p] = "idle" /\ held[p] = NoFrame
    \/ pc[p] \in {"waiting", "signalled", "early"} /\ held[p] \in Frames

SignalledHasRoom ==
  SingleProducer => \A p \in Producers : pc[p] = "signalled" => ~IsFull

\* The inductive invariant as a whole.
IInv ==
  /\ TypeOK
  /\ RingOK
  /\ HeldByBlocked
  /\ OnePlace
  /\ NoLostWakeup
  /\ SignalledHasRoom

\* With one producer, enqueue returns 0 for a frame it has not stored only when
\* its wait ended by itself (a spurious wake-up or a malformed deadline): after
\* a signal there is room, although the code does not look at the ring again.
LossOnlyAfterEarlyReturn ==
  [][SingleProducer /\ lost' # lost => \E p \in Producers : pc[p] = "early"]_vars

\* The ring implements the FIFO that the pipeline relies on.
Fifo == INSTANCE FrameFifo WITH fifo <- Contents
ImplementsFifo == Fifo!Spec

\* A frame that was accepted leaves the queue as long as the consumer calls.
FramesLeave == \A f \in Frames : f \in Queued ~> f \notin Queued
==============================================================================
