---------------------------- MODULE FramePipeline ----------------------------
(***************************************************************************)
(* One stream from the device to the muxer (MacRTMPStreamer.cpp):          *)
(*                                                                         *)
(*   ff_read_devices --raw--> FFEncoderThread --es--> mux thread           *)
(*        ^                      |      ^                 |                *)
(*        |                      v      |                 v                *)
(*        +------------------- pFrameStack ---------------+                *)
(*                                                                         *)
(* The frame descriptors (mediaFrame) circulate: every thread takes them   *)
(* from the shared stack, passes them on through a queue, and gives them   *)
(* back through the release callback they carry.  Nothing but this         *)
(* discipline keeps a descriptor from being used by two threads.           *)
(*                                                                         *)
(* The queues are taken at their interface: MediaFrameQueue shows what     *)
(* enqueue, dequeue and cleanIf do inside.                                 *)
(***************************************************************************)
EXTENDS Integers, SequencesExt

CONSTANTS
  Descriptors,    \* the addresses that malloc can return for a mediaFrame
  NoFrame,        \* NULL
  RawCapacity,    \* pYUVQueue: 5, pPCMQueue: 20
  EsCapacity,     \* pVEQueue: 100, pAEQueue: 400
  PoolCapacity,   \* pFrameStack: 500
  HighWater,      \* above this size the reader cleans es (80, 300)
  EncoderDelay,   \* packets that the codec, or mPCMBuffer, may hold back
  MayPause,       \* whether somebody calls mediaThread::pause (main does not)
  MaxCaptured     \* bound on the packets of this stream

ASSUME PipelineAssumption ==
  /\ NoFrame \notin Descriptors
  /\ {RawCapacity, EsCapacity, PoolCapacity} \subseteq Nat \ {0}
  /\ {HighWater, EncoderDelay, MaxCaptured} \subseteq Nat
  /\ HighWater < EsCapacity
  /\ MayPause \in BOOLEAN

Threads == {"main", "reader", "encoder", "mux"}

\* The release callbacks: ReleasePkt frees pBuffer as the packet,
\* release_pkt_buffer frees the packet it has as its argument.
Releases == {"ReleasePkt", "release_pkt_buffer"}

VARIABLES
  pc,         \* where each thread is
  hand,       \* the descriptor a thread is working on
  raw, es,    \* the two queues, oldest first
  pool,       \* pFrameStack, top last
  mediaFrame, \* by descriptor: the packet it carries and its release callback
  codec,      \* the packets inside the encoder, oldest first
  mStatus,    \* of the encoder's mediaThread
  stop,       \* streamer_cont.stop
  captured,   \* packets read so far; a packet is identified by its number
  written,    \* the last packet that the muxer wrote
  leaked      \* descriptors that nobody will ever release

frameVars == <<hand, raw, es, pool, mediaFrame, leaked>>
vars == <<pc, frameVars, codec, mStatus, stop, captured, written>>

Goto(t, label) == pc' = [pc EXCEPT ![t] = label]
Keep(t, d) == hand' = [hand EXCEPT ![t] = d]

\* Where a descriptor can be, besides the stack and the queues; the rest is memory
\* that is free.
Held == {hand[t] : t \in Threads} \ {NoFrame}
Unallocated == Descriptors \ (ToSet(pool) \cup ToSet(raw) \cup ToSet(es) \cup Held \cup leaked)
------------------------------------------------------------------------------
\* getMediaFrame: the top of the stack, or a new descriptor if it is empty
getMediaFrame_slipKeepsRelease(t, packet, release) ==
  \E d \in IF pool = << >> THEN Unallocated ELSE {Last(pool)} :
    /\ pool' = IF pool = << >> THEN pool ELSE Front(pool)
    /\ mediaFrame' = [mediaFrame EXCEPT ![d].packet = packet]
    /\ Keep(t, d)

getMediaFrame(t, packet, release) ==
  \E d \in IF pool = << >> THEN Unallocated ELSE {Last(pool)} :
    /\ pool' = IF pool = << >> THEN pool ELSE Front(pool)
    /\ mediaFrame' = [mediaFrame EXCEPT ![d] = [packet |-> packet, release |-> release]]
    /\ Keep(t, d)

\* mediaFrameRelease, for a sequence of descriptors: the packets are freed, and the
\* descriptors go back to the stack, or are freed if it is full.
Release(s) ==
  /\ pool' = SubSeq(pool \o s, 1, Min({Len(pool \o s), PoolCapacity}))
  /\ mediaFrame' = [d \in Descriptors |->
                     IF Contains(s, d) THEN [mediaFrame[d] EXCEPT !.packet = 0] ELSE mediaFrame[d]]

mediaFrameRelease(t) == Release(<<hand[t]>>) /\ Keep(t, NoFrame)
------------------------------------------------------------------------------
Init ==
  /\ pc = [t \in Threads |-> IF t = "main" THEN "create" ELSE "off"]
  /\ hand = [t \in Threads |-> NoFrame]
  /\ raw = << >>
  /\ es = << >>
  /\ pool = << >>
  /\ mediaFrame \in [Descriptors -> [packet : {0}, release : {"ReleasePkt"}]]
  /\ codec = << >>
  /\ mStatus = "NULL"
  /\ stop = FALSE
  /\ captured = 0
  /\ written = 0
  /\ leaked = {}

\* ff_read_devices
ReaderLoop ==
  /\ pc["reader"] = "loop"
  /\ Goto("reader", IF stop THEN "ended" ELSE "read")
  /\ UNCHANGED <<frameVars, codec, mStatus, stop, captured, written>>

\* A packet of this stream.
Read ==
  /\ pc["reader"] = "read"
  /\ captured < MaxCaptured
  /\ captured' = captured + 1
  /\ getMediaFrame("reader", captured + 1, "ReleasePkt")
  /\ Goto("reader", "enqueue")
  /\ UNCHANGED <<raw, es, leaked, codec, mStatus, stop, written>>

\* A packet that belongs to no stream: the descriptor goes straight back.
ReadOther ==
  /\ pc["reader"] = "read"
  /\ getMediaFrame("reader", 0, "ReleasePkt")
  /\ Goto("reader", "discard")
  /\ UNCHANGED <<raw, es, leaked, codec, mStatus, stop, captured, written>>

ReaderDiscard ==
  /\ pc["reader"] = "discard"
  /\ mediaFrameRelease("reader")
  /\ Goto("reader", "getSize")
  /\ UNCHANGED <<raw, es, leaked, codec, mStatus, stop, captured, written>>

\* The reader does not look at enqueue's result: a frame that was not stored
\* is forgotten.
ReaderEnqueue ==
  /\ pc["reader"] = "enqueue"
  /\ IF Len(raw) < RawCapacity
     THEN raw' = Append(raw, hand["reader"]) /\ UNCHANGED leaked
     ELSE leaked' = leaked \cup {hand["reader"]} /\ UNCHANGED raw
  /\ Keep("reader", NoFrame)
  /\ Goto("reader", "getSize")
  /\ UNCHANGED <<es, pool, mediaFrame, codec, mStatus, stop, captured, written>>

ReaderGetSize_slipHighWater ==
  /\ pc["reader"] = "getSize"
  /\ Goto("reader", IF Len(es) > EsCapacity THEN "cleanIf" ELSE "loop")
  /\ UNCHANGED <<frameVars, codec, mStatus, stop, captured, written>>

ReaderGetSize ==
  /\ pc["reader"] = "getSize"
  /\ Goto("reader", IF Len(es) > HighWater THEN "cleanIf" ELSE "loop")
  /\ UNCHANGED <<frameVars, codec, mStatus, stop, captured, written>>

\* cleanIf releases some frames from the front: at least one if there is one.
ReaderCleanIf ==
  /\ pc["reader"] = "cleanIf"
  /\ \E k \in 0..Len(es) :
       /\ k = 0 => es = << >>
       /\ es' = SubSeq(es, k + 1, Len(es))
       /\ Release(SubSeq(es, 1, k))
  /\ Goto("reader", "loop")
  /\ UNCHANGED <<hand, raw, leaked, codec, mStatus, stop, captured, written>>
------------------------------------------------------------------------------
\* mediaThread::run and func, with FFEncoderThread::deal.  (A paused thread only
\* sleeps.)
EncoderLoop ==
  /\ pc["encoder"] = "loop"
  /\ mStatus # "Pause"
  /\ Goto("encoder", IF mStatus = "Stop" THEN "ended" ELSE "dequeue")
  /\ UNCHANGED <<frameVars, codec, mStatus, stop, captured, written>>

EncoderDequeue_slipNewest ==
  /\ pc["encoder"] = "dequeue"
  /\ IF raw = << >>
     THEN Goto("encoder", "loop") /\ UNCHANGED <<raw, hand>>
     ELSE /\ Keep("encoder", Last(raw))
          /\ raw' = Front(raw)
          /\ Goto("encoder", "deal")
  /\ UNCHANGED <<es, pool, mediaFrame, leaked, codec, mStatus, stop, captured, written>>

EncoderDequeue ==
  /\ pc["encoder"] = "dequeue"
  /\ IF raw = << >>
     THEN Goto("encoder", "loop") /\ UNCHANGED <<raw, hand>>
     ELSE /\ Keep("encoder", Head(raw))
          /\ raw' = Tail(raw)
          /\ Goto("encoder", "deal")
  /\ UNCHANGED <<es, pool, mediaFrame, leaked, codec, mStatus, stop, captured, written>>

\* encoderVideo, encoderAudio: the packet goes into the codec and its descriptor
\* back to the stack.  The codec then has a packet for us, or holds it back, or
\* fails and forgets what it had.
EncoderDeal ==
  /\ pc["encoder"] = "deal"
  /\ mediaFrameRelease("encoder")
  /\ LET packets == Append(codec, mediaFrame[hand["encoder"]].packet)
     IN  \/ codec' = packets /\ Goto("encoder", "got")
         \/ codec' = packets /\ Len(packets) <= EncoderDelay /\ Goto("encoder", "loop")
         \/ codec' = << >> /\ Goto("encoder", "loop")
  /\ UNCHANGED <<raw, es, leaked, mStatus, stop, captured, written>>

\* The encoded packet stands for one packet (video) or for several that were put
\* together (audio, time stamp of the last); it travels in a new descriptor.
EncoderGot ==
  /\ pc["encoder"] = "got"
  /\ \E k \in 1..Len(codec) :
       /\ getMediaFrame("encoder", codec[k], "release_pkt_buffer")
       /\ codec' = SubSeq(codec, k + 1, Len(codec))
  /\ Goto("encoder", "enqueue")
  /\ UNCHANGED <<raw, es, leaked, mStatus, stop, captured, written>>

EncoderEnqueue ==
  /\ pc["encoder"] = "enqueue"
  /\ Len(es) < EsCapacity
  /\ es' = Append(es, hand["encoder"])
  /\ Keep("encoder", NoFrame)
  /\ Goto("encoder", "loop")
  /\ UNCHANGED <<raw, pool, mediaFrame, leaked, codec, mStatus, stop, captured, written>>

\* enqueue says 0, but its wait on a full queue had ended early: a lost frame
EncoderLoses ==
  /\ pc["encoder"] = "enqueue"
  /\ Len(es) = EsCapacity
  /\ leaked' = leaked \cup {hand["encoder"]}
  /\ Keep("encoder", NoFrame)
  /\ Goto("encoder", "loop")
  /\ UNCHANGED <<raw, es, pool, mediaFrame, codec, mStatus, stop, captured, written>>

EncoderGivesUp_slipKeeps ==
  /\ pc["encoder"] = "enqueue"
  /\ Len(es) = EsCapacity
  /\ mStatus = "Stop"
  /\ Goto("encoder", "loop")
  /\ UNCHANGED <<frameVars, codec, mStatus, stop, captured, written>>

EncoderGivesUp_slipAtOnce ==
  /\ pc["encoder"] = "enqueue"
  /\ Len(es) = EsCapacity
  /\ Release(<<hand["encoder"]>>)
  /\ UNCHANGED <<pc, hand, raw, es, leaked, codec, mStatus, stop, captured, written>>

EncoderGivesUp_slipNever == FALSE /\ UNCHANGED vars

\* enqueue says -ETIMEDOUT: it is tried again until the thread shall stop
EncoderGivesUp ==
  /\ pc["encoder"] = "enqueue"
  /\ Len(es) = EsCapacity
  /\ mStatus = "Stop"
  /\ mediaFrameRelease("encoder")
  /\ Goto("encoder", "loop")
  /\ UNCHANGED <<raw, es, leaked, codec, mStatus, stop, captured, written>>
------------------------------------------------------------------------------
\* The mux thread.  video_callback and audio_callback: a frame if there is one,
\* else another try, after which they look at stop.
MuxDequeue ==
  /\ pc["mux"] = "dequeue"
  /\ IF es = << >>
     THEN Goto("mux", "again") /\ UNCHANGED <<es, hand>>
     ELSE /\ Keep("mux", Head(es))
          /\ es' = Tail(es)
          /\ Goto("mux", "write")
  /\ UNCHANGED <<raw, pool, mediaFrame, leaked, codec, mStatus, stop, captured, written>>

MuxAgain ==
  /\ pc["mux"] = "again"
  /\ es # << >> \/ stop
  /\ es' = IF es = << >> THEN es ELSE Tail(es)
  /\ IF stop
     THEN /\ IF es = << >> THEN UNCHANGED <<pool, mediaFrame>> ELSE Release(<<Head(es)>>)
          /\ Goto("mux", "ended")
          /\ UNCHANGED hand
     ELSE /\ Keep("mux", Head(es))
          /\ Goto("mux", "write")
          /\ UNCHANGED <<pool, mediaFrame>>
  /\ UNCHANGED <<raw, leaked, codec, mStatus, stop, captured, written>>

\* write_frame releases the frame whether it was written or not.  The stream goes
\* on, or ends because of an error or of the muxer's end flag.
MuxWrite ==
  /\ pc["mux"] = "write"
  /\ \/ /\ written' = mediaFrame[hand["mux"]].packet
        /\ \/ Goto("mux", "dequeue")
           \/ Goto("mux", "ended")
     \/ /\ Goto("mux", "ended")
        /\ UNCHANGED written
  /\ mediaFrameRelease("mux")
  /\ UNCHANGED <<raw, es, leaked, codec, mStatus, stop, captured>>
------------------------------------------------------------------------------
\* main, from initMediaThread to the join in mediaThread::stop.
CreateReader ==
  /\ pc["main"] = "create"
  /\ pc' = [pc EXCEPT !["main"] = "start", !["reader"] = "loop"]
  /\ UNCHANGED <<frameVars, codec, mStatus, stop, captured, written>>

\* mediaThread::start
Start ==
  /\ pc["main"] = "start"
  /\ mStatus = "NULL"
  /\ mStatus' = "Runing"
  /\ pc' = [pc EXCEPT !["main"] = "run", !["encoder"] = "loop"]
  /\ UNCHANGED <<frameVars, codec, stop, captured, written>>

\* mediaThread::pause.  Nothing ends a pause but stop.
Pause ==
  /\ MayPause
  /\ pc["main"] = "run"
  /\ mStatus = "Runing"
  /\ mStatus' = "Pause"
  /\ UNCHANGED <<pc, frameVars, codec, stop, captured, written>>

\* The prepare thread has opened the output and starts the mux thread.
MuxStart ==
  /\ pc["mux"] = "off"
  /\ pc["main"] \notin {"create", "start"}
  /\ Goto("mux", "dequeue")
  /\ UNCHANGED <<frameVars, codec, mStatus, stop, captured, written>>

\* The user types q, or the listener reports an error.
SetStop ==
  /\ pc["main"] = "run"
  /\ stop' = TRUE
  /\ UNCHANGED <<pc, frameVars, codec, mStatus, captured, written>>

\* mediaThread::stop
Stop ==
  /\ pc["main"] = "run"
  /\ stop
  /\ mStatus' = IF mStatus \in {"Pause", "Runing"} THEN "Stop" ELSE mStatus
  /\ Goto("main", "join")
  /\ UNCHANGED <<frameVars, codec, stop, captured, written>>

StopJoin ==
  /\ pc["main"] = "join"
  /\ pc["encoder"] = "ended"
  /\ Goto("main", "joined")
  /\ UNCHANGED <<frameVars, codec, mStatus, stop, captured, written>>
------------------------------------------------------------------------------
ReaderStep ==
  \/ ReaderLoop
  \/ Read
  \/ ReadOther
  \/ ReaderDiscard
  \/ ReaderEnqueue
  \/ ReaderGetSize
  \/ ReaderCleanIf

EncoderStep ==
  \/ EncoderLoop
  \/ EncoderDequeue
  \/ EncoderDeal
  \/ EncoderGot
  \/ EncoderEnqueue
  \/ EncoderGivesUp

MuxStep == MuxDequeue \/ MuxAgain \/ MuxWrite

MainStep == CreateReader \/ Start \/ Stop \/ StopJoin

Next ==
  \/ ReaderStep
  \/ EncoderStep
  \/ EncoderLoses
  \/ MuxStart
  \/ MuxStep
  \/ MainStep
  \/ Pause
  \/ SetStop

Spec == Init /\ [][Next]_vars

\* The device delivers, the codec returns, and a join returns when it can.  Nothing
\* is asked of the mux thread, which the network may block for any time, or of main
\* before it joins: it looks at stop only when getchar returns.  EncoderLoses is no
\* part of EncoderStep: a wait that ends early frees the encoder, but none has to.
Fairness ==
  /\ WF_vars(ReaderStep)
  /\ WF_vars(EncoderStep)
  /\ WF_vars(StopJoin)

FairSpec == Spec /\ Fairness
------------------------------------------------------------------------------
\* The types: the queues and the stack of free descriptors stay inside their
\* capacities, whatever the threads push at the same time.
TypeOK ==
  /\ pc["main"] \in {"create", "start", "run", "join", "joined"}
  /\ pc["reader"] \in {"off", "loop", "read", "enqueue", "discard", "getSize", "cleanIf", "ended"}
  /\ pc["encoder"] \in {"off", "loop", "dequeue", "deal", "got", "enqueue", "ended"}
  /\ pc["mux"] \in {"off", "dequeue", "again", "write", "ended"}
  /\ hand \in [Threads -> Descriptors \cup {NoFrame}]
  /\ raw \in BoundedSeq(Descriptors, RawCapacity)
  /\ es \in BoundedSeq(Descriptors, EsCapacity)
  /\ pool \in BoundedSeq(Descriptors, PoolCapacity)
  /\ mediaFrame \in [Descriptors -> [packet : 0..MaxCaptured, release : Releases]]
  /\ codec \in BoundedSeq(1..MaxCaptured, EncoderDelay + 1)
  /\ mStatus \in {"NULL", "Runing", "Pause", "Stop"}
  /\ stop \in BOOLEAN
  /\ captured \in 0..MaxCaptured
  /\ written \in 0..MaxCaptured
  /\ leaked \subseteq Descriptors

\* Every descriptor has one owner: it is once in the stack, in a queue or in one
\* thread's hand, so no frame is written to by one thread while another uses it,
\* and none is released twice.  (With the types.)
OneOwner ==
  /\ TypeOK
  /\ IsInjective(pool) /\ IsInjective(raw) /\ IsInjective(es)
  /\ \A t, u \in Threads : t # u /\ hand[t] = hand[u] => hand[t] = NoFrame
  /\ ToSet(pool) \cap (ToSet(raw) \cup ToSet(es) \cup Held \cup leaked) = {}
  /\ ToSet(raw) \cap (ToSet(es) \cup Held \cup leaked) = {}
  /\ ToSet(es) \cap (Held \cup leaked) = {}
  /\ Held \cap leaked = {}

\* A descriptor that is recycled between the two kinds of frames carries the
\* release callback that fits what it holds now.
ReleaseFits ==
  /\ \A d \in ToSet(raw) : mediaFrame[d].release = "ReleasePkt"
  /\ \A d \in ToSet(es) : mediaFrame[d].release = "release_pkt_buffer"
  /\ pc["reader"] = "enqueue" => mediaFrame[hand["reader"]].release = "ReleasePkt"
  /\ pc["encoder"] = "deal" => mediaFrame[hand["encoder"]].release = "ReleasePkt"
  /\ pc["encoder"] = "enqueue" => mediaFrame[hand["encoder"]].release = "release_pkt_buffer"
  /\ pc["mux"] = "write" => mediaFrame[hand["mux"]].release = "release_pkt_buffer"

\* Packets overtake each other nowhere between the device and the muxer, although
\* they change descriptors on the way and some of them are dropped.
PacketsOf(descriptors) == [i \in DOMAIN descriptors |-> mediaFrame[descriptors[i]].packet]
PacketAt(t, label) == IF pc[t] = label THEN <<mediaFrame[hand[t]].packet>> ELSE << >>

Line ==
  <<written>>
    \o PacketAt("mux", "write")
    \o PacketsOf(es)
    \o PacketAt("encoder", "enqueue")
    \o codec
    \o PacketAt("encoder", "deal")
    \o PacketsOf(raw)
    \o PacketAt("reader", "enqueue")

InOrder == IsSorted(Line, <)

\* A thread that has ended, or that starts its next round, holds no descriptor: on
\* every path, and on that of a stop in particular, the frame was passed on, given
\* back, or is counted in leaked.
NothingStranded ==
  \A t \in Threads : pc[t] \in {"off", "loop", "dequeue", "again", "ended"} => hand[t] = NoFrame

\* However slow the network is, the encoder gets rid of its frame while the stream
\* goes on: the reader's cleaning makes room for it.
EncoderMovesOn == pc["encoder"] = "enqueue" ~> (pc["encoder"] # "enqueue" \/ stop)

\* mediaThread::stop returns, whether the thread is paused, waits for input, or
\* waits for room in a queue that nobody empties.
StopReturns == pc["main"] = "join" ~> pc["main"] = "joined"
==============================================================================
