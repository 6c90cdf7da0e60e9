---------------------------- MODULE Statistician ----------------------------
(***************************************************************************)
(* streamStatistician.c: what each input stream delivered, and how long    *)
(* the mux thread waited for it, in one period.  Three threads share the   *)
(* counters without a mutex: the prepare thread adds the streams, the mux  *)
(* thread counts around every callback, and main, on the key 'i', reads    *)
(* the figures and starts a new period.                                    *)
(*                                                                         *)
(* The mux thread's load and its store of a counter are steps of their     *)
(* own, and main's look at it is one: total is nobody else's.  Size goes   *)
(* the way of frames, and wait_times that of wait_ms.                      *)
(***************************************************************************)
EXTENDS Integers

CONSTANTS
  MaxStreams,   \* MAX_STREAMES: 8
  Threshold,    \* 10 ms: a shorter callback is no wait
  Second,       \* the unit of the bit rate's time
  MaxFrames,    \* bound on the frames of the session
  MaxClock      \* bound on the time

ASSUME StatisticianAssumption ==
  /\ {MaxStreams, Threshold, Second, MaxFrames, MaxClock} \subseteq Nat \ {0}
  /\ MaxStreams >= 2

Types == {"audio", "video"}
Slots == 0 .. MaxStreams - 1
Counters == [frames : Nat, wait_ms : Nat]
Zero == [frames |-> 0, wait_ms |-> 0]

VARIABLES
  clock,        \* gettimeofday
  streamers,    \* by slot, the stream_statistics
  streamerNum,
  index,        \* by type: audioInputStasticIndex, videoInputStasticIndex
  prep,         \* where the prepare thread is
  mux, main,    \* the other threads: where they are, and their locals
  \* History.
  counted,      \* by slot: everything that was counted since the stream was added
  met,          \* by slot: whether a reset met an onFrameEnd
  midFrame      \* whether a frame was under way while the last reset ran

history == <<counted, met, midFrame>>
vars == <<clock, streamers, streamerNum, index, prep, mux, main, history>>
------------------------------------------------------------------------------
\* type is "NULL" for a null pointer and "raw" for memory that was not yet cleared;
\* statistics.start_time is 0 before the first frame.
Init ==
  /\ clock = 1
  /\ streamers = [i \in Slots |-> [type |-> "NULL", total |-> Zero, statistics |-> Zero,
                                   start_time |-> 0, frame_start_time |-> 0]]
  /\ streamerNum = 0
  /\ index = [t \in Types |-> 0]
  /\ prep = "alloc"
  /\ mux = [pc |-> "off", type |-> "video", frames |-> 0, delay |-> 0, load |-> 0]
  /\ main = [pc |-> "getchar", i |-> 0, wait |-> 0, start |-> 0, told |-> 0, of |-> "NULL"]
  /\ counted = [i \in Slots |-> Zero]
  /\ met = [i \in Slots |-> FALSE]
  /\ midFrame = FALSE

Tick ==
  /\ clock < MaxClock
  /\ clock' = clock + 1
  /\ UNCHANGED <<streamers, streamerNum, index, prep, mux, main, history>>
------------------------------------------------------------------------------
\* The prepare thread: streamerStatistician_addStream, audio first, then muxer_start
Adding == IF streamerNum = 0 THEN "audio" ELSE "video"

PrepareStep(from, to) ==
  /\ prep = from
  /\ prep' = to
  /\ UNCHANGED <<clock, main, history>>

AddAlloc_slipNoClear ==
  /\ PrepareStep("alloc", "count")
  /\ streamers' = [streamers EXCEPT ![streamerNum].type = "raw"]
  /\ UNCHANGED <<streamerNum, index, mux>>

AddAlloc ==
  /\ PrepareStep("alloc", "clear")
  /\ streamerNum < MaxStreams
  /\ streamers' = [streamers EXCEPT ![streamerNum].type = "raw"]
  /\ UNCHANGED <<streamerNum, index, mux>>

\* memset: the other fields are what Init gave them
AddClear ==
  /\ PrepareStep("clear", "count")
  /\ streamers' = [streamers EXCEPT ![streamerNum].type = Adding]
  /\ UNCHANGED <<streamerNum, index, mux>>

AddCount_slipIndex ==
  /\ PrepareStep("count", IF Adding = "audio" THEN "alloc" ELSE "start")
  /\ streamerNum' = streamerNum + 1
  /\ UNCHANGED <<streamers, index, mux>>

AddCount ==
  /\ PrepareStep("count", IF Adding = "audio" THEN "alloc" ELSE "start")
  /\ index' = [index EXCEPT ![Adding] = streamerNum]
  /\ streamerNum' = streamerNum + 1
  /\ UNCHANGED <<streamers, mux>>

MuxStart ==
  /\ PrepareStep("start", "done")
  /\ mux' = [mux EXCEPT !.pc = "select"]
  /\ UNCHANGED <<streamers, streamerNum, index>>
------------------------------------------------------------------------------
\* The mux thread, in audio_callback and video_callback of MediaStreamer.c
Slot == index[mux.type]
Resetting == main.pc \in {"add", "addWait", "clear", "restart"}
Taken(i) == main.pc \in {"addWait", "clear"} /\ main.i = i  \* by a reset, and not yet cleared

MuxStep(from, to) ==
  /\ mux.pc = from
  /\ mux' = to
  /\ UNCHANGED <<clock, streamerNum, index, prep, main>>

\* The callback has returned, and its locals are gone.
BetweenFrames == [mux EXCEPT !.pc = "select", !.delay = 0, !.load = 0]

\* mux_thread takes video first, while both streams are at time stamp 0; afterwards
\* either, and a stream that has ended is one that it takes no more.
MuxSelect ==
  /\ mux.frames < MaxFrames
  /\ \E t \in IF streamers[index["video"]].frame_start_time = 0 THEN {"video"} ELSE Types :
       MuxStep("select", [mux EXCEPT !.pc = "period", !.type = t, !.frames = @ + 1])
  /\ midFrame' = (midFrame \/ Resetting)
  /\ UNCHANGED <<streamers, counted, met>>

\* streamerStatistician_onFrameBegin
BeginPeriod ==
  /\ MuxStep("period", [mux EXCEPT !.pc = "begin"])
  /\ streamers' = [streamers EXCEPT ![Slot].start_time = IF @ = 0 THEN clock ELSE @]
  /\ UNCHANGED history

BeginFrame ==
  /\ MuxStep("begin", [mux EXCEPT !.pc = "callback"])
  /\ streamers' = [streamers EXCEPT ![Slot].frame_start_time = clock]
  /\ UNCHANGED history

\* The callback of the application waits for a frame while the clock ticks; if it
\* returns without one, no frame ends.
NoFrame ==
  /\ MuxStep("callback", BetweenFrames)
  /\ UNCHANGED <<streamers, history>>

\* streamerStatistician_onFrameEnd: frames++, and wait_ms += delayTimeMs after a wait
Meets == met' = [met EXCEPT ![Slot] = @ \/ Taken(Slot)]

EndLoad ==
  /\ MuxStep("callback", [mux EXCEPT !.pc = "store", !.load = streamers[Slot].statistics.frames,
                                     !.delay = clock - streamers[Slot].frame_start_time])
  /\ Meets
  /\ UNCHANGED <<streamers, counted, midFrame>>

EndStore ==
  /\ MuxStep("store", IF mux.delay >= Threshold THEN [mux EXCEPT !.pc = "wait"]
                                              ELSE BetweenFrames)
  /\ streamers' = [streamers EXCEPT ![Slot].statistics.frames = mux.load + 1]
  /\ counted' = [counted EXCEPT ![Slot].frames = @ + 1]
  /\ Meets
  /\ UNCHANGED midFrame

WaitLoad ==
  /\ MuxStep("wait", [mux EXCEPT !.pc = "waited", !.load = streamers[Slot].statistics.wait_ms])
  /\ Meets
  /\ UNCHANGED <<streamers, counted, midFrame>>

WaitStore ==
  /\ MuxStep("waited", BetweenFrames)
  /\ streamers' = [streamers EXCEPT ![Slot].statistics.wait_ms = mux.load + mux.delay]
  /\ counted' = [counted EXCEPT ![Slot].wait_ms = @ + mux.delay]
  /\ Meets
  /\ UNCHANGED midFrame
------------------------------------------------------------------------------
\* main, on the key 'i': the factor, the two bit rates, a reset
MainStep(from, to) ==
  /\ main.pc = from
  /\ main' = to
  /\ UNCHANGED <<clock, streamerNum, index, prep, mux>>

KeyI ==
  /\ MainStep("getchar", [main EXCEPT !.pc = "factor", !.i = 0, !.wait = 0, !.start = 0])
  /\ UNCHANGED <<streamers, history>>

\* streamerStatistician_getStreamBandWideFactor: the waits of all streams, over the
\* time (told) since the start of the last one's period
FactorAdd ==
  /\ main.i < streamerNum
  /\ MainStep("factor", [main EXCEPT !.i = @ + 1,
                                     !.wait = @ + streamers[main.i].statistics.wait_ms,
                                     !.start = streamers[main.i].start_time])
  /\ UNCHANGED <<streamers, history>>

FactorResult ==
  /\ main.i >= streamerNum
  /\ MainStep("factor", [main EXCEPT !.pc = "video", !.told = clock - main.start])
  /\ UNCHANGED <<streamers, history>>

\* streamerStatistician_getStreamBitRate; memory that was not yet cleared holds anything
BitRate(t) ==
  LET stream == streamers[index[t]]
      time == (clock - stream.start_time) \div Second
  IN /\ \E rate \in CASE stream.type = "NULL" -> {0}
                      [] stream.type = "raw"  -> 0..1
                      [] OTHER -> {IF time = 0 THEN 0 ELSE stream.statistics.frames \div time} :
          MainStep(t, [pc |-> IF t = "video" THEN "audio" ELSE "add", i |-> 0, wait |-> 0,
                       start |-> 0, told |-> rate, of |-> stream.type])
     /\ UNCHANGED <<streamers, history>>

\* streamerStatistician_reset, slot by slot
MeetsEnd ==
  met' = [met EXCEPT ![main.i] = @ \/ (Slot = main.i /\ mux.pc \in {"store", "waited"})]

ResetAdd_slipAssigns ==
  /\ main.i < streamerNum
  /\ MainStep("add", [main EXCEPT !.pc = "addWait"])
  /\ streamers' = [streamers EXCEPT ![main.i].total.frames = streamers[main.i].statistics.frames]
  /\ MeetsEnd
  /\ UNCHANGED <<counted, midFrame>>

ResetAdd ==
  /\ main.i < streamerNum
  /\ MainStep("add", [main EXCEPT !.pc = "addWait"])
  /\ streamers' = [streamers EXCEPT ![main.i].total.frames = @ + streamers[main.i].statistics.frames]
  /\ MeetsEnd
  /\ midFrame' = (mux.pc \notin {"off", "select"} \/ (main.i > 0 /\ midFrame))
  /\ UNCHANGED counted

ResetAddWait ==
  /\ MainStep("addWait", [main EXCEPT !.pc = "clear"])
  /\ streamers' = [streamers EXCEPT ![main.i].total.wait_ms = @ + streamers[main.i].statistics.wait_ms]
  /\ MeetsEnd
  /\ UNCHANGED <<counted, midFrame>>

ResetClear_slipKeepsWait ==
  /\ MainStep("clear", [main EXCEPT !.pc = "restart"])
  /\ streamers' = [streamers EXCEPT ![main.i].statistics.frames = 0, ![main.i].start_time = 0]
  /\ MeetsEnd
  /\ UNCHANGED <<counted, midFrame>>

ResetClear ==
  /\ MainStep("clear", [main EXCEPT !.pc = "restart"])
  /\ streamers' = [streamers EXCEPT ![main.i].statistics = Zero, ![main.i].start_time = 0]
  /\ MeetsEnd
  /\ UNCHANGED <<counted, midFrame>>

ResetStart ==
  /\ MainStep("restart", [main EXCEPT !.pc = "add", !.i = @ + 1])
  /\ streamers' = [streamers EXCEPT ![main.i].start_time = clock]
  /\ UNCHANGED history

ResetDone ==
  /\ main.i >= streamerNum
  /\ MainStep("add", [main EXCEPT !.pc = "getchar"])
  /\ UNCHANGED <<streamers, history>>
------------------------------------------------------------------------------
Prepare == AddAlloc \/ AddClear \/ AddCount \/ MuxStart
Mux == \/ MuxSelect \/ BeginPeriod \/ BeginFrame \/ NoFrame
       \/ EndLoad \/ EndStore \/ WaitLoad \/ WaitStore
Main == \/ KeyI \/ FactorAdd \/ FactorResult \/ (\E t \in Types : BitRate(t))
        \/ ResetAdd \/ ResetAddWait \/ ResetClear \/ ResetStart \/ ResetDone

Next == Tick \/ Prepare \/ Mux \/ Main

Spec == Init /\ [][Next]_vars
------------------------------------------------------------------------------
(* Properties.                                                               *)

\* Every field keeps its type; no wait is longer than the session.
TypeOK ==
  /\ clock \in 1..MaxClock
  /\ streamers \in [Slots -> [type : Types \cup {"NULL", "raw"}, total : Counters,
                              statistics : Counters, start_time : 0..MaxClock,
                              frame_start_time : 0..MaxClock]]
  /\ streamerNum \in 0..2
  /\ index \in [Types -> Slots]
  /\ mux.delay \in 0..(MaxClock - 1)

\* main's loops, in the factor and in the reset, never touch a stream whose memory the
\* prepare thread has not cleared: streamerNum is counted up last.  (With the types.)
OnlyClearedStreams ==
  /\ TypeOK
  /\ (main.pc = "factor" \/ Resetting) /\ main.i < streamerNum
       => streamers[main.i].type \in Types

\* A bit rate other than 0 is that of the stream it was asked for, although the index of
\* video is audio's until video has been added - unless it was read from memory that the
\* prepare thread has not cleared.
RateOfItsStream ==
  \A t \in Types :
    main.pc = (IF t = "video" THEN "audio" ELSE "add") /\ main.i = 0 /\ main.told > 0
      => main.of \in {t, "raw"}

\* What the past and this period hold together is everything that was counted for the
\* stream, unless a reset ran while onFrameEnd was updating it.
NothingLost ==
  \A i \in Slots : ~met[i] =>
    LET frames  == IF Taken(i) THEN 0 ELSE streamers[i].statistics.frames
        wait_ms == IF Taken(i) /\ main.pc = "clear" THEN 0 ELSE streamers[i].statistics.wait_ms
    IN  /\ counted[i].frames  = streamers[i].total.frames + frames
        /\ counted[i].wait_ms = streamers[i].total.wait_ms + wait_ms

\* streamStatistician.h: the factor is the send time over the total time of a period.  The
\* waits are a part of the time, unless a frame was under way during the reset.
ShareUnlessMidFrame == main.pc = "video" /\ ~midFrame => main.wait <= main.told

\* The same as the header has it, without the exception.
FactorIsShare == main.pc = "video" => main.wait <= main.told
=============================================================================
