-------------------------- MODULE StatisticianProofs --------------------------
(***************************************************************************)
(* What TLAPS proves about the statistician, for any number of slots, any  *)
(* threshold and any length of the session: the figures that main reads    *)
(* are those of streams that are there, of the stream it asked for, and    *)
(* lose nothing; and the waits of a period are a part of its time, as long *)
(* as no frame was under way at its start.                                 *)
(***************************************************************************)
EXTENDS Statistician, TLAPS

Stream == [type : Types \cup {"NULL", "raw"}, total : Counters, statistics : Counters,
           start_time : 0 .. MaxClock, frame_start_time : 0 .. MaxClock]

Ending == {"store", "wait", "waited"}
MuxPlaces == {"off", "select", "period", "begin", "callback"} \cup Ending
MainPlaces == {"getchar", "factor", "video", "audio", "add", "addWait", "clear", "restart"}

MuxType == [pc : MuxPlaces, type : Types, frames : Nat, delay : 0 .. (MaxClock - 1), load : Nat]
MainType == [pc : MainPlaces, i : 0 .. 2, wait : Nat, start : 0 .. MaxClock, told : Nat,
             of : Types \cup {"NULL", "raw"}]

\* The types, those of the threads' locals and of the history included.
Typed ==
  /\ TypeOK
  /\ prep \in {"alloc", "clear", "count", "start", "done"}
  /\ mux \in MuxType
  /\ main \in MainType
  /\ counted \in [Slots -> Counters]
  /\ met \in [Slots -> BOOLEAN]
  /\ midFrame \in BOOLEAN

\* The streams that the prepare thread has counted are cleared; the mux thread starts when both
\* are, and until then nothing is counted.
Added ==
  /\ \A i \in Slots : i < streamerNum => streamers[i].type = IF i = 0 THEN "audio" ELSE "video"
  /\ prep \in {"alloc", "clear", "count"} => streamerNum < 2
  /\ prep = "count" => streamers[streamerNum].type = Adding
  /\ prep \in {"start", "done"} => streamerNum = 2 /\ index["audio"] = 0 /\ index["video"] = 1
  /\ prep = "done" <=> mux.pc # "off"
  /\ prep # "done" => \A i \in Slots : streamers[i].statistics = Zero /\ streamers[i].frame_start_time = 0
  /\ index["audio"] = 0

\* Every time that was taken is past, and a frame begins before it ends.
Clocked ==
  /\ \A i \in Slots : streamers[i].start_time <= clock /\ streamers[i].frame_start_time <= clock
  /\ mux.pc = "callback" => streamers[Slot].frame_start_time > 0

\* What onFrameEnd has loaded is what the counter holds, unless it met a reset.
Loaded ==
  /\ mux.pc \in {"store", "waited"} /\ ~met[Slot] => ~Taken(Slot)
  /\ mux.pc = "store" /\ ~met[Slot] => mux.load = streamers[Slot].statistics.frames
  /\ mux.pc = "waited" /\ ~met[Slot] => mux.load = streamers[Slot].statistics.wait_ms

Wait(i) == streamers[i].statistics.wait_ms

\* A reset that has begun; the streams that it has cleared.
Within == main.pc \in {"addWait", "clear", "restart"} \/ (main.pc = "add" /\ main.i > 0)
Cleared(i) == main.i > i \/ (main.i = i /\ main.pc = "restart")

\* The time of the waits that are counted or about to be, and until when they were.
Waited == Wait(0) + Wait(1) + IF mux.pc \in Ending THEN mux.delay ELSE 0
Until == IF mux.pc = "callback" THEN streamers[Slot].frame_start_time ELSE clock

\* Before the first frame of video nothing is counted.
First ==
  streamers[1].frame_start_time = 0 =>
    /\ Wait(0) = 0 /\ Wait(1) = 0
    /\ mux.pc \in {"off", "select"} \/ (mux.pc \in {"period", "begin"} /\ mux.type = "video")

\* During a reset that met no frame the streams that it has cleared stay so; after it, the
\* waits are a part of the time since video's period began.
Sharing ==
  ~midFrame =>
    IF Within
      THEN /\ mux.pc \in {"off", "select"}
           /\ Cleared(0) => Wait(0) = 0
           /\ Cleared(1) => Wait(1) = 0
           /\ main.i > 1 => streamers[1].start_time > 0
      ELSE /\ Waited + streamers[1].start_time <= Until
           /\ streamers[1].start_time = 0 =>
                streamers[1].frame_start_time = 0 /\ ~(mux.pc = "begin" /\ mux.type = "video")
           /\ mux.pc = "waited" => mux.load = Wait(Slot)

\* How far main is with the factor.
Asking ==
  /\ main.pc \in {"addWait", "clear", "restart"} => main.i < streamerNum
  /\ main.pc = "factor" /\ main.i > 0 => streamerNum > 0
  /\ main.pc = "factor" /\ main.i > 1 => streamerNum > 1
  /\ main.pc = "factor" => main.start <= clock
  /\ main.pc = "factor" /\ main.i = 0 => main.wait = 0
  /\ ~midFrame /\ main.pc = "factor" =>
       /\ main.i = 1 => main.wait <= Wait(0)
       /\ main.i = 2 => main.wait + main.start <= clock
  /\ ~midFrame /\ main.pc = "video" => main.wait <= main.told

IInv == Typed /\ Added /\ Clocked /\ RateOfItsStream /\ NothingLost /\ Loaded /\ First /\ Sharing /\ Asking

------------------------------------------------------------------------------
\* The slots of the two streams.
LEMMA TwoSlots == 0 \in Slots /\ 1 \in Slots /\ Slots \subseteq Nat
  BY StatisticianAssumption DEF Slots

\* What a record of the statistics holds.
LEMMA Fields ==
  ASSUME NEW r \in Stream
  PROVE  /\ r.type \in Types \cup {"NULL", "raw"}
         /\ r.total \in Counters /\ r.statistics \in Counters
         /\ r.total.frames \in Nat /\ r.total.wait_ms \in Nat
         /\ r.statistics.frames \in Nat /\ r.statistics.wait_ms \in Nat
         /\ r.start_time \in Nat /\ r.frame_start_time \in Nat
         /\ r.start_time \in 0 .. MaxClock /\ r.frame_start_time \in 0 .. MaxClock
  BY DEF Stream, Counters

LEMMA ZeroCounters == Zero \in Counters /\ Zero.frames = 0 /\ Zero.wait_ms = 0
  BY DEF Zero, Counters

------------------------------------------------------------------------------
\* One field of one stream is assigned, and the others stay.
LEMMA TypeAssigned ==
  ASSUME streamers \in [Slots -> Stream], NEW s \in Slots, NEW t \in Types \cup {"NULL", "raw"},
         streamers' = [streamers EXCEPT ![s].type = t]
  PROVE  /\ streamers' \in [Slots -> Stream]
         /\ \A i \in Slots : /\ streamers'[i].type = IF i = s THEN t ELSE streamers[i].type
                             /\ streamers'[i].total = streamers[i].total
                             /\ streamers'[i].statistics = streamers[i].statistics
                             /\ streamers'[i].start_time = streamers[i].start_time
                             /\ streamers'[i].frame_start_time = streamers[i].frame_start_time
  BY DEF Stream

LEMMA TotalAssigned ==
  ASSUME streamers \in [Slots -> Stream], NEW s \in Slots, NEW c \in Counters,
         streamers' = [streamers EXCEPT ![s].total = c]
  PROVE  /\ streamers' \in [Slots -> Stream]
         /\ \A i \in Slots : /\ streamers'[i].total = IF i = s THEN c ELSE streamers[i].total
                             /\ streamers'[i].type = streamers[i].type
                             /\ streamers'[i].statistics = streamers[i].statistics
                             /\ streamers'[i].start_time = streamers[i].start_time
                             /\ streamers'[i].frame_start_time = streamers[i].frame_start_time
  BY DEF Stream

LEMMA StatisticsAssigned ==
  ASSUME streamers \in [Slots -> Stream], NEW s \in Slots, NEW c \in Counters,
         streamers' = [streamers EXCEPT ![s].statistics = c]
  PROVE  /\ streamers' \in [Slots -> Stream]
         /\ \A i \in Slots : /\ streamers'[i].statistics = IF i = s THEN c ELSE streamers[i].statistics
                             /\ streamers'[i].type = streamers[i].type
                             /\ streamers'[i].total = streamers[i].total
                             /\ streamers'[i].start_time = streamers[i].start_time
                             /\ streamers'[i].frame_start_time = streamers[i].frame_start_time
  BY DEF Stream

LEMMA StartAssigned ==
  ASSUME streamers \in [Slots -> Stream], NEW s \in Slots, NEW n \in 0 .. MaxClock,
         streamers' = [streamers EXCEPT ![s].start_time = n]
  PROVE  /\ streamers' \in [Slots -> Stream]
         /\ \A i \in Slots : /\ streamers'[i].start_time = IF i = s THEN n ELSE streamers[i].start_time
                             /\ streamers'[i].type = streamers[i].type
                             /\ streamers'[i].total = streamers[i].total
                             /\ streamers'[i].statistics = streamers[i].statistics
                             /\ streamers'[i].frame_start_time = streamers[i].frame_start_time
  BY DEF Stream

LEMMA FrameStartAssigned ==
  ASSUME streamers \in [Slots -> Stream], NEW s \in Slots, NEW n \in 0 .. MaxClock,
         streamers' = [streamers EXCEPT ![s].frame_start_time = n]
  PROVE  /\ streamers' \in [Slots -> Stream]
         /\ \A i \in Slots : /\ streamers'[i].frame_start_time =
                                  IF i = s THEN n ELSE streamers[i].frame_start_time
                             /\ streamers'[i].type = streamers[i].type
                             /\ streamers'[i].total = streamers[i].total
                             /\ streamers'[i].statistics = streamers[i].statistics
                             /\ streamers'[i].start_time = streamers[i].start_time
  BY DEF Stream


\* So is one counter of one stream.
LEMMA FramesAssigned ==
  ASSUME streamers \in [Slots -> Stream], NEW s \in Slots, NEW n \in Nat,
         streamers' = [streamers EXCEPT ![s].statistics.frames = n]
  PROVE  /\ streamers' \in [Slots -> Stream]
         /\ \A i \in Slots : /\ streamers'[i].statistics \in Counters
                             /\ i # s => streamers'[i].statistics = streamers[i].statistics
                             /\ streamers'[i].statistics.frames =
                                  IF i = s THEN n ELSE streamers[i].statistics.frames
                             /\ streamers'[i].statistics.wait_ms = streamers[i].statistics.wait_ms
                             /\ streamers'[i].type = streamers[i].type
                             /\ streamers'[i].total = streamers[i].total
                             /\ streamers'[i].start_time = streamers[i].start_time
                             /\ streamers'[i].frame_start_time = streamers[i].frame_start_time
<1> DEFINE c == [streamers[s].statistics EXCEPT !.frames = n]
<1>1. \A i \in Slots : streamers[i].statistics \in Counters
  BY Fields
<1>2. c \in Counters /\ c.frames = n /\ c.wait_ms = streamers[s].statistics.wait_ms
  BY <1>1 DEF Counters
<1>3. streamers' = [streamers EXCEPT ![s].statistics = c]
  OBVIOUS
<1> HIDE DEF c
<1>4. /\ streamers' \in [Slots -> Stream]
      /\ \A i \in Slots : /\ streamers'[i].statistics = IF i = s THEN c ELSE streamers[i].statistics
                          /\ streamers'[i].type = streamers[i].type
                          /\ streamers'[i].total = streamers[i].total
                          /\ streamers'[i].start_time = streamers[i].start_time
                          /\ streamers'[i].frame_start_time = streamers[i].frame_start_time
  BY <1>2, <1>3, StatisticsAssigned
<1> QED  BY <1>1, <1>2, <1>4

LEMMA WaitAssigned ==
  ASSUME streamers \in [Slots -> Stream], NEW s \in Slots, NEW n \in Nat,
         streamers' = [streamers EXCEPT ![s].statistics.wait_ms = n]
  PROVE  /\ streamers' \in [Slots -> Stream]
         /\ \A i \in Slots : /\ streamers'[i].statistics \in Counters
                             /\ i # s => streamers'[i].statistics = streamers[i].statistics
                             /\ streamers'[i].statistics.wait_ms =
                                  IF i = s THEN n ELSE streamers[i].statistics.wait_ms
                             /\ streamers'[i].statistics.frames = streamers[i].statistics.frames
                             /\ streamers'[i].type = streamers[i].type
                             /\ streamers'[i].total = streamers[i].total
                             /\ streamers'[i].start_time = streamers[i].start_time
                             /\ streamers'[i].frame_start_time = streamers[i].frame_start_time
<1> DEFINE c == [streamers[s].statistics EXCEPT !.wait_ms = n]
<1>1. \A i \in Slots : streamers[i].statistics \in Counters
  BY Fields
<1>2. c \in Counters /\ c.wait_ms = n /\ c.frames = streamers[s].statistics.frames
  BY <1>1 DEF Counters
<1>3. streamers' = [streamers EXCEPT ![s].statistics = c]
  OBVIOUS
<1> HIDE DEF c
<1>4. /\ streamers' \in [Slots -> Stream]
      /\ \A i \in Slots : /\ streamers'[i].statistics = IF i = s THEN c ELSE streamers[i].statistics
                          /\ streamers'[i].type = streamers[i].type
                          /\ streamers'[i].total = streamers[i].total
                          /\ streamers'[i].start_time = streamers[i].start_time
                          /\ streamers'[i].frame_start_time = streamers[i].frame_start_time
  BY <1>2, <1>3, StatisticsAssigned
<1> QED  BY <1>1, <1>2, <1>4

LEMMA PeriodCleared ==
  ASSUME streamers \in [Slots -> Stream], NEW s \in Slots,
         streamers' = [streamers EXCEPT ![s].statistics = Zero, ![s].start_time = 0]
  PROVE  /\ streamers' \in [Slots -> Stream]
         /\ \A i \in Slots : /\ streamers'[i].statistics = IF i = s THEN Zero ELSE streamers[i].statistics
                             /\ streamers'[i].start_time = IF i = s THEN 0 ELSE streamers[i].start_time
                             /\ streamers'[i].type = streamers[i].type
                             /\ streamers'[i].total = streamers[i].total
                             /\ streamers'[i].frame_start_time = streamers[i].frame_start_time
<1>1. Zero \in Counters /\ 0 \in 0 .. MaxClock
  BY ZeroCounters, StatisticianAssumption
<1> QED  BY <1>1 DEF Stream
------------------------------------------------------------------------------
\* What every step starts from.
LEMMA Basics ==
  ASSUME IInv
  PROVE  /\ streamers \in [Slots -> Stream] /\ \A i \in Slots : streamers[i] \in Stream
         /\ clock \in Nat /\ clock >= 1 /\ clock \in 0 .. MaxClock
         /\ streamerNum \in {0, 1, 2} /\ index["audio"] = 0 /\ index["video"] \in Slots
         /\ Slot \in Slots
         /\ mux.pc # "off" => prep = "done"
         /\ prep = "done" => streamerNum = 2 /\ Slot = IF mux.type = "audio" THEN 0 ELSE 1
         /\ Wait(0) \in Nat /\ Wait(1) \in Nat
         /\ streamers[1].start_time \in Nat /\ streamers[1].frame_start_time \in Nat
         /\ \A i \in Slots : streamers[i].frame_start_time \in Nat /\ streamers[i].start_time \in Nat
         /\ mux.delay \in Nat /\ mux.load \in Nat /\ mux.type \in Types
<1>1. TypeOK /\ Typed /\ Added
  BY DEF IInv, Typed
<1>2. streamers \in [Slots -> Stream] /\ \A i \in Slots : streamers[i] \in Stream
  BY <1>1 DEF TypeOK, Stream
<1>3. clock \in Nat /\ clock >= 1 /\ clock \in 0 .. MaxClock
  BY <1>1 DEF TypeOK
<1>4. streamerNum \in {0, 1, 2} /\ index["audio"] = 0 /\ index["video"] \in Slots
  BY <1>1 DEF TypeOK, Added, Types
<1>5. mux.delay \in Nat /\ mux.load \in Nat /\ mux.type \in Types
  BY <1>1 DEF Typed, MuxType
<1>6. Slot \in Slots
  BY <1>4, <1>5, TwoSlots DEF Slot, Types
<1>7. mux.pc # "off" => prep = "done"
  BY <1>1 DEF Added
<1>8. prep = "done" => streamerNum = 2 /\ Slot = IF mux.type = "audio" THEN 0 ELSE 1
  BY <1>1, <1>5 DEF Added, Slot, Types
<1>9. Wait(0) \in Nat /\ Wait(1) \in Nat
  BY <1>2, TwoSlots, Fields DEF Wait
<1>10. \A i \in Slots : streamers[i].frame_start_time \in Nat /\ streamers[i].start_time \in Nat
  BY <1>2, Fields
<1> QED  BY <1>2, <1>3, <1>4, <1>5, <1>6, <1>7, <1>8, <1>9, <1>10, TwoSlots

LEMMA TickKeeps ==
  ASSUME IInv, Tick
  PROVE  IInv'
<1>1. /\ clock' = clock + 1 /\ clock < MaxClock
      /\ UNCHANGED <<streamers, streamerNum, index, prep, mux, main, counted, met, midFrame>>
  BY DEF Tick, history
<1>2. Typed'
  BY <1>1, StatisticianAssumption DEF IInv, Typed, TypeOK
<1>3. Added' /\ RateOfItsStream' /\ NothingLost' /\ Loaded' /\ First'
  BY <1>1 DEF IInv, Added, Adding, RateOfItsStream, NothingLost, Loaded, Taken, First, Slot, Wait
<1>4. Clocked'
  BY <1>1, Basics DEF IInv, Clocked, Slot
<1>5. Sharing'
  BY <1>1, Basics DEF IInv, Sharing, Within, Cleared, Waited, Until, Wait, Slot
<1>6. Asking'
  <2>1. main.start \in Nat /\ main.wait \in Nat
    BY DEF IInv, Typed, MainType
  <2> QED  BY <1>1, <2>1, Basics DEF IInv, Asking, Wait
<1> QED  BY <1>2, <1>3, <1>4, <1>5, <1>6 DEF IInv

LEMMA StutterKeeps ==
  ASSUME IInv, UNCHANGED vars
  PROVE  IInv'
  BY DEF IInv, vars, history, Typed, MainType, MuxType, TypeOK, Added, Adding, Clocked, RateOfItsStream, NothingLost, Loaded, Taken,
         First, Sharing, Within, Cleared, Waited, Until, Wait, Slot, Asking

------------------------------------------------------------------------------
\* The prepare thread, until the mux thread starts.
LEMMA AddAllocKeeps ==
  ASSUME IInv, AddAlloc
  PROVE  IInv'
<1>1. /\ prep = "alloc" /\ prep' = "clear" /\ streamerNum < MaxStreams
      /\ streamers' = [streamers EXCEPT ![streamerNum].type = "raw"]
      /\ UNCHANGED <<clock, streamerNum, index, mux, main, counted, met, midFrame>>
  BY DEF AddAlloc, PrepareStep, history
<1>2. streamerNum \in Slots
  BY <1>1, Basics, TwoSlots DEF IInv, Added
<1>3. /\ streamers' \in [Slots -> Stream]
      /\ \A i \in Slots : /\ streamers'[i].type = IF i = streamerNum THEN "raw" ELSE streamers[i].type
                          /\ streamers'[i].total = streamers[i].total
                          /\ streamers'[i].statistics = streamers[i].statistics
                          /\ streamers'[i].start_time = streamers[i].start_time
                          /\ streamers'[i].frame_start_time = streamers[i].frame_start_time
  BY <1>1, <1>2, Basics, TypeAssigned
<1>4. Typed'
  BY <1>1, <1>3 DEF IInv, Typed, TypeOK
<1>5. Added'
  BY <1>1, TwoSlots DEF IInv, Added
<1>6. Clocked'
  BY <1>1 DEF IInv, Clocked, Slot
<1>7. RateOfItsStream' /\ NothingLost' /\ Loaded'
  BY <1>1 DEF IInv, RateOfItsStream, NothingLost, Loaded, Taken, Slot
<1>8. First' /\ Sharing' /\ Asking'
  BY <1>1, <1>3, Basics, TwoSlots
     DEF IInv, First, Sharing, Within, Cleared, Waited, Until, Wait, Slot, Asking
<1> QED  BY <1>4, <1>5, <1>6, <1>7, <1>8 DEF IInv

LEMMA AddClearKeeps ==
  ASSUME IInv, AddClear
  PROVE  IInv'
<1>1. /\ prep = "clear" /\ prep' = "count"
      /\ streamers' = [streamers EXCEPT ![streamerNum].type = Adding]
      /\ UNCHANGED <<clock, streamerNum, index, mux, main, counted, met, midFrame>>
  BY DEF AddClear, PrepareStep, history
<1>2. streamerNum \in Slots /\ Adding \in Types
  BY <1>1, Basics, TwoSlots DEF IInv, Added, Adding, Types
<1>3. /\ streamers' \in [Slots -> Stream]
      /\ \A i \in Slots : /\ streamers'[i].type = IF i = streamerNum THEN Adding ELSE streamers[i].type
                          /\ streamers'[i].total = streamers[i].total
                          /\ streamers'[i].statistics = streamers[i].statistics
                          /\ streamers'[i].start_time = streamers[i].start_time
                          /\ streamers'[i].frame_start_time = streamers[i].frame_start_time
  BY <1>1, <1>2, Basics, TypeAssigned
<1>4. Typed'
  BY <1>1, <1>3 DEF IInv, Typed, TypeOK, Stream
<1>5. Added'
  BY <1>1, Basics, TwoSlots DEF IInv, Added, Adding
<1>6. Clocked'
  BY <1>1 DEF IInv, Clocked, Slot
<1>7. RateOfItsStream' /\ NothingLost' /\ Loaded'
  BY <1>1 DEF IInv, RateOfItsStream, NothingLost, Loaded, Taken, Slot
<1>8. First' /\ Sharing' /\ Asking'
  BY <1>1, <1>3, Basics, TwoSlots
     DEF IInv, First, Sharing, Within, Cleared, Waited, Until, Wait, Slot, Asking
<1> QED  BY <1>4, <1>5, <1>6, <1>7, <1>8 DEF IInv

LEMMA AddCountKeeps ==
  ASSUME IInv, AddCount
  PROVE  IInv'
<1>1. /\ prep = "count" /\ prep' = IF Adding = "audio" THEN "alloc" ELSE "start"
      /\ index' = [index EXCEPT ![Adding] = streamerNum] /\ streamerNum' = streamerNum + 1
      /\ UNCHANGED <<clock, streamers, mux, main, counted, met, midFrame>>
  BY DEF AddCount, PrepareStep, history
<1>2. /\ streamerNum \in {0, 1} /\ Adding = (IF streamerNum = 0 THEN "audio" ELSE "video")
      /\ mux.pc = "off" /\ streamers[streamerNum].type = Adding
  BY <1>1, Basics DEF IInv, Added, Adding
<1>3. index' \in [Types -> Slots] /\ index'["audio"] = 0 /\ (streamerNum = 1 => index'["video"] = 1)
  BY <1>1, <1>2, Basics, TwoSlots DEF IInv, Typed, TypeOK
<1>4. Typed'
  BY <1>1, <1>2, <1>3 DEF IInv, Typed, TypeOK
<1>5. Added'
  <2>1. \A i \in Slots : i < streamerNum' => streamers'[i].type = IF i = 0 THEN "audio" ELSE "video"
    <3> SUFFICES ASSUME NEW i \in Slots, i < streamerNum'
                 PROVE  streamers[i].type = IF i = 0 THEN "audio" ELSE "video"
      BY <1>1
    <3>1. i < streamerNum \/ i = streamerNum
      BY <1>1, <1>2, TwoSlots
    <3>2. i < streamerNum => streamers[i].type = IF i = 0 THEN "audio" ELSE "video"
      BY DEF IInv, Added
    <3> QED  BY <1>2, <3>1, <3>2
  <2>2. CASE streamerNum = 0
    <3>1. prep' = "alloc" /\ streamerNum' = 1
      BY <1>1, <1>2, <2>2
    <3> QED  BY <1>1, <1>2, <1>3, <2>1, <3>1 DEF IInv, Added
  <2>3. CASE streamerNum = 1
    <3>1. prep' = "start" /\ streamerNum' = 2
      BY <1>1, <1>2, <2>3
    <3> QED  BY <1>1, <1>2, <1>3, <2>1, <2>3, <3>1 DEF IInv, Added
  <2> QED  BY <1>2, <2>2, <2>3
<1>6. Clocked' /\ RateOfItsStream' /\ NothingLost' /\ Loaded'
  BY <1>1, <1>2 DEF IInv, Clocked, RateOfItsStream, NothingLost, Loaded, Taken
<1>7. First'
  BY <1>1 DEF IInv, First, Wait
<1>8. Sharing'
  BY <1>1, Basics DEF IInv, Sharing, Within, Cleared, Waited, Until, Wait
<1>9. Asking'
  BY <1>1, Basics DEF IInv, Asking, Wait, Typed, MainType
<1> QED  BY <1>4, <1>5, <1>6, <1>7, <1>8, <1>9 DEF IInv

LEMMA MuxStartKeeps ==
  ASSUME IInv, MuxStart
  PROVE  IInv'
<1>1. /\ prep = "start" /\ prep' = "done" /\ mux.pc = "off" /\ mux' = [mux EXCEPT !.pc = "select"]
      /\ UNCHANGED <<clock, streamers, streamerNum, index, main, counted, met, midFrame>>
  BY DEF MuxStart, PrepareStep, history, IInv, Added
<1>2. /\ mux' \in MuxType
      /\ mux'.pc = "select" /\ mux'.type = mux.type /\ mux'.delay = mux.delay
  BY <1>1 DEF IInv, Typed, MuxType, MuxPlaces
<1>3. Typed'
  BY <1>1, <1>2 DEF IInv, Typed, TypeOK
<1>4. Added'
  BY <1>1 DEF IInv, Added
<1>5. Clocked' /\ RateOfItsStream' /\ NothingLost' /\ Loaded' /\ First'
  BY <1>1 DEF IInv, Clocked, RateOfItsStream, NothingLost, Loaded, Taken, First, Wait
<1>6. Sharing'
  BY <1>1 DEF IInv, Sharing, Within, Cleared, Waited, Until, Wait, Ending
<1>7. Asking'
  BY <1>1 DEF IInv, Asking, Wait
<1> QED  BY <1>3, <1>4, <1>5, <1>6, <1>7 DEF IInv

------------------------------------------------------------------------------
\* The mux thread.
LEMMA MuxSelectKeeps ==
  ASSUME IInv, MuxSelect
  PROVE  IInv'
<1>1. PICK t \in IF streamers[index["video"]].frame_start_time = 0 THEN {"video"} ELSE Types :
        mux' = [mux EXCEPT !.pc = "period", !.type = t, !.frames = mux.frames + 1]
  BY DEF MuxSelect, MuxStep
<1>2. /\ mux.pc = "select" /\ mux.frames < MaxFrames
      /\ midFrame' = (midFrame \/ Resetting)
      /\ UNCHANGED <<clock, streamers, streamerNum, index, prep, main, counted, met>>
  BY DEF MuxSelect, MuxStep
<1>3. /\ mux' \in MuxType
      /\ mux'.pc = "period" /\ mux'.type = t /\ mux'.delay = mux.delay
  <2>1. t \in Types
    BY DEF Types
  <2>2. mux.frames + 1 \in Nat /\ "period" \in MuxPlaces
    BY DEF IInv, Typed, MuxType, MuxPlaces
  <2> QED  BY <1>1, <2>1, <2>2 DEF IInv, Typed, MuxType
<1>4. prep = "done" /\ index["video"] = 1
  BY <1>2 DEF IInv, Added
<1>6. Typed'
  BY <1>2, <1>3 DEF IInv, Typed, TypeOK
<1>7. Added'
  BY <1>2, <1>3 DEF IInv, Added
<1>8. Clocked' /\ RateOfItsStream' /\ NothingLost' /\ Loaded'
  BY <1>2, <1>3 DEF IInv, Clocked, RateOfItsStream, NothingLost, Loaded, Taken
<1>9. First'
  BY <1>2, <1>3, <1>4 DEF IInv, First, Wait
<1>10. Sharing'
  BY <1>2, <1>3 DEF IInv, Sharing, Within, Resetting, Waited, Until, Wait, Ending
<1>11. Asking'
  BY <1>2 DEF IInv, Asking, Wait
<1> QED  BY <1>6, <1>7, <1>8, <1>9, <1>10, <1>11 DEF IInv

LEMMA BeginPeriodKeeps ==
  ASSUME IInv, BeginPeriod
  PROVE  IInv'
<1> DEFINE began == IF streamers[Slot].start_time = 0 THEN clock ELSE streamers[Slot].start_time
<1>1. /\ mux.pc = "period" /\ mux' = [mux EXCEPT !.pc = "begin"]
      /\ streamers' = [streamers EXCEPT ![Slot].start_time = began]
      /\ UNCHANGED <<clock, streamerNum, index, prep, main, counted, met, midFrame>>
  BY DEF BeginPeriod, MuxStep, history
<1>2. /\ mux' \in MuxType
      /\ mux'.pc = "begin" /\ mux'.type = mux.type /\ mux'.delay = mux.delay
  BY <1>1 DEF IInv, Typed, MuxType, MuxPlaces
<1>3. Slot \in Slots /\ began \in 0 .. MaxClock /\ began > 0 /\ began <= clock
  BY Basics, Fields DEF IInv, Clocked
<1> HIDE DEF began
<1>4. /\ streamers' \in [Slots -> Stream]
      /\ \A i \in Slots : /\ streamers'[i].start_time = IF i = Slot THEN began ELSE streamers[i].start_time
                          /\ streamers'[i].type = streamers[i].type
                          /\ streamers'[i].total = streamers[i].total
                          /\ streamers'[i].statistics = streamers[i].statistics
                          /\ streamers'[i].frame_start_time = streamers[i].frame_start_time
  BY <1>1, <1>3, Basics, StartAssigned
<1>5. Slot' = Slot /\ prep = "done"
  BY <1>1, Basics DEF Slot
<1>6. Typed'
  BY <1>1, <1>2, <1>4 DEF IInv, Typed, TypeOK, Stream
<1>7. Added'
  BY <1>1 DEF IInv, Added
<1>8. Clocked'
  BY <1>1, <1>3 DEF IInv, Clocked
<1>9. RateOfItsStream' /\ NothingLost' /\ Loaded'
  BY <1>1 DEF IInv, RateOfItsStream, NothingLost, Loaded, Taken
<1>10. First'
  BY <1>1 DEF IInv, First, Wait
<1>11. Sharing'
  <2>1. Wait(0)' = Wait(0) /\ Wait(1)' = Wait(1)
    BY <1>4, TwoSlots DEF Wait
  <2>2. CASE mux.type = "video" /\ ~midFrame /\ ~Within
    <3>1. Slot = 1 /\ streamers'[1].start_time = began
      BY <1>4, <1>5, <2>2, Basics
    <3>2. streamers[1].start_time = 0 => Wait(0) = 0 /\ Wait(1) = 0
      BY <2>2 DEF IInv, Sharing, First
    <3>3. Wait(0) + Wait(1) + streamers[1].start_time <= clock
      BY <1>1, <2>2, Basics DEF IInv, Sharing, Waited, Until
    <3>4. Wait(0) + Wait(1) + began <= clock
      BY <3>1, <3>2, <3>3, Basics DEF began
    <3> QED  BY <1>1, <1>3, <2>1, <2>2, <3>4, Basics DEF Sharing, Within, Waited, Until, Ending
  <2>3. CASE mux.type = "audio" /\ ~midFrame /\ ~Within
    <3>2. Wait(0) + Wait(1) + streamers[1].start_time <= clock
      BY <1>1, <2>3, Basics DEF IInv, Sharing, Waited, Until
    <3>4. streamers[1].start_time = 0 => streamers[1].frame_start_time = 0
      BY <2>3 DEF IInv, Sharing
    <3> QED  BY <1>1, <2>1, <2>3, <3>2, <3>4, Basics DEF Sharing, Within, Waited, Until, Ending
  <2>4. CASE midFrame
    BY <1>1, <2>4 DEF Sharing
  <2>5. CASE ~midFrame /\ Within
    BY <1>1, <2>5 DEF IInv, Sharing
  <2> QED  BY <2>2, <2>3, <2>4, <2>5, Basics DEF Types
<1>12. Asking'
  BY <1>1 DEF IInv, Asking, Wait
<1> QED  BY <1>6, <1>7, <1>8, <1>9, <1>10, <1>11, <1>12 DEF IInv

LEMMA BeginFrameKeeps ==
  ASSUME IInv, BeginFrame
  PROVE  IInv'
<1>1. /\ mux.pc = "begin" /\ mux' = [mux EXCEPT !.pc = "callback"]
      /\ streamers' = [streamers EXCEPT ![Slot].frame_start_time = clock]
      /\ UNCHANGED <<clock, streamerNum, index, prep, main, counted, met, midFrame>>
  BY DEF BeginFrame, MuxStep, history
<1>2. /\ mux' \in MuxType
      /\ mux'.pc = "callback" /\ mux'.type = mux.type /\ mux'.delay = mux.delay
  BY <1>1 DEF IInv, Typed, MuxType, MuxPlaces
<1>3. Slot' = Slot /\ prep = "done" /\ Slot \in Slots
  BY <1>1, Basics DEF Slot
<1>4. /\ streamers' \in [Slots -> Stream]
      /\ \A i \in Slots : /\ streamers'[i].frame_start_time =
                               IF i = Slot THEN clock ELSE streamers[i].frame_start_time
                          /\ streamers'[i].type = streamers[i].type
                          /\ streamers'[i].total = streamers[i].total
                          /\ streamers'[i].statistics = streamers[i].statistics
                          /\ streamers'[i].start_time = streamers[i].start_time
  BY <1>1, Basics, FrameStartAssigned
<1>5. Typed'
  BY <1>1, <1>2, <1>4 DEF IInv, Typed, TypeOK
<1>6. Added'
  BY <1>1 DEF IInv, Added
<1>7. Clocked'
  BY <1>1, <1>3, Basics DEF IInv, Clocked
<1>8. RateOfItsStream' /\ NothingLost' /\ Loaded'
  BY <1>1 DEF IInv, RateOfItsStream, NothingLost, Loaded, Taken
<1>9. First'
  <2>1. mux.type = "audio" => streamers[1].frame_start_time # 0
    BY <1>1 DEF IInv, First
  <2>2. streamers'[1].frame_start_time # 0
    BY <1>3, <1>4, <2>1, TwoSlots, Basics
  <2> QED  BY <2>2 DEF First
<1>10. Sharing'
  <2>1. CASE ~midFrame /\ ~Within
    <3>1. Wait(0)' = Wait(0) /\ Wait(1)' = Wait(1) /\ streamers'[1].start_time = streamers[1].start_time
      BY <1>4, TwoSlots DEF Wait
    <3>2. Wait(0) + Wait(1) + streamers[1].start_time <= clock
      BY <1>1, <2>1, Basics DEF IInv, Sharing, Waited, Until
    <3>3. streamers[1].start_time = 0 => streamers[1].frame_start_time = 0 /\ mux.type # "video"
      BY <1>1, <2>1 DEF IInv, Sharing
    <3>4. streamers[1].start_time = 0 => streamers'[1].frame_start_time = 0
      BY <1>3, <1>4, <3>3, TwoSlots, Basics DEF Types
    <3>5. Waited' = Wait(0) + Wait(1) /\ Until' = clock
      BY <1>2, <1>3, <1>4, <3>1, Basics DEF Waited, Until, Ending
    <3> QED  BY <1>1, <2>1, <3>2, <3>4, <3>5 DEF Sharing, Within
  <2>2. CASE midFrame
    BY <1>1, <2>2 DEF Sharing
  <2>3. CASE ~midFrame /\ Within
    BY <1>1, <2>3 DEF IInv, Sharing
  <2> QED  BY <2>1, <2>2, <2>3
<1>11. Asking'
  BY <1>1 DEF IInv, Asking, Wait
<1> QED  BY <1>5, <1>6, <1>7, <1>8, <1>9, <1>10, <1>11 DEF IInv


\* The callback has returned.
LEMMA Returned ==
  ASSUME IInv, mux' = BetweenFrames
  PROVE  /\ mux' \in MuxType
         /\ mux'.pc = "select" /\ mux'.type = mux.type /\ mux'.delay = 0
<1>1. 0 \in 0 .. (MaxClock - 1) /\ "select" \in MuxPlaces
  BY StatisticianAssumption DEF MuxPlaces
<1> QED  BY <1>1 DEF BetweenFrames, IInv, Typed, MuxType

LEMMA NoFrameKeeps ==
  ASSUME IInv, NoFrame
  PROVE  IInv'
<1>1. /\ mux.pc = "callback" /\ mux' = BetweenFrames
      /\ UNCHANGED <<clock, streamers, streamerNum, index, prep, main, counted, met, midFrame>>
  BY DEF NoFrame, MuxStep, history
<1>2. /\ mux' \in MuxType
      /\ mux'.pc = "select" /\ mux'.type = mux.type /\ mux'.delay = 0
  BY <1>1, Returned
<1>3. Typed'
  BY <1>1, <1>2 DEF IInv, Typed, MuxType, TypeOK
<1>4. Added'
  BY <1>1, <1>2 DEF IInv, Added
<1>5. Clocked' /\ RateOfItsStream' /\ NothingLost' /\ Loaded' /\ First'
  BY <1>1, <1>2 DEF IInv, Clocked, RateOfItsStream, NothingLost, Loaded, Taken, First
<1>6. Sharing'
  <2>1. streamers[Slot].frame_start_time <= clock
    BY Basics DEF IInv, Clocked
  <2> QED  BY <1>1, <1>2, <2>1, Basics DEF IInv, Sharing, Within, Waited, Until, Wait
<1>7. Asking'
  BY <1>1 DEF IInv, Asking, Wait
<1> QED  BY <1>3, <1>4, <1>5, <1>6, <1>7 DEF IInv

\* What a step of onFrameEnd says of the reset.
LEMMA MeetsSays ==
  ASSUME IInv, Meets
  PROVE  /\ met' \in [Slots -> BOOLEAN]
         /\ \A i \in Slots : ~met'[i] => ~met[i]
         /\ ~met'[Slot] => ~Taken(Slot)
<1>1. met \in [Slots -> BOOLEAN] /\ Slot \in Slots
  BY Basics DEF IInv, Typed
<1>2. met' = [met EXCEPT ![Slot] = @ \/ Taken(Slot)] /\ Taken(Slot) \in BOOLEAN
  BY DEF Meets, Taken
<1> HIDE DEF Slot
<1> QED  BY <1>1, <1>2

LEMMA EndLoadKeeps ==
  ASSUME IInv, EndLoad
  PROVE  IInv'
<1>1. /\ mux.pc = "callback" /\ Meets
      /\ mux' = [mux EXCEPT !.pc = "store", !.load = streamers[Slot].statistics.frames,
                            !.delay = clock - streamers[Slot].frame_start_time]
      /\ UNCHANGED <<clock, streamers, streamerNum, index, prep, main, counted, midFrame>>
  BY DEF EndLoad, MuxStep
<1>2. /\ clock - streamers[Slot].frame_start_time \in 0 .. (MaxClock - 1)
      /\ streamers[Slot].statistics.frames \in Nat
  <2>1. streamers[Slot].frame_start_time <= clock /\ streamers[Slot].frame_start_time > 0
    BY <1>1, Basics DEF IInv, Clocked
  <2>2. clock \in Nat /\ clock <= MaxClock /\ MaxClock \in Nat /\ streamers[Slot].frame_start_time \in Nat
    BY Basics, StatisticianAssumption
  <2>3. streamers[Slot].statistics.frames \in Nat
    BY Basics, Fields
  <2> QED  BY <2>1, <2>2, <2>3
<1>3. /\ mux' \in MuxType
      /\ mux'.pc = "store" /\ mux'.type = mux.type
      /\ mux'.delay = clock - streamers[Slot].frame_start_time
      /\ mux'.load = streamers[Slot].statistics.frames
  <2>1. "store" \in MuxPlaces
    BY DEF MuxPlaces, Ending
  <2> QED  BY <1>1, <1>2, <2>1 DEF IInv, Typed, MuxType
<1>4. Slot' = Slot
  BY <1>1 DEF Slot
<1>5. Typed'
  BY <1>1, <1>3, MeetsSays DEF IInv, Typed, MuxType, TypeOK
<1>6. Added' /\ Clocked' /\ RateOfItsStream'
  BY <1>1 DEF IInv, Added, Clocked, RateOfItsStream
<1>7. NothingLost'
  BY <1>1, MeetsSays DEF IInv, NothingLost, Taken
<1>8. Loaded'
  BY <1>1, <1>4, MeetsSays DEF Loaded, Taken
<1>9. First'
  BY <1>1 DEF IInv, First
<1>10. Sharing'
  <2>1. CASE ~midFrame /\ ~Within
    <3>1. Wait(0) + Wait(1) + streamers[1].start_time <= streamers[Slot].frame_start_time
      BY <1>1, <2>1, Basics DEF IInv, Sharing, Waited, Until
    <3>2. streamers[1].start_time = 0 => streamers[1].frame_start_time = 0
      BY <2>1 DEF IInv, Sharing
    <3>3. Waited' = Wait(0) + Wait(1) + (clock - streamers[Slot].frame_start_time) /\ Until' = clock
      BY <1>1 DEF Waited, Until, Ending, Wait
    <3>4. Waited' + streamers[1].start_time <= clock
      BY <3>1, <3>3, Basics
    <3> QED  BY <1>1, <2>1, <3>2, <3>3, <3>4 DEF Sharing, Within
  <2>2. CASE midFrame
    BY <1>1, <2>2 DEF Sharing
  <2>3. CASE ~midFrame /\ Within
    BY <1>1, <2>3 DEF IInv, Sharing
  <2> QED  BY <2>1, <2>2, <2>3
<1>11. Asking'
  BY <1>1 DEF IInv, Asking, Wait
<1> QED  BY <1>5, <1>6, <1>7, <1>8, <1>9, <1>10, <1>11 DEF IInv

LEMMA EndStoreKeeps ==
  ASSUME IInv, EndStore
  PROVE  IInv'
<1>1. /\ mux.pc = "store" /\ Meets
      /\ mux' = IF mux.delay >= Threshold THEN [mux EXCEPT !.pc = "wait"] ELSE BetweenFrames
      /\ streamers' = [streamers EXCEPT ![Slot].statistics.frames = mux.load + 1]
      /\ counted' = [counted EXCEPT ![Slot].frames = @ + 1]
      /\ UNCHANGED <<clock, streamerNum, index, prep, main, midFrame>>
  BY DEF EndStore, MuxStep
<1>2. /\ mux' \in MuxType
      /\ mux'.pc \in {"wait", "select"} /\ mux'.type = mux.type
      /\ mux'.pc = "wait" => mux'.delay = mux.delay
  <2>1. CASE mux.delay >= Threshold
    BY <1>1, <2>1 DEF IInv, Typed, MuxType, MuxPlaces, Ending
  <2>2. CASE ~(mux.delay >= Threshold)
    BY <1>1, <2>2, Returned
  <2> QED  BY <2>1, <2>2
<1>3. Slot' = Slot /\ prep = "done" /\ Slot \in Slots
  BY <1>1, <1>2, Basics DEF Slot
<1>4. /\ streamers' \in [Slots -> Stream]
      /\ \A i \in Slots : /\ streamers'[i].statistics \in Counters
                          /\ i # Slot => streamers'[i].statistics = streamers[i].statistics
                          /\ streamers'[i].statistics.frames =
                               IF i = Slot THEN mux.load + 1 ELSE streamers[i].statistics.frames
                          /\ streamers'[i].statistics.wait_ms = streamers[i].statistics.wait_ms
                          /\ streamers'[i].type = streamers[i].type
                          /\ streamers'[i].total = streamers[i].total
                          /\ streamers'[i].start_time = streamers[i].start_time
                          /\ streamers'[i].frame_start_time = streamers[i].frame_start_time
  <2>1. mux.load + 1 \in Nat
    BY Basics
  <2> QED  BY <1>1, <2>1, Basics, FramesAssigned
<1>5. /\ counted' \in [Slots -> Counters] /\ \A i \in Slots : i # Slot => counted'[i] = counted[i]
      /\ counted'[Slot].frames = counted[Slot].frames + 1 /\ counted'[Slot].wait_ms = counted[Slot].wait_ms
  <2>1. counted \in [Slots -> Counters]
    BY DEF IInv, Typed
  <2> HIDE DEF Slot
  <2> QED  BY <1>1, <1>3, <2>1 DEF Counters
<1>6. Typed'
  BY <1>1, <1>2, <1>4, <1>5, MeetsSays DEF IInv, Typed, MuxType, TypeOK, Stream
<1>7. Added'
  BY <1>1, <1>2 DEF IInv, Added
<1>8. Clocked' /\ RateOfItsStream' /\ Loaded'
  BY <1>1, <1>2 DEF IInv, Clocked, RateOfItsStream, Loaded, Taken
<1>9. NothingLost'
  <2> SUFFICES ASSUME NEW i \in Slots, ~met'[i]
               PROVE  LET frames  == IF Taken(i) THEN 0 ELSE streamers'[i].statistics.frames
                          wait_ms == IF Taken(i) /\ main.pc = "clear" THEN 0
                                     ELSE streamers'[i].statistics.wait_ms
                      IN  /\ counted'[i].frames  = streamers'[i].total.frames + frames
                          /\ counted'[i].wait_ms = streamers'[i].total.wait_ms + wait_ms
    BY <1>1 DEF NothingLost, Taken
  <2>1. ~met[i]
    BY <1>1, MeetsSays
  <2>2. CASE i # Slot
    BY <1>4, <1>5, <2>1, <2>2 DEF IInv, NothingLost
  <2>3. CASE i = Slot
    <3>1. ~Taken(i)
      BY <1>1, <2>3, MeetsSays
    <3>2. mux.load = streamers[i].statistics.frames
      BY <1>1, <2>1, <2>3 DEF IInv, Loaded
    <3>3. /\ counted[i].frames = streamers[i].total.frames + streamers[i].statistics.frames
          /\ counted[i].wait_ms = streamers[i].total.wait_ms + streamers[i].statistics.wait_ms
      BY <2>1, <3>1 DEF IInv, NothingLost
    <3>4. streamers[i].total.frames \in Nat /\ streamers[i].statistics.frames \in Nat
      BY Basics, Fields
    <3>5. counted'[i].frames = streamers'[i].total.frames + streamers'[i].statistics.frames
      <4>1. /\ streamers'[i].statistics.frames = streamers[i].statistics.frames + 1
            /\ streamers'[i].total.frames = streamers[i].total.frames
        BY <1>4, <2>3, <3>2
      <4>2. counted'[i].frames = streamers[i].total.frames + streamers[i].statistics.frames + 1
        BY <1>5, <2>3, <3>3
      <4> QED  BY <3>4, <4>1, <4>2
    <3>6. counted'[i].wait_ms = streamers'[i].total.wait_ms + streamers'[i].statistics.wait_ms
      BY <1>4, <1>5, <2>3, <3>3
    <3> QED  BY <3>1, <3>5, <3>6
  <2> QED  BY <2>2, <2>3
<1>10. Wait(0)' = Wait(0) /\ Wait(1)' = Wait(1) /\ streamers'[1].start_time = streamers[1].start_time
       /\ streamers'[1].frame_start_time = streamers[1].frame_start_time
  BY <1>4, TwoSlots DEF Wait
<1>11. First'
  BY <1>1 DEF IInv, First
<1>12. Sharing'
  BY <1>1, <1>2, <1>10, Basics DEF IInv, Sharing, Within, Waited, Until, Ending
<1>13. Asking'
  BY <1>1, <1>10 DEF IInv, Asking
<1> QED  BY <1>6, <1>7, <1>8, <1>9, <1>11, <1>12, <1>13 DEF IInv

LEMMA WaitLoadKeeps ==
  ASSUME IInv, WaitLoad
  PROVE  IInv'
<1>1. /\ mux.pc = "wait" /\ Meets
      /\ mux' = [mux EXCEPT !.pc = "waited", !.load = streamers[Slot].statistics.wait_ms]
      /\ UNCHANGED <<clock, streamers, streamerNum, index, prep, main, counted, midFrame>>
  BY DEF WaitLoad, MuxStep
<1>2. /\ mux' \in MuxType
      /\ mux'.pc = "waited" /\ mux'.type = mux.type /\ mux'.delay = mux.delay
      /\ mux'.load = streamers[Slot].statistics.wait_ms
  <2>1. streamers[Slot].statistics.wait_ms \in Nat /\ "waited" \in MuxPlaces
    BY Basics, Fields DEF MuxPlaces, Ending
  <2> QED  BY <1>1, <2>1 DEF IInv, Typed, MuxType
<1>3. Slot' = Slot
  BY <1>1 DEF Slot
<1>4. Typed'
  BY <1>1, <1>2, MeetsSays DEF IInv, Typed, TypeOK
<1>5. Added' /\ Clocked' /\ RateOfItsStream'
  BY <1>1 DEF IInv, Added, Clocked, RateOfItsStream
<1>6. NothingLost'
  BY <1>1, MeetsSays DEF IInv, NothingLost, Taken
<1>7. streamers'[Slot'].statistics.wait_ms = streamers[Slot].statistics.wait_ms
  BY <1>1, <1>3
<1>8. Loaded'
  BY <1>1, <1>3, MeetsSays DEF Loaded, Taken
<1>9. First'
  BY <1>1 DEF IInv, First
<1>10. Sharing'
  BY <1>1, <1>7 DEF IInv, Sharing, Within, Waited, Until, Ending, Wait
<1>11. Asking'
  BY <1>1 DEF IInv, Asking, Wait
<1> QED  BY <1>4, <1>5, <1>6, <1>8, <1>9, <1>10, <1>11 DEF IInv

LEMMA WaitStoreKeeps ==
  ASSUME IInv, WaitStore
  PROVE  IInv'
<1>1. /\ mux.pc = "waited" /\ Meets /\ mux' = BetweenFrames
      /\ streamers' = [streamers EXCEPT ![Slot].statistics.wait_ms = mux.load + mux.delay]
      /\ counted' = [counted EXCEPT ![Slot].wait_ms = @ + mux.delay]
      /\ UNCHANGED <<clock, streamerNum, index, prep, main, midFrame>>
  BY DEF WaitStore, MuxStep
<1>2. /\ mux' \in MuxType
      /\ mux'.pc = "select" /\ mux'.type = mux.type
  BY <1>1, Returned
<1>3. Slot' = Slot /\ prep = "done" /\ Slot \in Slots
  BY <1>1, <1>2, Basics DEF Slot
<1>4. /\ streamers' \in [Slots -> Stream]
      /\ \A i \in Slots : /\ streamers'[i].statistics \in Counters
                          /\ i # Slot => streamers'[i].statistics = streamers[i].statistics
                          /\ streamers'[i].statistics.wait_ms =
                               IF i = Slot THEN mux.load + mux.delay ELSE streamers[i].statistics.wait_ms
                          /\ streamers'[i].statistics.frames = streamers[i].statistics.frames
                          /\ streamers'[i].type = streamers[i].type
                          /\ streamers'[i].total = streamers[i].total
                          /\ streamers'[i].start_time = streamers[i].start_time
                          /\ streamers'[i].frame_start_time = streamers[i].frame_start_time
  <2>1. mux.load + mux.delay \in Nat
    BY Basics
  <2> QED  BY <1>1, <2>1, Basics, WaitAssigned
<1>5. /\ counted' \in [Slots -> Counters] /\ \A i \in Slots : i # Slot => counted'[i] = counted[i]
      /\ counted'[Slot].wait_ms = counted[Slot].wait_ms + mux.delay
      /\ counted'[Slot].frames = counted[Slot].frames
  <2>1. counted \in [Slots -> Counters] /\ mux.delay \in Nat
    BY DEF IInv, Typed, MuxType
  <2> HIDE DEF Slot
  <2> QED  BY <1>1, <1>3, <2>1 DEF Counters
<1>6. Typed'
  BY <1>1, <1>2, <1>4, <1>5, MeetsSays DEF IInv, Typed, MuxType, TypeOK, Stream
<1>7. Added'
  BY <1>1, <1>2 DEF IInv, Added
<1>8. Clocked' /\ RateOfItsStream' /\ Loaded'
  BY <1>1, <1>2 DEF IInv, Clocked, RateOfItsStream, Loaded, Taken
<1>9. NothingLost'
  <2> SUFFICES ASSUME NEW i \in Slots, ~met'[i]
               PROVE  LET frames  == IF Taken(i) THEN 0 ELSE streamers'[i].statistics.frames
                          wait_ms == IF Taken(i) /\ main.pc = "clear" THEN 0
                                     ELSE streamers'[i].statistics.wait_ms
                      IN  /\ counted'[i].frames  = streamers'[i].total.frames + frames
                          /\ counted'[i].wait_ms = streamers'[i].total.wait_ms + wait_ms
    BY <1>1 DEF NothingLost, Taken
  <2>1. ~met[i]
    BY <1>1, MeetsSays
  <2>2. CASE i # Slot
    BY <1>4, <1>5, <2>1, <2>2 DEF IInv, NothingLost
  <2>3. CASE i = Slot
    <3>1. ~Taken(i)
      BY <1>1, <2>3, MeetsSays
    <3>2. mux.load = streamers[i].statistics.wait_ms
      BY <1>1, <2>1, <2>3 DEF IInv, Loaded
    <3>3. /\ counted[i].frames = streamers[i].total.frames + streamers[i].statistics.frames
          /\ counted[i].wait_ms = streamers[i].total.wait_ms + streamers[i].statistics.wait_ms
      BY <2>1, <3>1 DEF IInv, NothingLost
    <3>4. /\ streamers[i].total.wait_ms \in Nat /\ streamers[i].statistics.wait_ms \in Nat
          /\ mux.delay \in Nat
      BY Basics, Fields
    <3>5. counted'[i].wait_ms = streamers'[i].total.wait_ms + streamers'[i].statistics.wait_ms
      <4>1. /\ streamers'[i].statistics.wait_ms = streamers[i].statistics.wait_ms + mux.delay
            /\ streamers'[i].total.wait_ms = streamers[i].total.wait_ms
        BY <1>4, <2>3, <3>2
      <4>2. counted'[i].wait_ms = streamers[i].total.wait_ms + streamers[i].statistics.wait_ms + mux.delay
        BY <1>5, <2>3, <3>3
      <4> QED  BY <3>4, <4>1, <4>2
    <3>6. counted'[i].frames = streamers'[i].total.frames + streamers'[i].statistics.frames
      BY <1>4, <1>5, <2>3, <3>3
    <3> QED  BY <3>1, <3>5, <3>6
  <2> QED  BY <2>2, <2>3
<1>10. /\ Wait(0)' = (IF Slot = 0 THEN mux.load + mux.delay ELSE Wait(0))
       /\ Wait(1)' = (IF Slot = 1 THEN mux.load + mux.delay ELSE Wait(1))
       /\ streamers'[1].start_time = streamers[1].start_time
       /\ streamers'[1].frame_start_time = streamers[1].frame_start_time
  BY <1>4, TwoSlots DEF Wait
<1>11. First'
  BY <1>1 DEF IInv, First
<1>12. ASSUME ~midFrame
       PROVE  /\ ~Within /\ Wait(0)' >= Wait(0)
              /\ Wait(0)' + Wait(1)' = Wait(0) + Wait(1) + mux.delay
  <2>1. ~Within /\ mux.load = Wait(Slot)
    BY <1>1, <1>12 DEF IInv, Sharing
  <2>2. Slot = 0 \/ Slot = 1
    BY <1>3, Basics
  <2> QED  BY <1>10, <2>1, <2>2, Basics
<1>13. Sharing'
  <2>1. CASE ~midFrame
    <3>1. Wait(0) + Wait(1) + mux.delay + streamers[1].start_time <= clock
      BY <1>1, <2>1 DEF IInv, Sharing, Waited, Until, Ending
    <3>2. Waited' = Wait(0) + Wait(1) + mux.delay /\ Until' = clock
      BY <1>1, <1>2, <1>12, <2>1, Basics DEF Waited, Until, Ending
    <3>3. streamers[1].start_time = 0 => streamers[1].frame_start_time = 0
      BY <1>12, <2>1 DEF IInv, Sharing
    <3> QED  BY <1>1, <1>2, <1>12, <3>1, <3>2, <3>3 DEF Sharing, Within
  <2>2. CASE midFrame
    BY <1>1, <2>2 DEF Sharing
  <2> QED  BY <2>1, <2>2
<1>14. Asking'
  <2>1. main.wait \in Nat
    BY DEF IInv, Typed, MainType
  <2>2. Wait(0)' \in Nat
    BY <1>10, Basics
  <2> QED  BY <1>1, <1>12, <2>1, <2>2, Basics DEF IInv, Asking
<1> QED  BY <1>6, <1>7, <1>8, <1>9, <1>11, <1>13, <1>14 DEF IInv

------------------------------------------------------------------------------
\* main.
LEMMA MainBasics ==
  ASSUME IInv
  PROVE  /\ main \in MainType /\ main.i \in {0, 1, 2} /\ main.i \in Nat /\ main.wait \in Nat
         /\ main.start \in Nat /\ main.start \in 0 .. MaxClock /\ main.told \in Nat
         /\ main.i < streamerNum => main.i \in {0, 1} /\ main.i \in Slots
<1>1. main \in MainType
  BY DEF IInv, Typed
<1>2. /\ main.i \in {0, 1, 2} /\ main.i \in Nat /\ main.wait \in Nat /\ main.start \in Nat
      /\ main.start \in 0 .. MaxClock /\ main.told \in Nat
  BY <1>1 DEF MainType
<1> QED  BY <1>1, <1>2, Basics, TwoSlots

\* A step of main that leaves the statistics alone.
LEMMA Reading ==
  ASSUME IInv, main' \in MainType,
         UNCHANGED <<clock, streamers, streamerNum, index, prep, mux, counted, met, midFrame>>,
         main.pc \notin {"addWait", "clear"}, main'.pc \notin {"addWait", "clear"}
  PROVE  Typed' /\ Added' /\ Clocked' /\ NothingLost' /\ Loaded' /\ First'
<1>1. Typed'
  BY DEF IInv, Typed, TypeOK
<1>2. Added' /\ Clocked' /\ First'
  BY DEF IInv, Added, Adding, Clocked, First, Wait, Slot
<1>3. NothingLost' /\ Loaded'
  BY DEF IInv, NothingLost, Loaded, Taken, Slot
<1> QED  BY <1>1, <1>2, <1>3

LEMMA KeyIKeeps ==
  ASSUME IInv, KeyI
  PROVE  IInv'
<1>1. /\ main.pc = "getchar" /\ main' = [main EXCEPT !.pc = "factor", !.i = 0, !.wait = 0, !.start = 0]
      /\ UNCHANGED <<clock, streamers, streamerNum, index, prep, mux, counted, met, midFrame>>
  BY DEF KeyI, MainStep, history
<1>2. main' \in MainType /\ main'.pc = "factor" /\ main'.i = 0 /\ main'.wait = 0 /\ main'.start = 0
  <2>1. 0 \in 0 .. 2 /\ 0 \in 0 .. MaxClock /\ 0 \in Nat /\ "factor" \in MainPlaces
    BY StatisticianAssumption DEF MainPlaces
  <2> QED  BY <1>1, <2>1, MainBasics DEF MainType
<1>3. Typed' /\ Added' /\ Clocked' /\ NothingLost' /\ Loaded' /\ First'
  BY <1>1, <1>2, Reading
<1>4. RateOfItsStream'
  BY <1>2 DEF RateOfItsStream
<1>5. Sharing'
  BY <1>1 DEF IInv, Sharing, Within, Waited, Until, Wait, Slot
<1>6. Asking'
  BY <1>1, Basics DEF Asking
<1> QED  BY <1>3, <1>4, <1>5, <1>6 DEF IInv

LEMMA FactorAddKeeps ==
  ASSUME IInv, FactorAdd
  PROVE  IInv'
<1>1. /\ main.pc = "factor" /\ main.i < streamerNum
      /\ main' = [main EXCEPT !.i = main.i + 1,
                              !.wait = main.wait + streamers[main.i].statistics.wait_ms,
                              !.start = streamers[main.i].start_time]
      /\ UNCHANGED <<clock, streamers, streamerNum, index, prep, mux, counted, met, midFrame>>
  BY DEF FactorAdd, MainStep, history
<1>2. /\ main.i \in {0, 1} /\ main.i \in Slots /\ streamers[main.i].start_time \in 0 .. MaxClock
      /\ streamers[main.i].statistics.wait_ms \in Nat /\ streamers[main.i].start_time <= clock
  BY <1>1, Basics, MainBasics, Fields DEF IInv, Clocked
<1>3. /\ main' \in MainType /\ main'.pc = "factor" /\ main'.i = main.i + 1
      /\ main'.wait = main.wait + streamers[main.i].statistics.wait_ms
      /\ main'.start = streamers[main.i].start_time
  <2>1. main.wait + streamers[main.i].statistics.wait_ms \in Nat /\ main.i + 1 \in 0 .. 2
    BY <1>2, MainBasics
  <2> QED  BY <1>1, <1>2, <2>1, MainBasics DEF MainType
<1>4. Typed' /\ Added' /\ Clocked' /\ NothingLost' /\ Loaded' /\ First'
  BY <1>1, <1>3, Reading
<1>5. RateOfItsStream'
  BY <1>3 DEF RateOfItsStream
<1>6. Sharing'
  BY <1>1 DEF IInv, Sharing, Within, Waited, Until, Wait, Slot
<1>7. Asking'
  <2>1. ASSUME ~midFrame, main.i = 0 PROVE main'.wait <= Wait(0)
    BY <1>1, <2>1, Basics DEF IInv, Asking, Wait
  <2>2. ASSUME ~midFrame, main.i = 1 PROVE main'.wait + main'.start <= clock
    <3>1. main.wait <= Wait(0) /\ main'.wait = main.wait + Wait(1) /\ main'.start = streamers[1].start_time
      BY <1>1, <2>2 DEF IInv, Asking, Wait
    <3>2. Waited + streamers[1].start_time <= Until
      BY <1>1, <2>2 DEF IInv, Sharing, Within
    <3>3. Until <= clock /\ Until \in Nat
      BY Basics DEF Until, IInv, Clocked
    <3>4. Wait(0) + Wait(1) <= Waited /\ Waited \in Nat
      BY Basics DEF Waited
    <3> QED  BY <3>1, <3>2, <3>3, <3>4, Basics, MainBasics
  <2> QED  BY <1>1, <1>2, <2>1, <2>2, Basics DEF Asking, Wait
<1> QED  BY <1>4, <1>5, <1>6, <1>7 DEF IInv

LEMMA FactorResultKeeps ==
  ASSUME IInv, FactorResult
  PROVE  IInv'
<1>1. /\ main.pc = "factor" /\ main.i >= streamerNum
      /\ main' = [main EXCEPT !.pc = "video", !.told = clock - main.start]
      /\ UNCHANGED <<clock, streamers, streamerNum, index, prep, mux, counted, met, midFrame>>
  BY DEF FactorResult, MainStep, history
<1>2. main.start <= clock /\ clock - main.start \in Nat
  <2>1. main.start <= clock
    BY <1>1 DEF IInv, Asking
  <2> QED  BY <2>1, Basics, MainBasics
<1>3. /\ main' \in MainType /\ main'.pc = "video" /\ main'.told = clock - main.start
      /\ main'.i = main.i /\ main'.wait = main.wait
  BY <1>1, <1>2, MainBasics DEF MainType, MainPlaces
<1>4. Typed' /\ Added' /\ Clocked' /\ NothingLost' /\ Loaded' /\ First'
  BY <1>1, <1>3, Reading
<1>5. RateOfItsStream'
  BY <1>3 DEF RateOfItsStream
<1>6. Sharing'
  BY <1>1 DEF IInv, Sharing, Within, Waited, Until, Wait, Slot
<1>7. Asking'
  <2> SUFFICES ASSUME ~midFrame PROVE main.wait <= clock - main.start
    BY <1>1 DEF Asking
  <2>1. CASE main.i = 0
    BY <1>1, <1>2, <2>1 DEF IInv, Asking
  <2>2. CASE main.i = 1
    <3>1. prep # "done" /\ main.wait <= Wait(0)
      BY <1>1, <2>2, Basics DEF IInv, Asking
    <3>2. Wait(0) = 0
      BY <3>1, TwoSlots, ZeroCounters DEF IInv, Added, Wait
    <3> QED  BY <1>2, <3>1, <3>2, MainBasics
  <2>3. CASE main.i = 2
    <3>1. main.wait + main.start <= clock
      BY <1>1, <2>3 DEF IInv, Asking
    <3> QED  BY <3>1, Basics, MainBasics
  <2> QED  BY <2>1, <2>2, <2>3, MainBasics
<1> QED  BY <1>4, <1>5, <1>6, <1>7 DEF IInv

LEMMA BitRateKeeps ==
  ASSUME IInv, NEW t \in Types, BitRate(t)
  PROVE  IInv'
<1> DEFINE stream == streamers[index[t]]
           time == (clock - stream.start_time) \div Second
<1>1. PICK rate \in CASE stream.type = "NULL" -> {0}
                      [] stream.type = "raw"  -> 0..1
                      [] OTHER -> {IF time = 0 THEN 0 ELSE stream.statistics.frames \div time} :
        main' = [pc |-> IF t = "video" THEN "audio" ELSE "add", i |-> 0, wait |-> 0,
                 start |-> 0, told |-> rate, of |-> stream.type]
  BY DEF BitRate, MainStep
<1>2. /\ main.pc = t
      /\ UNCHANGED <<clock, streamers, streamerNum, index, prep, mux, counted, met, midFrame>>
  BY DEF BitRate, MainStep, history
<1>3. index[t] \in Slots
  BY DEF IInv, Typed, TypeOK
<1>4. /\ stream.type \in Types \cup {"NULL", "raw"} /\ stream.statistics.frames \in Nat
      /\ stream.start_time \in Nat /\ stream.start_time <= clock
  BY <1>3, Basics, Fields DEF IInv, Clocked
<1>5. time \in Nat
  <2>1. clock - stream.start_time \in Nat /\ Second \in Nat \ {0}
    BY <1>4, Basics, StatisticianAssumption
  <2> QED  BY <2>1
<1>6. rate \in Nat /\ (stream.type \in Types /\ stream.statistics.frames = 0 => rate = 0)
      /\ (stream.type = "NULL" => rate = 0)
  <2>1. CASE stream.type \in Types
    <3>2. time # 0 => /\ stream.statistics.frames \div time \in Nat
                      /\ stream.statistics.frames = 0 => stream.statistics.frames \div time = 0
      <4>1. PICK n \in Nat : n = time
        BY <1>5
      <4>2. PICK f \in Nat : f = stream.statistics.frames
        BY <1>4
      <4> HIDE DEF stream, time
      <4> QED  BY <4>1, <4>2
    <3> HIDE DEF stream, time
    <3> QED  BY <3>2 DEF Types
  <2>2. CASE stream.type \in {"NULL", "raw"}
    <3> HIDE DEF stream, time
    <3> QED  BY <2>2 DEF Types
  <2> QED  BY <1>4, <2>1
<1>7. rate > 0 => stream.type \in {t, "raw"}
  <2>1. CASE prep = "done"
    <3>1. index["audio"] = 0 /\ index["video"] = 1 /\ streamerNum = 2
      BY <2>1 DEF IInv, Added
    <3>2. stream.type = t
      BY <3>1, TwoSlots DEF IInv, Added, Types
    <3> QED  BY <3>2
  <2>2. CASE prep # "done"
    <3>1. stream.statistics.frames = 0
      BY <1>3, <2>2, ZeroCounters DEF IInv, Added
    <3> HIDE DEF stream
    <3> QED  BY <1>4, <1>6, <3>1
  <2> QED  BY <2>1, <2>2
<1> HIDE DEF stream, time
<1>8. /\ main' \in MainType /\ main'.pc = (IF t = "video" THEN "audio" ELSE "add") /\ main'.i = 0
      /\ main'.told = rate /\ main'.of = stream.type
  BY <1>1, <1>4, <1>6, StatisticianAssumption DEF MainType, MainPlaces
<1>9. Typed' /\ Added' /\ Clocked' /\ NothingLost' /\ Loaded' /\ First'
  BY <1>2, <1>8, Reading DEF Types
<1>10. RateOfItsStream'
  BY <1>7, <1>8 DEF RateOfItsStream, Types
<1>11. Sharing'
  BY <1>2, <1>8 DEF IInv, Sharing, Within, Waited, Until, Wait, Slot, Types
<1>12. Asking'
  BY <1>8 DEF Asking
<1> QED  BY <1>9, <1>10, <1>11, <1>12 DEF IInv

------------------------------------------------------------------------------
\* The reset.

\* What a step of the reset says of onFrameEnd.
LEMMA MeetsEndSays ==
  ASSUME IInv, MeetsEnd, main.i \in Slots
  PROVE  /\ met' \in [Slots -> BOOLEAN]
         /\ \A i \in Slots : ~met'[i] => ~met[i]
         /\ ~met'[main.i] => ~(Slot = main.i /\ mux.pc \in {"store", "waited"})
<1>1. met \in [Slots -> BOOLEAN]
  BY DEF IInv, Typed
<1>2. met' = [met EXCEPT ![main.i] = @ \/ (Slot = main.i /\ mux.pc \in {"store", "waited"})]
  BY DEF MeetsEnd
<1> HIDE DEF Slot
<1> QED  BY <1>1, <1>2

LEMMA ResetAddKeeps ==
  ASSUME IInv, ResetAdd
  PROVE  IInv'
<1> DEFINE k == main.i
           sum == [streamers[k].total EXCEPT
                     !.frames = streamers[k].total.frames + streamers[k].statistics.frames]
<1>1. /\ main.pc = "add" /\ k < streamerNum /\ main' = [main EXCEPT !.pc = "addWait"] /\ MeetsEnd
      /\ streamers' = [streamers EXCEPT ![k].total = sum]
      /\ midFrame' = (mux.pc \notin {"off", "select"} \/ (k > 0 /\ midFrame))
      /\ UNCHANGED <<clock, streamerNum, index, prep, mux, counted>>
  BY DEF ResetAdd, MainStep
<1>2. k \in {0, 1} /\ k \in Slots
  BY <1>1, MainBasics
<1>3. main' \in MainType /\ main'.pc = "addWait" /\ main'.i = k
  BY <1>1, MainBasics DEF MainType, MainPlaces
<1>4. /\ sum \in Counters /\ sum.wait_ms = streamers[k].total.wait_ms
      /\ sum.frames = streamers[k].total.frames + streamers[k].statistics.frames
  <2>1. streamers[k].total \in Counters /\ streamers[k].statistics.frames \in Nat
    BY <1>2, Basics, Fields
  <2> HIDE DEF k
  <2> QED  BY <2>1 DEF Counters
<1> HIDE DEF sum
<1>5. /\ streamers' \in [Slots -> Stream]
      /\ \A i \in Slots : /\ streamers'[i].total = IF i = k THEN sum ELSE streamers[i].total
                          /\ streamers'[i].type = streamers[i].type
                          /\ streamers'[i].statistics = streamers[i].statistics
                          /\ streamers'[i].start_time = streamers[i].start_time
                          /\ streamers'[i].frame_start_time = streamers[i].frame_start_time
  BY <1>1, <1>2, <1>4, Basics, TotalAssigned
<1>6. Slot' = Slot /\ midFrame' \in BOOLEAN
  BY <1>1 DEF Slot
<1>7. Typed'
  BY <1>1, <1>3, <1>5, MeetsEndSays DEF IInv, Typed, TypeOK, Stream
<1>8. Added' /\ Clocked'
  BY <1>1, <1>6 DEF IInv, Added, Adding, Clocked
<1>9. RateOfItsStream'
  BY <1>3 DEF RateOfItsStream
<1>10. NothingLost'
  <2> SUFFICES ASSUME NEW i \in Slots, ~met'[i]
               PROVE  /\ counted[i].frames = streamers'[i].total.frames +
                            IF i = k THEN 0 ELSE streamers'[i].statistics.frames
                      /\ counted[i].wait_ms = streamers'[i].total.wait_ms + streamers'[i].statistics.wait_ms
    BY <1>1, <1>3 DEF NothingLost, Taken
  <2>1. ~met[i]
    BY <1>1, <1>2, MeetsEndSays
  <2>2. /\ counted[i].frames = streamers[i].total.frames + streamers[i].statistics.frames
        /\ counted[i].wait_ms = streamers[i].total.wait_ms + streamers[i].statistics.wait_ms
    BY <1>1, <2>1 DEF IInv, NothingLost, Taken
  <2>3. streamers[i].total.frames \in Nat /\ streamers[i].statistics.frames \in Nat
    BY Basics, Fields
  <2> QED  BY <1>4, <1>5, <2>2, <2>3
<1>11. Loaded'
  BY <1>1, <1>5, <1>6, Basics, MeetsEndSays DEF IInv, Loaded, Taken
<1>12. Wait(0)' = Wait(0) /\ Wait(1)' = Wait(1) /\ streamers'[1].start_time = streamers[1].start_time
       /\ streamers'[1].frame_start_time = streamers[1].frame_start_time
  BY <1>5, TwoSlots DEF Wait
<1>13. First'
  BY <1>1, <1>12 DEF IInv, First
<1>14. Sharing'
  <2>1. ~midFrame' => mux.pc \in {"off", "select"} /\ (k = 1 => ~midFrame)
    <3>1. midFrame' = (mux.pc \notin {"off", "select"} \/ (k > 0 /\ midFrame))
      BY <1>1
    <3>2. k = 1 => k > 0
      OBVIOUS
    <3> QED  BY <3>1, <3>2, Zenon
  <2>2. k = 1 /\ ~midFrame => Wait(0) = 0
    BY <1>1 DEF IInv, Sharing, Within, Cleared
  <2>3. Within' /\ (Cleared(0)' => k = 1) /\ ~Cleared(1)'
    BY <1>2, <1>3 DEF Within, Cleared
  <2> QED  BY <1>1, <1>2, <1>12, <2>1, <2>2, <2>3 DEF Sharing
<1>15. Asking'
  BY <1>1 DEF Asking
<1> QED  BY <1>7, <1>8, <1>9, <1>10, <1>11, <1>13, <1>14, <1>15 DEF IInv

LEMMA ResetAddWaitKeeps ==
  ASSUME IInv, ResetAddWait
  PROVE  IInv'
<1> DEFINE k == main.i
           sum == [streamers[k].total EXCEPT
                     !.wait_ms = streamers[k].total.wait_ms + streamers[k].statistics.wait_ms]
<1>1. /\ main.pc = "addWait" /\ main' = [main EXCEPT !.pc = "clear"] /\ MeetsEnd
      /\ streamers' = [streamers EXCEPT ![k].total = sum]
      /\ UNCHANGED <<clock, streamerNum, index, prep, mux, counted, midFrame>>
  BY DEF ResetAddWait, MainStep
<1>2. k \in {0, 1} /\ k \in Slots /\ k < streamerNum
  BY <1>1, MainBasics DEF IInv, Asking
<1>3. main' \in MainType /\ main'.pc = "clear" /\ main'.i = k
  BY <1>1, MainBasics DEF MainType, MainPlaces
<1>4. /\ sum \in Counters /\ sum.frames = streamers[k].total.frames
      /\ sum.wait_ms = streamers[k].total.wait_ms + streamers[k].statistics.wait_ms
  <2>1. streamers[k].total \in Counters /\ streamers[k].statistics.wait_ms \in Nat
    BY <1>2, Basics, Fields
  <2> HIDE DEF k
  <2> QED  BY <2>1 DEF Counters
<1> HIDE DEF sum
<1>5. /\ streamers' \in [Slots -> Stream]
      /\ \A i \in Slots : /\ streamers'[i].total = IF i = k THEN sum ELSE streamers[i].total
                          /\ streamers'[i].type = streamers[i].type
                          /\ streamers'[i].statistics = streamers[i].statistics
                          /\ streamers'[i].start_time = streamers[i].start_time
                          /\ streamers'[i].frame_start_time = streamers[i].frame_start_time
  BY <1>1, <1>2, <1>4, Basics, TotalAssigned
<1>6. Slot' = Slot
  BY <1>1 DEF Slot
<1>7. Typed'
  BY <1>1, <1>2, <1>3, <1>5, MeetsEndSays DEF IInv, Typed, TypeOK, Stream
<1>8. Added' /\ Clocked'
  BY <1>1, <1>6 DEF IInv, Added, Adding, Clocked
<1>9. RateOfItsStream'
  BY <1>3 DEF RateOfItsStream
<1>10. NothingLost'
  <2> SUFFICES ASSUME NEW i \in Slots, ~met'[i]
               PROVE  /\ counted[i].frames = streamers'[i].total.frames +
                            IF i = k THEN 0 ELSE streamers'[i].statistics.frames
                      /\ counted[i].wait_ms = streamers'[i].total.wait_ms +
                            IF i = k THEN 0 ELSE streamers'[i].statistics.wait_ms
    BY <1>1, <1>3 DEF NothingLost, Taken
  <2>1. ~met[i]
    BY <1>1, <1>2, MeetsEndSays
  <2>2. /\ counted[i].frames = streamers[i].total.frames +
             IF i = k THEN 0 ELSE streamers[i].statistics.frames
        /\ counted[i].wait_ms = streamers[i].total.wait_ms + streamers[i].statistics.wait_ms
    BY <1>1, <2>1 DEF IInv, NothingLost, Taken
  <2>3. streamers[i].total.wait_ms \in Nat /\ streamers[i].statistics.wait_ms \in Nat
    BY Basics, Fields
  <2> QED  BY <1>4, <1>5, <2>2, <2>3
<1>11. Loaded'
  BY <1>1, <1>2, <1>5, <1>6, Basics, MeetsEndSays DEF IInv, Loaded, Taken
<1>12. Wait(0)' = Wait(0) /\ Wait(1)' = Wait(1) /\ streamers'[1].start_time = streamers[1].start_time
       /\ streamers'[1].frame_start_time = streamers[1].frame_start_time
  BY <1>5, TwoSlots DEF Wait
<1>13. First'
  BY <1>1, <1>12 DEF IInv, First
<1>14. Sharing'
  BY <1>1, <1>2, <1>3, <1>12 DEF IInv, Sharing, Within, Cleared
<1>15. Asking'
  BY <1>1, <1>2 DEF Asking
<1> QED  BY <1>7, <1>8, <1>9, <1>10, <1>11, <1>13, <1>14, <1>15 DEF IInv

LEMMA ResetClearKeeps ==
  ASSUME IInv, ResetClear
  PROVE  IInv'
<1> DEFINE k == main.i
<1>1. /\ main.pc = "clear" /\ main' = [main EXCEPT !.pc = "restart"] /\ MeetsEnd
      /\ streamers' = [streamers EXCEPT ![k].statistics = Zero, ![k].start_time = 0]
      /\ UNCHANGED <<clock, streamerNum, index, prep, mux, counted, midFrame>>
  BY DEF ResetClear, MainStep
<1>2. k \in {0, 1} /\ k \in Slots /\ k < streamerNum
  BY <1>1, MainBasics DEF IInv, Asking
<1>3. main' \in MainType /\ main'.pc = "restart" /\ main'.i = k
  BY <1>1, MainBasics DEF MainType, MainPlaces
<1>4. /\ streamers' \in [Slots -> Stream]
      /\ \A i \in Slots : /\ streamers'[i].statistics = IF i = k THEN Zero ELSE streamers[i].statistics
                          /\ streamers'[i].start_time = IF i = k THEN 0 ELSE streamers[i].start_time
                          /\ streamers'[i].type = streamers[i].type
                          /\ streamers'[i].total = streamers[i].total
                          /\ streamers'[i].frame_start_time = streamers[i].frame_start_time
  BY <1>1, <1>2, Basics, PeriodCleared
<1>5. Slot' = Slot
  BY <1>1 DEF Slot
<1>6. Typed'
  BY <1>1, <1>3, <1>4, MeetsEndSays, SMTT(30) DEF IInv, Typed, TypeOK, Stream
<1>7. Added'
  <2>1. prep = "count" => streamerNum \in Slots
    BY Basics, TwoSlots DEF IInv, Added
  <2> QED  BY <1>1, <2>1, Basics DEF IInv, Added, Adding
<1>8. Clocked'
  BY <1>1, <1>5, Basics DEF IInv, Clocked
<1>9. RateOfItsStream'
  BY <1>3 DEF RateOfItsStream
<1>10. NothingLost'
  <2> SUFFICES ASSUME NEW i \in Slots, ~met'[i]
               PROVE  /\ counted[i].frames = streamers'[i].total.frames + streamers'[i].statistics.frames
                      /\ counted[i].wait_ms = streamers'[i].total.wait_ms + streamers'[i].statistics.wait_ms
    <3>1. counted' = counted /\ main'.pc = "restart"
      BY <1>1, <1>3
    <3>2. main'.pc \notin {"addWait", "clear"}
      BY <3>1
    <3> QED  BY <3>1, <3>2 DEF NothingLost, Taken
  <2>1. ~met[i]
    BY <1>1, <1>2, MeetsEndSays
  <2>2. /\ counted[i].frames = streamers[i].total.frames +
             IF i = k THEN 0 ELSE streamers[i].statistics.frames
        /\ counted[i].wait_ms = streamers[i].total.wait_ms +
             IF i = k THEN 0 ELSE streamers[i].statistics.wait_ms
    BY <1>1, <2>1 DEF IInv, NothingLost, Taken
  <2> QED  BY <1>4, <2>2, ZeroCounters
<1>11. Loaded'
  BY <1>1, <1>4, <1>5, Basics, MeetsEndSays DEF IInv, Loaded, Taken
<1>12. /\ Wait(0)' = (IF k = 0 THEN 0 ELSE Wait(0)) /\ Wait(1)' = (IF k = 1 THEN 0 ELSE Wait(1))
       /\ streamers'[1].frame_start_time = streamers[1].frame_start_time
  BY <1>4, TwoSlots, ZeroCounters DEF Wait
<1>13. First'
  BY <1>1, <1>12 DEF IInv, First
<1>14. Sharing'
  BY <1>1, <1>2, <1>12 DEF IInv, Sharing, Within, Cleared
<1>15. Asking'
  BY <1>1, <1>2 DEF Asking
<1> QED  BY <1>6, <1>7, <1>8, <1>9, <1>10, <1>11, <1>13, <1>14, <1>15 DEF IInv

LEMMA ResetStartKeeps ==
  ASSUME IInv, ResetStart
  PROVE  IInv'
<1> DEFINE k == main.i
<1>1. /\ main.pc = "restart" /\ main' = [main EXCEPT !.pc = "add", !.i = k + 1]
      /\ streamers' = [streamers EXCEPT ![k].start_time = clock]
      /\ UNCHANGED <<clock, streamerNum, index, prep, mux, counted, met, midFrame>>
  BY DEF ResetStart, MainStep, history
<1>2. k \in {0, 1} /\ k \in Slots
  BY <1>1, MainBasics DEF IInv, Asking
<1>3. main' \in MainType /\ main'.pc = "add" /\ main'.i = k + 1
  <2>1. k + 1 \in 0 .. 2 /\ "add" \in MainPlaces
    BY <1>2 DEF MainPlaces
  <2> QED  BY <1>1, <2>1, MainBasics DEF MainType
<1>4. /\ streamers' \in [Slots -> Stream]
      /\ \A i \in Slots : /\ streamers'[i].start_time = IF i = k THEN clock ELSE streamers[i].start_time
                          /\ streamers'[i].type = streamers[i].type
                          /\ streamers'[i].total = streamers[i].total
                          /\ streamers'[i].statistics = streamers[i].statistics
                          /\ streamers'[i].frame_start_time = streamers[i].frame_start_time
  BY <1>1, <1>2, Basics, StartAssigned
<1>5. Slot' = Slot
  BY <1>1 DEF Slot
<1>6. Typed'
  BY <1>1, <1>3, <1>4 DEF IInv, Typed, TypeOK
<1>7. Added'
  BY <1>1 DEF IInv, Added, Adding
<1>8. Clocked'
  BY <1>1, <1>5, Basics DEF IInv, Clocked
<1>9. RateOfItsStream'
  BY <1>2, <1>3 DEF RateOfItsStream
<1>10. NothingLost' /\ Loaded'
  BY <1>1, <1>5 DEF IInv, NothingLost, Loaded, Taken
<1>11. Wait(0)' = Wait(0) /\ Wait(1)' = Wait(1)
       /\ streamers'[1].frame_start_time = streamers[1].frame_start_time
       /\ (k = 1 => streamers'[1].start_time = clock)
  BY <1>4, TwoSlots DEF Wait
<1>12. First'
  BY <1>1, <1>11 DEF IInv, First
<1>13. Sharing'
  BY <1>1, <1>2, <1>11, Basics DEF IInv, Sharing, Within, Cleared
<1>14. Asking'
  BY <1>3 DEF Asking
<1> QED  BY <1>6, <1>7, <1>8, <1>9, <1>10, <1>12, <1>13, <1>14 DEF IInv

LEMMA ResetDoneKeeps ==
  ASSUME IInv, ResetDone
  PROVE  IInv'
<1>1. /\ main.pc = "add" /\ main.i >= streamerNum /\ main' = [main EXCEPT !.pc = "getchar"]
      /\ UNCHANGED <<clock, streamers, streamerNum, index, prep, mux, counted, met, midFrame>>
  BY DEF ResetDone, MainStep, history
<1>2. main' \in MainType /\ main'.pc = "getchar"
  BY <1>1, MainBasics DEF MainType, MainPlaces
<1>3. Typed' /\ Added' /\ Clocked' /\ NothingLost' /\ Loaded' /\ First'
  BY <1>1, <1>2, Reading
<1>4. RateOfItsStream'
  BY <1>2 DEF RateOfItsStream
<1>5. Sharing'
  <2>1. CASE prep = "done" /\ Within /\ ~midFrame
    <3>1. main.i = 2
      BY <1>1, <2>1, Basics, MainBasics
    <3>2. Wait(0) = 0 /\ Wait(1) = 0 /\ streamers[1].start_time > 0 /\ mux.pc \in {"off", "select"}
      BY <2>1, <3>1 DEF IInv, Sharing, Cleared
    <3>3. streamers[1].start_time <= clock
      BY TwoSlots DEF IInv, Clocked
    <3> QED  BY <1>1, <3>2, <3>3, Basics DEF Sharing, Waited, Until, Wait, Ending
  <2>2. CASE prep # "done"
    <3>1. Wait(0) = 0 /\ Wait(1) = 0 /\ streamers[1].frame_start_time = 0 /\ mux.pc = "off"
      BY <2>2, TwoSlots, ZeroCounters DEF IInv, Added, Wait
    <3>2. streamers[1].start_time <= clock
      BY TwoSlots DEF IInv, Clocked
    <3> QED  BY <1>1, <3>1, <3>2, Basics DEF Sharing, Within, Waited, Until, Wait, Ending
  <2>3. CASE midFrame
    BY <1>1, <2>3 DEF Sharing
  <2>4. CASE ~midFrame /\ ~Within
    BY <1>1, <2>4 DEF IInv, Sharing, Within, Waited, Until, Wait, Slot
  <2> QED  BY <2>1, <2>2, <2>3, <2>4
<1>6. Asking'
  BY <1>2 DEF Asking
<1> QED  BY <1>3, <1>4, <1>5, <1>6 DEF IInv
------------------------------------------------------------------------------
LEMMA InitInv == Init => IInv
<1> SUFFICES ASSUME Init PROVE IInv
  OBVIOUS
<1>1. /\ clock \in 1 .. MaxClock /\ 0 \in 0 .. MaxClock /\ 0 \in 0 .. (MaxClock - 1)
      /\ 0 \in Slots /\ 1 \in Slots
  BY StatisticianAssumption, TwoSlots DEF Init
<1>2. /\ \A i \in Slots : /\ streamers[i].type = "NULL" /\ streamers[i].total = Zero
                          /\ streamers[i].statistics = Zero
                          /\ streamers[i].start_time = 0 /\ streamers[i].frame_start_time = 0
      /\ streamers \in [Slots -> Stream]
  BY <1>1, ZeroCounters DEF Init, Stream
<1>3. TypeOK
  BY <1>1, <1>2 DEF Init, TypeOK, Stream
<1>4. Typed
  <2>1. mux \in MuxType
    BY <1>1 DEF Init, MuxPlaces, Types, MuxType
  <2>2. main \in MainType
    BY <1>1 DEF Init, MainPlaces, MainType
  <2>3. prep \in {"alloc", "clear", "count", "start", "done"} /\ counted \in [Slots -> Counters]
    BY ZeroCounters DEF Init
  <2>4. met \in [Slots -> BOOLEAN] /\ midFrame \in BOOLEAN
    BY DEF Init
  <2> QED  BY <1>3, <2>1, <2>2, <2>3, <2>4 DEF Typed
<1>5. Added
  <2>1. streamerNum = 0 /\ prep = "alloc" /\ mux.pc = "off" /\ index["audio"] = 0
    BY DEF Init, Types
  <2>2. \A i \in Slots : ~(i < streamerNum)
    BY <2>1, TwoSlots
  <2> QED  BY <1>2, <2>1, <2>2 DEF Added
<1>6. Clocked /\ RateOfItsStream
  BY DEF Init, Clocked, RateOfItsStream
<1>7. NothingLost /\ Loaded
  <2>1. \A i \in Slots : /\ streamers[i].statistics = Zero /\ streamers[i].total = Zero
                        /\ counted[i] = Zero
    BY <1>2 DEF Init
  <2> QED  BY <2>1, ZeroCounters DEF Init, NothingLost, Loaded, Taken
<1>8. First /\ Sharing /\ Asking
  BY <1>1, ZeroCounters DEF Init, First, Sharing, Waited, Until, Wait, Asking
<1> QED  BY <1>4, <1>5, <1>6, <1>7, <1>8 DEF IInv

LEMMA NextInv == IInv /\ [Next]_vars => IInv'
<1> SUFFICES ASSUME IInv, [Next]_vars PROVE IInv'
  OBVIOUS
<1>1. CASE Tick
  BY <1>1, TickKeeps
<1>2. CASE Prepare
  BY <1>2, AddAllocKeeps, AddClearKeeps, AddCountKeeps, MuxStartKeeps DEF Prepare
<1>3. CASE Mux
  BY <1>3, MuxSelectKeeps, BeginPeriodKeeps, BeginFrameKeeps, NoFrameKeeps,
     EndLoadKeeps, EndStoreKeeps, WaitLoadKeeps, WaitStoreKeeps DEF Mux
<1>4. CASE Main
  BY <1>4, KeyIKeeps, FactorAddKeeps, FactorResultKeeps, BitRateKeeps,
     ResetAddKeeps, ResetAddWaitKeeps, ResetClearKeeps, ResetStartKeeps, ResetDoneKeeps DEF Main
<1>5. CASE UNCHANGED vars
  BY <1>5, StutterKeeps
<1> QED  BY <1>1, <1>2, <1>3, <1>4, <1>5 DEF Next

\* The inductive invariant.
THEOREM Invariance == Spec => []IInv
  BY InitInv, NextInv, PTL DEF Spec

\* main never reads or resets a stream that the prepare thread has not cleared.
THEOREM StreamsAreCleared == Spec => []OnlyClearedStreams
<1>1. IInv => OnlyClearedStreams
  <2> SUFFICES ASSUME IInv, main.i < streamerNum
               PROVE  TypeOK /\ streamers[main.i].type \in Types
    BY DEF IInv, Typed, OnlyClearedStreams
  <2>1. main.i \in Slots
    BY MainBasics
  <2> QED  BY <2>1 DEF IInv, Typed, Added, Types
<1> QED  BY <1>1, Invariance, PTL

\* A bit rate is that of the stream it was asked for, or of memory that is not cleared.
THEOREM RateIsOfItsStream == Spec => []RateOfItsStream
<1>1. IInv => RateOfItsStream
  BY DEF IInv
<1> QED  BY <1>1, Invariance, PTL

\* A reset moves the counters of the period to the past and loses nothing, unless it ran while
\* onFrameEnd was between its load and its store.
THEOREM ResetLosesNothing == Spec => []NothingLost
<1>1. IInv => NothingLost
  BY DEF IInv
<1> QED  BY <1>1, Invariance, PTL

\* The waits of all streams, read one after the other while frames go on, are a part of the
\* time since video's period began, if no frame was under way when the period did.
THEOREM WaitsAreAShare == Spec => []ShareUnlessMidFrame
<1>1. IInv => ShareUnlessMidFrame
  BY DEF IInv, Asking, ShareUnlessMidFrame
<1> QED  BY <1>1, Invariance, PTL
==============================================================================
