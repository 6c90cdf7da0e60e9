---------------------------- MODULE AudioPathProofs ----------------------------
(***************************************************************************)
(* What TLAPS proves about the stamps: the muxer's, for any stamps, units  *)
(* and number of frames; the PCM buffer's, for any size of it and of the   *)
(* packets; and that the second feeds the first.                           *)
(*                                                                         *)
(* The muxer.  Nothing MuxTimestamps keeps says which dts a stream's last  *)
(* frame had: its stamps are shifted and rescaled.  IInv says that there   *)
(* is such a number d (Follows), that the next frame of the queue comes    *)
(* after it, and how far behind the other stream's last_pts it can be.     *)
(*                                                                         *)
(* The buffer.  One that is not full holds a whole number of packets       *)
(* (Whole).  If k packets fill it, fewer than k are in it, so there is     *)
(* room for one more: that is all InBounds needs beside the types.         *)
(*                                                                         *)
(* The path.  Between the two are the stamps that the codec holds: they    *)
(* rise, and each is some whole buffers before the encoder's last (Line).  *)
(***************************************************************************)
EXTENDS AudioPath, SequenceTheorems, TLAPS

\* The frames that wait are in order, and presented as late as their stream allows.
Waiting(s) ==
  /\ \A i \in 1 .. Len(queue[s]) : queue[s][i].pts - queue[s][i].dts \in Delays
  /\ s = "audio" => \A i \in 1 .. Len(queue[s]) : queue[s][i].pts = queue[s][i].dts
  /\ \A i \in 1 .. Len(queue[s]) - 1 : queue[s][i + 1].dts - queue[s][i].dts \in Steps
  /\ queue[s] # << >> => queue[s][Len(queue[s])].dts = newest[s]

\* A stream of which no frame was written.
Fresh(s) ==
  written[s].frames = 0 =>
    /\ last_pts[s] = 0
    /\ s \in encode => IF queue[s] = << >> THEN arrived[s] = 0 ELSE queue[s][1].dts \in Starts

\* The furthest a stream gets ahead with one frame.
Leap == Greatest(Steps) + Greatest(Delays)

\* d is the dts of the last frame of s.  Its distance from the other stream is known even if
\* d's own pts, which last_pts[s] is, is later.
Follows(s, d) ==
  /\ IF queue[s] = << >> THEN newest[s] = d ELSE queue[s][1].dts - d \in Steps
  /\ ~below =>
       /\ written[s].dts = Rescale(d - first_pts)
       /\ last_pts[s] - (d - first_pts) \in Delays
       /\ s = "audio" => last_pts[s] = d - first_pts
       /\ encode = Streams =>
            IF written[Other(s)].frames = 0
              THEN d >= first_pts /\ last_pts[s] <= Leap
              ELSE last_pts[Other(s)] - (d - first_pts) <= MaxLag

UnderWay(s) == s \in encode /\ written[s].frames > 0 => \E d \in Int : Follows(s, d)

\* first_pts is the dts of the very first frame, and what is taken off every stamp.
Anchored ==
  /\ (\A s \in Streams : written[s].frames = 0) => first_pts = -1
  /\ ~below /\ (\E s \in Streams : written[s].frames > 0) => first_pts \in Starts /\ first_pts >= 0
  /\ ~below => \A s \in Streams : written[s].frames > 0 => written[s].shift = first_pts

\* The stream whose turn it is was behind when it was chosen, and still is.
Turn ==
  stream # "none" =>
    /\ stream \in encode
    /\ encode = Streams => last_pts[stream] <= last_pts[Other(stream)]

IInv ==
  /\ TypeOK /\ Anchored /\ Turn
  /\ \A s \in Streams : Waiting(s) /\ Fresh(s) /\ UnderWay(s)

------------------------------------------------------------------------------
\* Numbers: the extremes of the constants, and av_rescale.
LEMMA Extremes ==
  ASSUME NEW set \in {Starts, Steps, Delays}
  PROVE  /\ Greatest(set) \in set /\ Least(set) \in set
         /\ \A n \in set : Least(set) <= n /\ n <= Greatest(set)
<1>1. PICK least, greatest \in set : \A n \in set : least <= n /\ n <= greatest
  BY TimestampAssumption
<1>2. Greatest(set) \in set /\ \A n \in set : n <= Greatest(set)
  BY <1>1 DEF Greatest
<1>3. Least(set) \in set /\ \A n \in set : n >= Least(set)
  <2>1. \E n \in set : \A m \in set : m >= n
    BY <1>1, TimestampAssumption
  <2> QED  BY <2>1 DEF Least
<1>4. set \subseteq Int
  BY TimestampAssumption
<1> QED  BY <1>2, <1>3, <1>4

LEMMA Lags ==
  /\ Leap \in Int /\ MaxLag \in Int /\ 0 <= Leap /\ Leap <= MaxLag
  /\ \A step \in Steps, delay \in Delays : step > 0 /\ delay >= 0 /\ step + delay <= Leap
  /\ \A a, b \in Starts : a - b + Leap <= MaxLag
<1>1. \A n \in Starts : n \in Int /\ Least(Starts) <= n /\ n <= Greatest(Starts)
  BY Extremes, TimestampAssumption
<1>2. \A n \in Steps : n \in Nat \ {0} /\ n <= Greatest(Steps)
  BY Extremes, TimestampAssumption
<1>3. \A n \in Delays : n \in Nat /\ n <= Greatest(Delays)
  BY Extremes, TimestampAssumption
<1>4. Greatest(Starts) \in Starts /\ Least(Starts) \in Starts /\ Greatest(Steps) \in Steps /\ Greatest(Delays) \in Delays
  BY Extremes
<1> QED  BY <1>1, <1>2, <1>3, <1>4 DEF Leap, MaxLag

LEMMA Quotient ==
  ASSUME NEW a \in Int, NEW b \in Int, a <= b, NEW c \in Nat \ {0}
  PROVE  a \div c \in Int /\ a \div c <= b \div c
  OBVIOUS

LEMMA QuotientOfNat ==
  ASSUME NEW a \in Nat, NEW c \in Nat \ {0}
  PROVE  a \div c >= 0
  OBVIOUS

LEMMA UpMonotone ==
  ASSUME NEW m \in Int, NEW n \in Int, m <= n
  PROVE  /\ (2 * m + Tick) \div (2 * Tick) \in Int
         /\ (2 * m + Tick) \div (2 * Tick) <= (2 * n + Tick) \div (2 * Tick)
         /\ m >= 0 => (2 * m + Tick) \div (2 * Tick) >= 0
<1> DEFINE a == 2 * m + Tick
           b == 2 * n + Tick
           c == 2 * Tick
<1>1. a \in Int /\ b \in Int /\ a <= b /\ c \in Nat \ {0} /\ (m >= 0 => a \in Nat)
  BY TimestampAssumption
<1> HIDE DEF a, b, c
<1>2. a \div c \in Int /\ a \div c <= b \div c
  BY <1>1, Quotient
<1>3. a \in Nat => a \div c >= 0
  BY <1>1, QuotientOfNat
<1> QED  BY <1>1, <1>2, <1>3 DEF a, b, c

\* Rescaled stamps are in the order of the stamps.
LEMMA RescaleMonotone ==
  ASSUME NEW m \in Int, NEW n \in Int, m <= n
  PROVE  Rescale(m) \in Int /\ Rescale(m) <= Rescale(n)
<1> DEFINE Up(k) == (2 * k + Tick) \div (2 * Tick)
<1>1. /\ Up(m) \in Int /\ Up(-n) \in Int /\ Up(n) \in Int /\ Up(-m) \in Int
      /\ Up(m) <= Up(n) /\ Up(-n) <= Up(-m)
      /\ (m >= 0 => Up(m) >= 0) /\ (n >= 0 => Up(n) >= 0) /\ (-m >= 0 => Up(-m) >= 0)
  <2>1. \A i, j \in Int : i <= j => Up(i) \in Int /\ Up(i) <= Up(j) /\ (i >= 0 => Up(i) >= 0)
    BY UpMonotone
  <2>2. -n \in Int /\ -m \in Int /\ -n <= -m
    OBVIOUS
  <2> HIDE DEF Up
  <2> QED  BY <2>1, <2>2
<1>2. /\ Rescale(m) = IF m < 0 THEN -Up(-m) ELSE Up(m)
      /\ Rescale(n) = IF n < 0 THEN -Up(-n) ELSE Up(n)
  BY DEF Rescale
<1> HIDE DEF Up
<1>3. CASE m < 0 /\ n < 0
  BY <1>1, <1>2, <1>3
<1>4. CASE m < 0 /\ n >= 0
  BY <1>1, <1>2, <1>4
<1>5. CASE m >= 0
  BY <1>1, <1>2, <1>5
<1> QED  BY <1>3, <1>4, <1>5

LEMMA Others ==
  ASSUME NEW s \in Streams
  PROVE  /\ Other(s) \in Streams /\ Other(s) # s /\ Other(Other(s)) = s
         /\ Streams = {s, Other(s)} /\ s \in {"video", "audio"}
  BY DEF Streams, Other
------------------------------------------------------------------------------
LEMMA InitInv == Init => IInv
<1> SUFFICES ASSUME Init PROVE IInv
  OBVIOUS
<1>1. TypeOK
  <2>1. queue \in [Streams -> Seq([dts : Int, pts : Int])] /\ \A s \in Streams : Len(queue[s]) = 0
    BY DEF Init
  <2>2. written \in [Streams -> [frames : Nat, dts : Int, pts : Int, shift : Int]] /\ \A s \in Streams : written[s].frames = 0
    BY DEF Init
  <2>3. arrived \in [Streams -> 0 .. MaxFrames] /\ \A s \in Streams : arrived[s] = 0
    BY TimestampAssumption DEF Init
  <2>4. newest \in [Streams -> Int] /\ last_pts \in [Streams -> Int]
    BY DEF Init
  <2>5. 0 <= MaxQueue
    BY TimestampAssumption
  <2>6. first_pts \in Int /\ encode \subseteq Streams /\ stream \in Streams \cup {"none"}
    BY DEF Init
  <2>7. below \in BOOLEAN
    BY DEF Init
  <2> QED  BY <2>1, <2>2, <2>3, <2>4, <2>5, <2>6, <2>7 DEF TypeOK
<1>2. Anchored /\ Turn
  BY DEF Init, Anchored, Turn
<1>3. ASSUME NEW s \in Streams PROVE Waiting(s) /\ Fresh(s) /\ UnderWay(s)
  <2>1. queue[s] = << >> /\ Len(queue[s]) = 0
    BY DEF Init
  <2> QED  BY <2>1 DEF Init, Waiting, Fresh, UnderWay
<1> QED  BY <1>1, <1>2, <1>3 DEF IInv

------------------------------------------------------------------------------
\* What is said of a stream stands while nothing of it changes, nor anything of the muxer but
\* its choice, or which streams it still writes.
LEMMA Unmoved ==
  ASSUME IInv, NEW s \in Streams, queue'[s] = queue[s], arrived'[s] = arrived[s], newest'[s] = newest[s],
         encode' \subseteq encode, UNCHANGED <<first_pts, last_pts, written, below>>
  PROVE  Waiting(s)' /\ Fresh(s)' /\ UnderWay(s)'
<1>1. Waiting(s) /\ Fresh(s) /\ UnderWay(s)
  BY DEF IInv
<1>2. Waiting(s)'
  BY <1>1 DEF Waiting
<1>3. Fresh(s)'
  BY <1>1 DEF Fresh
<1>4. UnderWay(s)'
  <2> SUFFICES ASSUME s \in encode', written'[s].frames > 0
               PROVE  \E d \in Int : Follows(s, d)'
    BY DEF UnderWay
  <2>1. PICK d \in Int : Follows(s, d)
    BY <1>1 DEF UnderWay
  <2>2. encode' = Streams => encode = Streams
    BY DEF IInv, TypeOK
  <2>3. Follows(s, d)'
    BY <2>1, <2>2 DEF Follows
  <2> QED  BY <2>3
<1> QED  BY <1>2, <1>3, <1>4

LEMMA AnchoredStays ==
  ASSUME IInv, UNCHANGED <<first_pts, written, below>>
  PROVE  Anchored'
  BY DEF IInv, Anchored

LEMMA ArriveStep ==
  ASSUME IInv, NEW s \in Streams, NEW delay \in Delays, NEW dts \in Int, Arrive(s, dts, delay),
         IF arrived[s] = 0 THEN dts \in Starts ELSE dts - newest[s] \in Steps
  PROVE  IInv'
<1> DEFINE q == queue[s]
           frame == [dts |-> dts, pts |-> dts + delay]
<1>1. /\ q \in Seq([dts : Int, pts : Int]) /\ frame \in [dts : Int, pts : Int]
      /\ frame.dts = dts /\ frame.pts - frame.dts = delay /\ (s = "audio" => frame.pts = frame.dts)
      /\ Len(q) \in Nat /\ (q = << >> <=> Len(q) = 0)
  BY TimestampAssumption DEF IInv, TypeOK, Arrive
<1>2. /\ queue'[s] = Append(q, frame) /\ arrived'[s] = arrived[s] + 1 /\ newest'[s] = dts
      /\ \A u \in Streams \ {s} : queue'[u] = queue[u] /\ arrived'[u] = arrived[u] /\ newest'[u] = newest[u]
      /\ queue' = [queue EXCEPT ![s] = Append(q, frame)]
  BY DEF IInv, TypeOK, Arrive
<1>3. UNCHANGED <<first_pts, last_pts, encode, stream, written, below>>
  BY DEF Arrive
<1> HIDE DEF frame
<1>4. /\ queue'[s] \in Seq([dts : Int, pts : Int]) /\ Len(queue'[s]) = Len(q) + 1
      /\ \A i \in 1 .. Len(q) : queue'[s][i] = q[i]
      /\ queue'[s][Len(q) + 1] = frame
  BY <1>1, <1>2, AppendProperties
<1>5. TypeOK'
  <2>1. arrived'[s] \in 0 .. MaxFrames /\ Len(queue'[s]) <= MaxQueue
    <3>1. arrived[s] < MaxFrames /\ Len(q) < MaxQueue
      BY DEF Arrive
    <3>2. arrived[s] \in 0 .. MaxFrames /\ MaxFrames \in Nat /\ MaxQueue \in Nat
      BY TimestampAssumption DEF IInv, TypeOK
    <3>3. arrived'[s] = arrived[s] + 1 /\ Len(queue'[s]) = Len(q) + 1 /\ Len(q) \in Nat
      BY <1>1, <1>2, <1>4
    <3> HIDE DEF q
    <3> QED  BY <3>1, <3>2, <3>3
  <2>2. queue' \in [Streams -> Seq([dts : Int, pts : Int])]
    BY <1>2, <1>4 DEF IInv, TypeOK
  <2>3. arrived' \in [Streams -> 0 .. MaxFrames] /\ newest' \in [Streams -> Int]
    BY <1>2, <2>1 DEF IInv, TypeOK, Arrive
  <2>4. \A u \in Streams : Len(queue'[u]) <= MaxQueue /\ written'[u].frames + Len(queue'[u]) <= arrived'[u]
    <3>1. written[s].frames + Len(q) <= arrived[s] /\ written[s].frames \in Nat /\ arrived[s] \in Nat
      BY DEF IInv, TypeOK
    <3>2. Len(q) \in Nat /\ Len(queue'[s]) = Len(q) + 1 /\ arrived'[s] = arrived[s] + 1 /\ written'[s] = written[s]
      BY <1>1, <1>2, <1>3, <1>4
    <3>3. written'[s].frames + Len(queue'[s]) <= arrived'[s]
      <4> HIDE DEF q
      <4> QED  BY <3>1, <3>2
    <3>4. \A u \in Streams \ {s} : Len(queue'[u]) <= MaxQueue /\ written'[u].frames + Len(queue'[u]) <= arrived'[u]
      BY <1>2, <1>3 DEF IInv, TypeOK
    <3> QED  BY <2>1, <3>3, <3>4
  <2> QED  BY <1>3, <2>2, <2>3, <2>4 DEF IInv, TypeOK
<1>6. Anchored'
  BY <1>3, AnchoredStays
<1>7. Turn'
  BY <1>3 DEF IInv, Turn
<1>8. ASSUME NEW u \in Streams \ {s} PROVE Waiting(u)' /\ Fresh(u)' /\ UnderWay(u)'
  BY <1>2, <1>3, Unmoved
<1>9. Waiting(s)'
  <2>1. Waiting(s) /\ delay \in Delays /\ (q # << >> => arrived[s] # 0)
    BY <1>1, SMTT(30) DEF IInv, TypeOK
  <2>2. ASSUME NEW i \in 1 .. Len(queue'[s])
        PROVE  queue'[s][i].pts - queue'[s][i].dts \in Delays /\ (s = "audio" => queue'[s][i].pts = queue'[s][i].dts)
    <3>1. CASE i \in 1 .. Len(q)
      BY <1>4, <2>1, <3>1 DEF Waiting
    <3>2. CASE i = Len(q) + 1
      BY <1>1, <1>4, <2>1, <3>2
    <3>3. Len(q) \in Nat /\ Len(queue'[s]) = Len(q) + 1
      BY <1>1, <1>4
    <3>4. i \in 1 .. Len(q) \/ i = Len(q) + 1
      <4> HIDE DEF q
      <4> QED  BY <3>3
    <3> QED  BY <3>1, <3>2, <3>4
  <2>3. ASSUME NEW i \in 1 .. Len(queue'[s]) - 1
        PROVE  queue'[s][i + 1].dts - queue'[s][i].dts \in Steps
    <3>1. CASE i \in 1 .. Len(q) - 1
      <4>1. i \in 1 .. Len(q) /\ i + 1 \in 1 .. Len(q)
        BY <1>1, <3>1, SMTT(30)
      <4> QED  BY <1>4, <2>1, <3>1, <4>1 DEF Waiting
    <3>2. CASE i = Len(q)
      <4>1. i \in 1 .. Len(q) /\ q # << >>
        BY <1>1, <1>4, <2>3, <3>2
      <4>2. queue'[s][i] = q[i] /\ queue'[s][i + 1] = frame
        BY <1>4, <3>2, <4>1
      <4>3. q[i].dts = newest[s] /\ dts - newest[s] \in Steps
        BY <2>1, <3>2, <4>1 DEF Waiting
      <4> QED  BY <1>1, <4>2, <4>3
    <3>3. Len(q) \in Nat /\ Len(queue'[s]) = Len(q) + 1
      BY <1>1, <1>4
    <3>4. i \in 1 .. Len(q) - 1 \/ i = Len(q)
      <4> HIDE DEF q
      <4> QED  BY <3>3
    <3> QED  BY <3>1, <3>2, <3>4
  <2>4. queue'[s][Len(queue'[s])].dts = newest'[s]
    BY <1>1, <1>2, <1>4
  <2> QED  BY <2>2, <2>3, <2>4 DEF Waiting
<1>10. queue'[s] # << >> /\ (IF q = << >> THEN queue'[s][1] = frame ELSE queue'[s][1] = q[1])
  <2>1. /\ Len(q) \in Nat /\ Len(queue'[s]) = Len(q) + 1 /\ (q = << >> <=> Len(q) = 0)
        /\ \A i \in 1 .. Len(q) : queue'[s][i] = q[i]
        /\ queue'[s][Len(q) + 1] = frame
    BY <1>1, <1>4
  <2>2. queue'[s] # << >>
    <3>1. Len(queue'[s]) # 0
      <4> HIDE DEF q
      <4> QED  BY <2>1
    <3> QED  BY <3>1
  <2> HIDE DEF q
  <2>3. CASE q = << >>
    <3>1. Len(q) + 1 = 1
      BY <2>1, <2>3
    <3> QED  BY <2>1, <2>2, <2>3, <3>1
  <2>4. CASE q # << >>
    <3>1. 1 \in 1 .. Len(q)
      BY <2>1, <2>4
    <3> QED  BY <2>1, <2>2, <2>4, <3>1
  <2> QED  BY <2>3, <2>4
<1>11. Fresh(s)'
  <2>1. Fresh(s)
    BY DEF IInv
  <2> QED  BY <1>1, <1>3, <1>10, <2>1 DEF Fresh
<1>12. UnderWay(s)'
  <2> SUFFICES ASSUME s \in encode', written'[s].frames > 0
               PROVE  \E d \in Int : Follows(s, d)'
    BY DEF UnderWay
  <2>1. PICK d \in Int : Follows(s, d)
    BY <1>3 DEF UnderWay, IInv
  <2>2. arrived[s] # 0 /\ dts - newest[s] \in Steps
    BY <1>1, <1>3 DEF IInv, TypeOK
  <2>3. queue'[s][1].dts - d \in Steps
    BY <1>1, <1>10, <2>1, <2>2 DEF Follows
  <2>4. Follows(s, d)'
    BY <1>3, <1>10, <2>1, <2>3 DEF Follows
  <2> QED  BY <2>4
<1> QED  BY <1>5, <1>6, <1>7, <1>8, <1>9, <1>11, <1>12 DEF IInv

LEMMA SelectStep ==
  ASSUME IInv, Select
  PROVE  IInv'
<1>1. UNCHANGED <<queue, arrived, newest, first_pts, last_pts, encode, written, below>>
  BY DEF Select, source
<1>2. TypeOK' /\ Turn'
  <2>1. stream' \in Selected /\ encode \subseteq Streams /\ Streams = {"video", "audio"}
    BY DEF Select, IInv, TypeOK, Streams
  <2>2. last_pts["video"] \in Int /\ last_pts["audio"] \in Int
    BY <2>1 DEF IInv, TypeOK
  <2>3. stream' \in encode /\ (encode = Streams => last_pts[stream'] <= last_pts[Other(stream')])
    BY <2>1, <2>2 DEF Selected, Other
  <2>4. stream' \in Streams
    BY <2>1, <2>3
  <2> QED  BY <1>1, <2>3, <2>4 DEF IInv, TypeOK, Turn
<1>3. Anchored'
  BY <1>1, AnchoredStays
<1>4. ASSUME NEW u \in Streams PROVE Waiting(u)' /\ Fresh(u)' /\ UnderWay(u)'
  BY <1>1, Unmoved
<1> QED  BY <1>2, <1>3, <1>4 DEF IInv

LEMMA NoFrameStep ==
  ASSUME IInv, NEW s \in Streams, NoFrame(s)
  PROVE  IInv'
<1>1. /\ UNCHANGED <<arrived, newest, first_pts, last_pts, written, below>>
      /\ encode' = encode \ {s} /\ stream' = "none" /\ queue' = [queue EXCEPT ![s] = << >>]
      /\ queue'[s] = << >> /\ \A u \in Streams \ {s} : queue'[u] = queue[u]
  BY DEF NoFrame, IInv, TypeOK
<1>2. TypeOK'
  <2>1. queue' \in [Streams -> Seq([dts : Int, pts : Int])]
    BY <1>1 DEF IInv, TypeOK
  <2>2. \A u \in Streams : Len(queue'[u]) <= MaxQueue /\ written'[u].frames + Len(queue'[u]) <= arrived'[u]
    <3>1. Len(queue'[s]) = 0 /\ Len(queue[s]) \in Nat /\ written[s].frames \in Nat /\ arrived[s] \in Nat
      BY <1>1 DEF IInv, TypeOK
    <3>2. written[s].frames + Len(queue[s]) <= arrived[s] /\ MaxQueue \in Nat
      BY TimestampAssumption DEF IInv, TypeOK
    <3>3. Len(queue'[s]) <= MaxQueue /\ written'[s].frames + Len(queue'[s]) <= arrived'[s]
      BY <1>1, <3>1, <3>2
    <3>4. \A u \in Streams \ {s} : Len(queue'[u]) <= MaxQueue /\ written'[u].frames + Len(queue'[u]) <= arrived'[u]
      BY <1>1 DEF IInv, TypeOK
    <3> QED  BY <3>3, <3>4
  <2> QED  BY <1>1, <2>1, <2>2 DEF IInv, TypeOK
<1>3. Turn' /\ Anchored'
  BY <1>1, AnchoredStays DEF Turn
<1>4. ASSUME NEW u \in Streams \ {s} PROVE Waiting(u)' /\ Fresh(u)' /\ UnderWay(u)'
  BY <1>1, Unmoved
<1>5. Waiting(s)' /\ Fresh(s)' /\ UnderWay(s)'
  <2>1. Fresh(s) /\ Len(queue'[s]) = 0
    BY <1>1 DEF IInv
  <2>2. Waiting(s)'
    BY <1>1, <2>1 DEF Waiting
  <2> QED  BY <1>1, <2>1, <2>2 DEF Fresh, UnderWay
<1> QED  BY <1>2, <1>3, <1>4, <1>5 DEF IInv

------------------------------------------------------------------------------
\* The frame that write_frame is given, and what it makes of it.
LEMMA WriteMakes ==
  ASSUME IInv, NEW s \in Streams, Write(s)
  PROVE  LET frame == queue[s][1]
         IN  /\ frame \in [dts : Int, pts : Int] /\ s \in encode /\ queue[s] # << >>
             /\ frame.pts - frame.dts \in Delays /\ (s = "audio" => frame.pts = frame.dts)
             /\ first_pts' = Origin(frame.dts) /\ Shift(first_pts') \in Int /\ Origin(frame.dts) \in Int
             /\ last_pts' = [last_pts EXCEPT ![s] = frame.pts - Shift(first_pts')]
             /\ written' = [written EXCEPT ![s] =
                  [frames |-> written[s].frames + 1, pts |-> Rescale(frame.pts - Shift(first_pts')),
                   shift |-> Shift(first_pts'), dts |-> Rescale(frame.dts - Shift(first_pts'))]]
             /\ below' = (below \/ (frame.dts < 0 /\ \A u \in Streams : written[u].frames = 0))
             /\ queue' = [queue EXCEPT ![s] = Tail(queue[s])] /\ encode' \in {encode, encode \ {s}}
             /\ stream' = "none" /\ UNCHANGED <<arrived, newest>>
<1> DEFINE frame == queue[s][1]
<1>1. queue[s] # << >> /\ stream = s /\ s \in encode
  BY DEF Write, IInv, Turn, TypeOK, Streams
<1>2. Head(queue[s]) = frame /\ frame \in [dts : Int, pts : Int] /\ 1 \in 1 .. Len(queue[s])
  <2>1. queue[s] \in Seq([dts : Int, pts : Int])
    BY DEF IInv, TypeOK
  <2>2. 1 \in 1 .. Len(queue[s])
    BY <1>1, <2>1
  <2>3. queue[s][1] \in [dts : Int, pts : Int]
    BY <2>1, <2>2, ElementOfSeq
  <2>4. Head(queue[s]) = queue[s][1]
    BY <1>1, <2>1
  <2> QED  BY <2>2, <2>3, <2>4
<1>3. frame.pts - frame.dts \in Delays /\ (s = "audio" => frame.pts = frame.dts)
  BY <1>2 DEF IInv, Waiting
<1>4. Origin(frame.dts) \in Int /\ first_pts' = Origin(frame.dts) /\ Shift(first_pts') \in Int
  <2>1. first_pts' = Origin(frame.dts)
    BY <1>2 DEF Write
  <2>2. frame.dts \in Int /\ first_pts \in Int
    BY <1>2 DEF IInv, TypeOK
  <2>3. Origin(frame.dts) \in Int
    BY <2>2 DEF Origin
  <2> QED  BY <2>1, <2>3 DEF Shift
<1>5. /\ written' = [written EXCEPT ![s] =
           [frames |-> written[s].frames + 1, pts |-> Rescale(frame.pts - Shift(first_pts')),
            shift |-> Shift(first_pts'),
            dts |-> Rescale(IF s = "audio" THEN frame.pts - Shift(first_pts') ELSE frame.dts - Shift(first_pts'))]]
      /\ last_pts' = [last_pts EXCEPT ![s] = frame.pts - Shift(first_pts')]
      /\ below' = (below \/ (frame.dts < 0 /\ \A u \in Streams : written[u].frames = 0))
  BY <1>2, <1>4 DEF Write, Remember
<1>6. (IF s = "audio" THEN frame.pts - Shift(first_pts') ELSE frame.dts - Shift(first_pts')) = frame.dts - Shift(first_pts')
  BY <1>3
<1>7. /\ queue' = [queue EXCEPT ![s] = Tail(queue[s])] /\ encode' \in {encode, encode \ {s}}
      /\ stream' = "none" /\ UNCHANGED <<arrived, newest>>
  BY DEF Write, Dequeue
<1> QED  BY <1>1, <1>2, <1>3, <1>4, <1>5, <1>6, <1>7

LEMMA WriteStep ==
  ASSUME IInv, NEW s \in Streams, Write(s)
  PROVE  /\ IInv'
         /\ \A u \in Streams : ~below' /\ written[u].frames > 0 => written'[u].dts >= written[u].dts
<1> DEFINE q == queue[s]
           o == Other(s)
<1>0. o \in Streams /\ o # s /\ Streams = {s, o} /\ Other(o) = s /\ s # "none"
  BY Others
<1>1. PICK frame \in [dts : Int, pts : Int] : frame = q[1]
  BY WriteMakes
<1>2. /\ s \in encode /\ q # << >> /\ frame.pts - frame.dts \in Delays /\ (s = "audio" => frame.pts = frame.dts)
      /\ first_pts' = Origin(frame.dts) /\ Shift(first_pts') \in Int /\ first_pts' \in Int
      /\ below' = (below \/ (frame.dts < 0 /\ \A u \in Streams : written[u].frames = 0))
      /\ encode' \in {encode, encode \ {s}} /\ encode' \subseteq encode
      /\ stream' = "none" /\ UNCHANGED <<arrived, newest>>
  BY <1>1, WriteMakes
<1>3. /\ written'[s] = [frames |-> written[s].frames + 1, pts |-> Rescale(frame.pts - Shift(first_pts')),
                        shift |-> Shift(first_pts'), dts |-> Rescale(frame.dts - Shift(first_pts'))]
      /\ written' = [written EXCEPT ![s] = written'[s]]
      /\ last_pts'[s] = frame.pts - Shift(first_pts')
      /\ last_pts' = [last_pts EXCEPT ![s] = frame.pts - Shift(first_pts')]
      /\ written'[o] = written[o] /\ last_pts'[o] = last_pts[o]
  <2> DEFINE record == [frames |-> written[s].frames + 1, pts |-> Rescale(frame.pts - Shift(first_pts')),
                        shift |-> Shift(first_pts'), dts |-> Rescale(frame.dts - Shift(first_pts'))]
             shown == frame.pts - Shift(first_pts')
  <2>1. written' = [written EXCEPT ![s] = record] /\ last_pts' = [last_pts EXCEPT ![s] = shown]
    BY <1>1, WriteMakes
  <2>2. DOMAIN written = Streams /\ DOMAIN last_pts = Streams
    BY DEF IInv, TypeOK
  <2> HIDE DEF record, shown
  <2>3. written'[s] = record /\ last_pts'[s] = shown /\ written'[o] = written[o] /\ last_pts'[o] = last_pts[o]
    BY <1>0, <2>1, <2>2
  <2>4. written' = [written EXCEPT ![s] = written'[s]]
    BY <2>1, <2>3
  <2> QED  BY <2>1, <2>3, <2>4 DEF record, shown
<1>4. queue' = [queue EXCEPT ![s] = Tail(q)] /\ queue'[s] = Tail(q) /\ queue'[o] = queue[o]
  <2>1. queue' = [queue EXCEPT ![s] = Tail(q)]
    BY <1>1, WriteMakes
  <2>2. DOMAIN queue = Streams
    BY DEF IInv, TypeOK
  <2> QED  BY <1>0, <2>1, <2>2
<1>numeric. last_pts[s] \in Int /\ last_pts[o] \in Int /\ first_pts \in Int
  BY <1>0 DEF IInv, TypeOK
<1>5. q \in Seq([dts : Int, pts : Int]) /\ Len(q) \in Nat \ {0} /\ written[s].frames \in Nat /\ written[o].frames \in Nat
  BY <1>0, <1>2 DEF IInv, TypeOK
<1>6. /\ Tail(q) \in Seq([dts : Int, pts : Int]) /\ Len(Tail(q)) = Len(q) - 1
      /\ \A i \in 1 .. Len(q) - 1 : Tail(q)[i] = q[i + 1]
      /\ (Tail(q) = << >> <=> Len(q) = 1)
  <2>1. /\ Tail(q) \in Seq([dts : Int, pts : Int]) /\ Len(Tail(q)) = Len(q) - 1
        /\ \A i \in 1 .. Len(q) - 1 : Tail(q)[i] = q[i + 1]
    BY <1>2, <1>5, HeadTailProperties
  <2>2. \A x \in Seq([dts : Int, pts : Int]) : x = << >> <=> Len(x) = 0
    OBVIOUS
  <2>3. Tail(q) = << >> <=> Len(Tail(q)) = 0
    BY <2>1, <2>2
  <2>4. Len(q) - 1 = 0 <=> Len(q) = 1
    BY <1>5
  <2> QED  BY <2>1, <2>3, <2>4
<1>7. written'[s].frames = written[s].frames + 1 /\ written'[s].frames > 0
  BY <1>3, <1>5
<1> HIDE DEF q, o
\* If the first frame of all is not below 0, its dts is what is taken off, now and later.
<1>8. ASSUME ~below'
      PROVE  /\ ~below /\ first_pts' \in Starts /\ first_pts' >= 0 /\ Shift(first_pts') = first_pts'
             /\ written[s].frames > 0 \/ written[o].frames > 0 => first_pts' = first_pts
             /\ written[s].frames = 0 /\ written[o].frames = 0 => first_pts' = frame.dts
             /\ written[s].frames = 0 => frame.dts \in Starts
  <2>1. ~below /\ (frame.dts >= 0 \/ written[s].frames # 0 \/ written[o].frames # 0)
    <3>1. ~below /\ ~(frame.dts < 0 /\ \A u \in Streams : written[u].frames = 0)
      BY <1>2, <1>8
    <3> QED  BY <1>0, <3>1
  <2>2. written[s].frames = 0 => frame.dts \in Starts
    BY <1>1, <1>2 DEF IInv, Fresh, q
  <2>3. CASE written[s].frames = 0 /\ written[o].frames = 0
    <3>1. first_pts = -1 /\ frame.dts >= 0
      BY <1>0, <2>1, <2>3 DEF IInv, Anchored
    <3>2. first_pts' = frame.dts
      BY <1>2, <3>1 DEF Origin
    <3> QED  BY <1>1, <2>1, <2>2, <2>3, <3>1, <3>2 DEF Shift
  <2>4. CASE written[s].frames > 0 \/ written[o].frames > 0
    <3>1. first_pts \in Starts /\ first_pts >= 0 /\ first_pts \in Int
      BY <1>0, <2>1, <2>4 DEF IInv, Anchored, TypeOK
    <3>2. first_pts' = first_pts
      BY <1>2, <3>1 DEF Origin
    <3> QED  BY <1>5, <2>1, <2>2, <2>4, <3>1, <3>2 DEF Shift
  <2> QED  BY <1>5, <2>3, <2>4
<1>9. TypeOK'
  <2>1. written'[s] \in [frames : Nat, dts : Int, pts : Int, shift : Int]
    <3>1. frame.dts - Shift(first_pts') \in Int /\ frame.pts - Shift(first_pts') \in Int
      BY <1>2
    <3>2. Rescale(frame.dts - Shift(first_pts')) \in Int /\ Rescale(frame.pts - Shift(first_pts')) \in Int
      BY <3>1, RescaleMonotone
    <3>3. written[s].frames + 1 \in Nat
      BY <1>5
    <3> QED  BY <1>2, <1>3, <3>2, <3>3
  <2>2. written' \in [Streams -> [frames : Nat, dts : Int, pts : Int, shift : Int]]
    BY <1>3, <2>1 DEF IInv, TypeOK
  <2>3. queue' \in [Streams -> Seq([dts : Int, pts : Int])]
    BY <1>4, <1>6 DEF IInv, TypeOK
  <2>4. last_pts' \in [Streams -> Int]
    BY <1>2, <1>3, SMTT(30) DEF IInv, TypeOK
  <2>5. ASSUME NEW u \in Streams
        PROVE  Len(queue'[u]) <= MaxQueue /\ written'[u].frames + Len(queue'[u]) <= arrived'[u]
    <3>1. CASE u = s
      <4>1. written[s].frames + Len(q) <= arrived[s] /\ Len(q) <= MaxQueue /\ arrived[s] \in Nat /\ MaxQueue \in Nat
        BY TimestampAssumption DEF IInv, TypeOK, q
      <4>2. Len(queue'[s]) = Len(q) - 1 /\ arrived'[s] = arrived[s]
        BY <1>2, <1>4, <1>6
      <4>3. written'[s].frames + Len(queue'[s]) = written[s].frames + Len(q) /\ Len(queue'[s]) <= MaxQueue
        <5>1. written'[s].frames = written[s].frames + 1
          BY <1>7
        <5>2. Len(queue'[s]) = Len(q) - 1 /\ Len(q) \in Nat /\ written[s].frames \in Nat /\ MaxQueue \in Nat /\ Len(q) <= MaxQueue
          BY <1>5, <4>1, <4>2
        <5>3. written'[s].frames + Len(queue'[s]) = (written[s].frames + 1) + (Len(q) - 1)
          BY <5>1, <5>2
        <5> QED  BY <5>2, <5>3
      <4> QED  BY <3>1, <4>1, <4>2, <4>3
    <3>2. CASE u = o
      BY <1>0, <1>2, <1>3, <1>4, <3>2 DEF IInv, TypeOK
    <3> QED  BY <1>0, <3>1, <3>2
  <2>6. below' \in BOOLEAN
    BY <1>2 DEF IInv, TypeOK
  <2> QED  BY <1>2, <2>2, <2>3, <2>4, <2>5, <2>6 DEF IInv, TypeOK
<1>10. Anchored'
  <2>1. ASSUME ~below', NEW u \in Streams, written'[u].frames > 0
        PROVE  written'[u].shift = first_pts'
    <3>1. CASE u = s
      BY <1>3, <1>8, <2>1, <3>1
    <3>2. CASE u = o
      <4>1. written[o].shift = first_pts /\ first_pts' = first_pts
        BY <1>0, <1>3, <1>8, <2>1, <3>2 DEF IInv, Anchored
      <4> QED  BY <1>3, <3>2, <4>1
    <3> QED  BY <1>0, <3>1, <3>2
  <2>2. ~\A u \in Streams : written'[u].frames = 0
    BY <1>7
  <2>3. ~below' => first_pts' \in Starts /\ first_pts' >= 0
    BY <1>8
  <2> QED  BY <2>1, <2>2, <2>3 DEF Anchored
<1>11. Turn'
  BY <1>2 DEF Turn
<1>12. Waiting(s)'
  <2>1. Waiting(s)
    BY DEF IInv
  <2>2. Len(queue'[s]) = Len(q) - 1 /\ \A i \in 1 .. Len(q) - 1 : queue'[s][i] = q[i + 1] /\ i + 1 \in 1 .. Len(q)
    <3>1. \A i \in 1 .. Len(q) - 1 : i + 1 \in 1 .. Len(q)
      BY <1>5
    <3> QED  BY <1>4, <1>6, <3>1
  <2>3. \A i \in 1 .. Len(queue'[s]) :
          queue'[s][i].pts - queue'[s][i].dts \in Delays /\ (s = "audio" => queue'[s][i].pts = queue'[s][i].dts)
    BY <2>1, <2>2 DEF Waiting, q
  <2>4. ASSUME NEW i \in 1 .. Len(queue'[s]) - 1
        PROVE  queue'[s][i + 1].dts - queue'[s][i].dts \in Steps
    <3>1. i \in 1 .. Len(q) - 1 /\ i + 1 \in 1 .. Len(q) - 1
      BY <1>5, <2>2
    <3>2. queue'[s][i] = q[i + 1] /\ queue'[s][i + 1] = q[(i + 1) + 1]
      BY <2>2, <3>1
    <3> QED  BY <2>1, <3>1, <3>2 DEF Waiting, q
  <2>5. queue'[s] # << >> => queue'[s][Len(queue'[s])].dts = newest'[s]
    <3> SUFFICES ASSUME queue'[s] # << >> PROVE queue'[s][Len(queue'[s])].dts = newest'[s]
      OBVIOUS
    <3>1. Len(q) - 1 \in 1 .. Len(q) - 1
      BY <1>4, <1>5, <1>6
    <3>2. queue'[s][Len(queue'[s])] = q[Len(q)]
      BY <1>5, <2>2, <3>1
    <3> QED  BY <1>2, <2>1, <3>2 DEF Waiting, q
  <2> QED  BY <2>3, <2>4, <2>5 DEF Waiting
<1>13. Waiting(o)' /\ Fresh(o)' /\ Fresh(s)'
  <2>1. Waiting(o) /\ Fresh(o)
    BY <1>0 DEF IInv
  <2>2. Waiting(o)'
    BY <1>2, <1>4, <2>1 DEF Waiting
  <2>3. Fresh(o)'
    BY <1>2, <1>3, <1>4, <2>1 DEF Fresh
  <2> QED  BY <1>7, <2>2, <2>3 DEF Fresh

<1>14. ASSUME s \in encode', NEW d \in Int, written[s].frames > 0 => Follows(s, d)
       PROVE  /\ queue'[s] = << >> => newest'[s] = frame.dts
              /\ queue'[s] # << >> => queue'[s][1].dts - frame.dts \in Steps
              /\ written[s].frames > 0 => frame.dts - d \in Steps
  <2>1. Waiting(s) /\ Len(q) - 1 \in Nat
    BY <1>5 DEF IInv
  <2>2. queue'[s] = << >> => newest'[s] = frame.dts
    BY <1>1, <1>2, <1>4, <1>6, <2>1 DEF Waiting, q
  <2>3. ASSUME queue'[s] # << >> PROVE queue'[s][1].dts - frame.dts \in Steps
    <3>1. 1 \in 1 .. Len(q) - 1
      BY <1>4, <1>5, <1>6, <2>3
    <3>2. queue'[s][1] = q[1 + 1] /\ q[1 + 1].dts - q[1].dts \in Steps
      BY <1>4, <1>6, <2>1, <3>1 DEF Waiting, q
    <3> QED  BY <1>1, <3>2
  <2>4. written[s].frames > 0 => frame.dts - d \in Steps
    BY <1>1, <1>2, <1>14 DEF Follows, q
  <2> QED  BY <2>2, <2>3, <2>4
\* The bounds of the constants, as far as they are needed here.
<1>15. /\ frame.pts - frame.dts \in Nat /\ frame.dts \in Int /\ frame.pts \in Int
       /\ Leap \in Int /\ MaxLag \in Int /\ 0 <= Leap /\ Leap <= MaxLag
       /\ \A step \in Steps : step \in Nat \ {0} /\ step + (frame.pts - frame.dts) <= Leap
       /\ \A step \in Steps, delay \in Delays : step + delay <= Leap
       /\ frame.pts - frame.dts <= Leap
  <2>1. frame.dts \in Int /\ frame.pts \in Int /\ frame.pts - frame.dts \in Nat
    BY <1>2, TimestampAssumption
  <2>2. \A step \in Steps, delay \in Delays : step + delay <= Leap
    BY Lags
  <2>3. \A step \in Steps : step \in Nat \ {0} /\ step + (frame.pts - frame.dts) <= Leap
    BY <1>2, <2>2, TimestampAssumption
  <2>4. PICK step \in Steps : TRUE
    BY TimestampAssumption
  <2>5. frame.pts - frame.dts <= Leap
    <3>1. step \in Nat /\ step + (frame.pts - frame.dts) <= Leap /\ Leap \in Int
      BY <2>3, Lags
    <3> QED  BY <2>1, <3>1
  <2> QED  BY <2>1, <2>2, <2>3, <2>5, Lags

<1>16. UnderWay(s)'
  <2> SUFFICES ASSUME s \in encode' PROVE Follows(s, frame.dts)'
    BY <1>1 DEF UnderWay
  <2>1. PICK d \in Int : written[s].frames > 0 => Follows(s, d)
    BY <1>2 DEF IInv, UnderWay
  <2>2. PICK e \in Int : written[o].frames > 0 /\ encode = Streams => Follows(o, e)
    BY <1>0 DEF IInv, UnderWay
  <2>3. /\ IF queue'[s] = << >> THEN newest'[s] = frame.dts ELSE queue'[s][1].dts - frame.dts \in Steps
        /\ written[s].frames > 0 => frame.dts - d \in Steps
    BY <1>14, <2>1
  <2>4. ASSUME ~below'
        PROVE  /\ written'[s].dts = Rescale(frame.dts - first_pts')
               /\ last_pts'[s] - (frame.dts - first_pts') \in Delays
               /\ s = "audio" => last_pts'[s] = frame.dts - first_pts'
    <3>1. Shift(first_pts') = first_pts'
      BY <1>8, <2>4
    <3>2. last_pts'[s] = frame.pts - first_pts' /\ (frame.pts - first_pts') - (frame.dts - first_pts') = frame.pts - frame.dts
      BY <1>2, <1>3, <3>1
    <3> QED  BY <1>2, <1>3, <3>1, <3>2
  <2>5. ASSUME ~below', encode' = Streams
        PROVE  IF written'[o].frames = 0
                 THEN frame.dts >= first_pts' /\ last_pts'[s] <= Leap
                 ELSE last_pts'[o] - (frame.dts - first_pts') <= MaxLag
    <3>1. encode = Streams /\ ~below /\ stream = s
      BY <1>2, <1>8, <2>5 DEF IInv, TypeOK, Write
    <3>2. /\ last_pts[s] <= last_pts[o] /\ last_pts[s] \in Int /\ last_pts[o] \in Int
          /\ first_pts \in Int /\ first_pts' \in Int /\ first_pts' >= 0
      <4>1. last_pts[s] <= last_pts[o]
        BY <1>0, <3>1 DEF IInv, Turn, o
      <4> QED  BY <1>numeric, <1>2, <1>8, <2>5, <4>1
    <3>3. last_pts'[s] = frame.pts - first_pts' /\ last_pts'[o] = last_pts[o] /\ written'[o] = written[o]
      BY <1>3, <1>8, <2>5
    <3>4. written[o].frames = 0 => last_pts[o] = 0
      BY <1>0 DEF IInv, Fresh
    <3>5. CASE written[s].frames = 0 /\ written[o].frames = 0
      <4>1. first_pts' = frame.dts
        BY <1>8, <2>5, <3>5
      <4> QED  BY <1>15, <3>3, <3>5, <4>1
    <3>6. CASE written[s].frames > 0 /\ written[o].frames = 0
      <4>1. first_pts' = first_pts /\ frame.dts - d \in Steps
        BY <1>8, <2>3, <2>5, <3>6
      <4>2. d >= first_pts /\ last_pts[s] - (d - first_pts) \in Nat
        BY <1>0, <2>1, <3>1, <3>6, TimestampAssumption DEF Follows, o
      <4> QED  BY <1>15, <3>2, <3>3, <3>4, <3>6, <4>1, <4>2
    <3>7. CASE written[s].frames = 0 /\ written[o].frames > 0
      <4>1. first_pts' = first_pts /\ frame.dts \in Starts /\ first_pts \in Starts
        BY <1>8, <2>5, <3>7
      <4>2. last_pts[o] <= Leap
        BY <1>0, <2>2, <3>1, <3>7 DEF Follows
      <4>3. first_pts - frame.dts + Leap <= MaxLag
        BY <4>1, Lags
      <4> QED  BY <1>15, <3>2, <3>3, <3>7, <4>1, <4>2, <4>3
    <3>8. CASE written[s].frames > 0 /\ written[o].frames > 0
      <4>1. first_pts' = first_pts /\ frame.dts - d \in Steps
        BY <1>8, <2>3, <2>5, <3>8
      <4>2. last_pts[o] - (d - first_pts) <= MaxLag
        BY <2>1, <3>1, <3>8 DEF Follows, o
      <4> QED  BY <1>15, <3>2, <3>3, <3>8, <4>1, <4>2
    <3> QED  BY <1>5, <3>5, <3>6, <3>7, <3>8
  <2> QED  BY <2>3, <2>4, <2>5 DEF Follows, o
<1>17. UnderWay(o)'
  <2> SUFFICES ASSUME o \in encode', written'[o].frames > 0
               PROVE  \E e \in Int : Follows(o, e)'
    BY DEF UnderWay
  <2>1. PICK e \in Int : Follows(o, e)
    BY <1>0, <1>2, <1>3 DEF IInv, UnderWay
  <2>2. PICK d \in Int : written[s].frames > 0 => Follows(s, d)
    BY <1>2 DEF IInv, UnderWay
  <2>3. IF queue'[o] = << >> THEN newest'[o] = e ELSE queue'[o][1].dts - e \in Steps
    BY <1>2, <1>4, <2>1 DEF Follows
  <2>4. ASSUME ~below'
        PROVE  /\ written'[o].dts = Rescale(e - first_pts')
               /\ last_pts'[o] - (e - first_pts') \in Delays
               /\ o = "audio" => last_pts'[o] = e - first_pts'
    BY <1>3, <1>8, <2>1, <2>4 DEF Follows
  <2>5. ASSUME ~below', encode' = Streams
        PROVE  written'[s].frames # 0 /\ last_pts'[s] - (e - first_pts') <= MaxLag
    <3>1. encode = Streams /\ ~below /\ stream = s /\ s \in encode'
      BY <1>2, <1>8, <2>5 DEF IInv, TypeOK, Write
    <3>2. /\ last_pts[s] <= last_pts[o] /\ last_pts[s] \in Int /\ last_pts[o] \in Int
          /\ first_pts \in Int /\ first_pts' = first_pts
      <4>1. last_pts[s] <= last_pts[o]
        BY <1>0, <3>1 DEF IInv, Turn, o
      <4>2. first_pts' = first_pts
        BY <1>3, <1>8, <2>5
      <4> QED  BY <1>numeric, <4>1, <4>2
    <3>3. last_pts'[s] = frame.pts - first_pts
      BY <1>3, <1>8, <2>5, <3>2
    <3>4. last_pts[o] - (e - first_pts) \in Delays /\ (o = "audio" => last_pts[o] = e - first_pts)
      BY <2>1, <3>1 DEF Follows
    <3>5. CASE written[s].frames = 0
      <4>1. frame.dts \in Starts /\ first_pts \in Starts /\ e >= first_pts
        BY <1>0, <1>8, <2>1, <2>5, <3>1, <3>2, <3>5 DEF Follows
      <4>2. frame.dts - first_pts + Leap <= MaxLag
        BY <4>1, Lags
      <4> QED  BY <1>7, <1>15, <3>3, <4>1, <4>2, <3>2
    <3>6. CASE written[s].frames > 0
      <4>1. frame.dts - d \in Steps
        BY <1>14, <2>2, <3>1, <3>6
      <4>2. last_pts[s] - (d - first_pts) \in Delays
        BY <2>2, <3>1, <3>6 DEF Follows
      <4>3. d - first_pts <= e - first_pts + (last_pts[o] - (e - first_pts))
        BY <3>2, <4>2, TimestampAssumption
      <4>4. frame.pts = frame.dts \/ last_pts[o] = e - first_pts
        BY <1>0, <1>2, <3>4 DEF Streams
      <4>5. /\ (frame.dts - d) + (last_pts[o] - (e - first_pts)) <= Leap
            /\ (frame.dts - d) + (frame.pts - frame.dts) <= Leap
        BY <1>15, <3>4, <4>1
      <4> QED  BY <1>7, <1>15, <3>2, <3>3, <4>3, <4>4, <4>5
    <3> QED  BY <1>5, <3>5, <3>6
  <2> QED  BY <1>0, <2>3, <2>4, <2>5 DEF Follows
<1>18. ASSUME NEW u \in Streams, ~below', written[u].frames > 0
       PROVE  written'[u].dts >= written[u].dts
  <2>1. CASE u = o
    <3>1. written[o].dts \in Int
      BY <1>0 DEF IInv, TypeOK
    <3> QED  BY <1>3, <2>1, <3>1
  <2>2. CASE u = s
    <3>1. PICK d \in Int : Follows(s, d)
      BY <1>2, <1>18, <2>2 DEF IInv, UnderWay
    <3>2. written[s].dts = Rescale(d - first_pts) /\ first_pts' = first_pts /\ Shift(first_pts') = first_pts
      BY <1>8, <1>18, <2>2, <3>1 DEF Follows
    <3>3. frame.dts - d \in Nat
      BY <1>1, <1>2, <3>1, TimestampAssumption DEF Follows, q
    <3>4. d - first_pts <= frame.dts - first_pts /\ d - first_pts \in Int /\ frame.dts - first_pts \in Int
      BY <1>2, <3>2, <3>3
    <3>5. Rescale(d - first_pts) <= Rescale(frame.dts - first_pts) /\ Rescale(d - first_pts) \in Int
          /\ Rescale(frame.dts - first_pts) \in Int
      BY <3>4, RescaleMonotone
    <3> QED  BY <1>3, <2>2, <3>2, <3>5
  <2> QED  BY <1>0, <2>1, <2>2
<1> QED
  <2>1. \A u \in Streams : Waiting(u)' /\ Fresh(u)' /\ UnderWay(u)'
    BY <1>0, <1>12, <1>13, <1>16, <1>17
  <2> QED  BY <1>9, <1>10, <1>11, <1>18, <2>1 DEF IInv
------------------------------------------------------------------------------
\* What holds of every step.
LEMMA NextInv ==
  ASSUME IInv, [Next]_vars
  PROVE  /\ IInv'
         /\ \A u \in Streams : ~below' /\ written[u].frames > 0 => written'[u].dts >= written[u].dts
<1>1. \A u \in Streams : written[u].dts \in Int
  BY DEF IInv, TypeOK
<1>2. ASSUME NEW s \in Streams, NEW delay \in Delays, NEW dts \in Starts, arrived[s] = 0, Arrive(s, dts, delay)
      PROVE  IInv' /\ written' = written
  <2>1. dts \in Int
    BY TimestampAssumption
  <2> QED  BY <1>2, <2>1, ArriveStep DEF Arrive
<1>3. ASSUME NEW s \in Streams, NEW delay \in Delays, NEW step \in Steps, arrived[s] # 0, Arrive(s, newest[s] + step, delay)
      PROVE  IInv' /\ written' = written
  <2>1. newest[s] + step \in Int /\ (newest[s] + step) - newest[s] = step
    <3>1. newest[s] \in Int /\ step \in Nat
      BY TimestampAssumption DEF IInv, TypeOK
    <3> QED  BY <3>1
  <2>2. PICK dts \in Int : dts = newest[s] + step
    BY <2>1
  <2>3. dts - newest[s] \in Steps /\ Arrive(s, dts, delay)
    BY <1>3, <2>1, <2>2
  <2> QED  BY <1>3, <2>3, ArriveStep DEF Arrive
<1>4. CASE Select
  BY <1>1, <1>4, SelectStep DEF Select
<1>5. ASSUME NEW s \in Streams, NoFrame(s) PROVE IInv' /\ written' = written
  BY <1>5, NoFrameStep DEF NoFrame
<1>6. CASE UNCHANGED vars
  <2>1. UNCHANGED <<queue, arrived, newest, first_pts, last_pts, encode, stream, written, below>>
    BY <1>6 DEF vars, source
  <2>2. TypeOK' /\ Turn'
    BY <2>1 DEF IInv, TypeOK, Turn
  <2>3. Anchored'
    BY <2>1, AnchoredStays
  <2>4. \A u \in Streams : Waiting(u)' /\ Fresh(u)' /\ UnderWay(u)'
    BY <2>1, Unmoved
  <2> QED  BY <1>1, <2>1, <2>2, <2>3, <2>4 DEF IInv
<1>7. CASE Next
  BY <1>1, <1>2, <1>3, <1>4, <1>5, <1>7, WriteStep DEF Next, NextFrame, Mux
<1> QED  BY <1>6, <1>7

\* The inductive invariant holds in every behaviour.
THEOREM Invariance == Spec => []IInv
<1>1. IInv /\ [Next]_vars => IInv'
  BY NextInv
<1> QED  BY <1>1, InitInv, PTL DEF Spec

\* write_frame takes the same off the stamps of both streams, whatever these are, unless the
\* first frame of all has a negative dts.  With the types.
THEOREM OneOrigin == Spec => []SameOrigin
<1>1. IInv => SameOrigin
  <2>1. Streams = {"video", "audio"}
    BY DEF Streams
  <2> QED  BY <2>1 DEF IInv, Anchored, SameOrigin
<1> QED  BY <1>1, Invariance, PTL

LEMMA Apart ==
  ASSUME IInv
  PROVE  Interleaved
<1> SUFFICES ASSUME encode = Streams, ~below, NEW s \in Streams
             PROVE  last_pts[s] - last_pts[Other(s)] <= MaxLag
  BY DEF Interleaved
<1> DEFINE o == Other(s)
<1>1. /\ o \in Streams /\ Other(o) = s
      /\ last_pts[s] \in Int /\ last_pts[o] \in Int /\ first_pts \in Int
      /\ written[s].frames \in Nat /\ written[o].frames \in Nat
  BY Others DEF IInv, TypeOK
<1>2. Leap \in Int /\ MaxLag \in Int /\ 0 <= Leap /\ Leap <= MaxLag
  BY Lags
<1>3. /\ written[s].frames = 0 => last_pts[s] = 0
      /\ written[o].frames = 0 => last_pts[o] = 0
  BY <1>1 DEF IInv, Fresh
<1>4. PICK d \in Int : written[s].frames > 0 => Follows(s, d)
  BY DEF IInv, UnderWay
<1>5. PICK e \in Int : written[o].frames > 0 => Follows(o, e)
  BY <1>1 DEF IInv, UnderWay
<1> HIDE DEF o
<1>6. CASE written[s].frames = 0 /\ written[o].frames = 0
  BY <1>1, <1>2, <1>3, <1>6 DEF o
<1>7. CASE written[s].frames > 0 /\ written[o].frames = 0
  <2>1. last_pts[s] <= Leap
    BY <1>4, <1>7 DEF Follows, o
  <2> QED  BY <1>1, <1>2, <1>3, <1>7, <2>1 DEF o
<1>8. CASE written[o].frames > 0
  <2>1. last_pts[o] - (e - first_pts) \in Nat
    BY <1>5, <1>8, TimestampAssumption DEF Follows
  <2>2. written[s].frames = 0 => e >= first_pts
    BY <1>1, <1>5, <1>8 DEF Follows
  <2>3. written[s].frames > 0 => last_pts[s] - (e - first_pts) <= MaxLag
    BY <1>1, <1>5, <1>8 DEF Follows
  <2>4. CASE written[s].frames = 0
    BY <1>1, <1>2, <1>3, <2>1, <2>2, <2>4 DEF o
  <2>5. CASE written[s].frames > 0
    BY <1>1, <1>2, <2>1, <2>3, <2>5 DEF o
  <2> QED  BY <1>1, <2>4, <2>5
<1> QED  BY <1>1, <1>6, <1>7, <1>8

\* What mux_thread hands to libavformat stays interleaved: the last stamps of the streams are
\* no further apart than a step, a reordered frame and the streams' starts are, unless the
\* first dts of all is negative.
THEOREM StaysInterleaved == Spec => []Interleaved
<1>1. IInv => Interleaved
  BY Apart
<1> QED  BY <1>1, Invariance, PTL

\* A stream's dts never goes back, for Rescale keeps the order of its stamps, unless the
\* first dts of all is negative, for then the origin moves between two frames.
THEOREM DtsRises == Spec => DtsNeverGoesBack
<1>1. IInv /\ [Next]_vars =>
        [\A s \in Streams : ~below' /\ written[s].frames > 0 => written'[s].dts >= written[s].dts]_vars
  BY NextInv
<1> QED  BY <1>1, Invariance, PTL DEF Spec, DtsNeverGoesBack
------------------------------------------------------------------------------
Whole == \E n \in Nat : mPcmSize = n * size

\* The last encoded's stamp is one packet before its end.
LastStamp == encoded # NoPcmFrame => encoded.pts + size = start

PcmIInv == PcmTypeOK /\ Whole /\ BytesInOrder /\ InBounds /\ LastStamp

\* Fewer than k packets leave room for another.
LEMMA Room ==
  ASSUME NEW n \in Nat, NEW k \in Nat, NEW s \in Nat \ {0}, n * s < k * s
  PROVE  (n + 1) * s <= k * s /\ (n + 1) * s = n * s + s
  <1>1. n < k
    <2> SUFFICES ASSUME k <= n PROVE FALSE
      OBVIOUS
    <2>1. PICK d \in Nat : n = k + d
      OBVIOUS
    <2>2. n * s = k * s + d * s /\ d * s \in Nat
      BY <2>1
    <2> QED BY <2>2
  <1>2. PICK d \in Nat : k = (n + 1) + d
    BY <1>1
  <1>3. k * s = (n + 1) * s + d * s /\ d * s \in Nat
    BY <1>2
  <1>4. (n + 1) * s = n * s + s /\ (n + 1) * s \in Nat
    OBVIOUS
  <1> QED BY <1>3, <1>4

\* Packets that fit never overrun the buffer.
LEMMA StaysInBounds ==
  ASSUME PcmIInv, Fits, mPCMBuffer
  PROVE  mPcmSize + size <= BufferSize
  <1>1. size \in Nat \ {0} /\ mPcmSize < BufferSize
    BY PcmAssumption DEF PcmIInv, PcmTypeOK
  <1>2. PICK n \in Nat : mPcmSize = n * size
    BY DEF PcmIInv, Whole
  <1>3. PICK k \in 1 .. BufferSize : BufferSize = k * size
    BY DEF Fits
  <1>4. (n + 1) * size <= k * size /\ (n + 1) * size = n * size + size
    BY <1>1, <1>2, <1>3, PcmAssumption, Room
  <1> QED BY <1>2, <1>3, <1>4

\* The invariant holds at the start.
LEMMA PcmInitInv == PcmInit => PcmIInv
  <1> SUFFICES ASSUME PcmInit PROVE PcmIInv
    OBVIOUS
  <1>1. size \in Nat \ {0} /\ 0 = 0 * size
    BY PcmAssumption DEF PcmInit
  <1>2. PcmTypeOK
    <2>1. size \in PacketSizes /\ mPCMBuffer \in BOOLEAN /\ overrun \in BOOLEAN
      BY DEF PcmInit
    <2>2. mPcmSize \in 0 .. BufferSize - 1 /\ {start, position} \subseteq Nat
      BY PcmAssumption DEF PcmInit
    <2>3. encoded \in [start : Nat, size : Nat, pts : Nat]
      BY DEF PcmInit, NoPcmFrame
    <2> QED BY <2>1, <2>2, <2>3 DEF PcmTypeOK
  <1>3. Whole
    BY <1>1 DEF PcmInit, Whole
  <1>4. BytesInOrder /\ InBounds /\ LastStamp
    BY DEF PcmInit, BytesInOrder, InBounds, LastStamp, NoPcmFrame
  <1> QED BY <1>2, <1>3, <1>4 DEF PcmIInv

\* Every step keeps it.
LEMMA PcmNextInv == PcmIInv /\ [PcmNext]_pcmVars => PcmIInv'
  <1> SUFFICES ASSUME PcmIInv, [PcmNext]_pcmVars PROVE PcmIInv'
    OBVIOUS
  <1>0. /\ size \in PacketSizes /\ size \in Nat \ {0} /\ BufferSize \in Nat \ {0}
        /\ mPcmSize \in Nat /\ position \in Nat
    BY PcmAssumption DEF PcmIInv, PcmTypeOK
  <1>1. CASE Collect
    <2>1. PcmTypeOK'
      BY <1>0, <1>1 DEF Collect, Full, PcmIInv, PcmTypeOK
    <2>2. Whole'
      <3>1. PICK n \in Nat : mPcmSize = n * size
        BY DEF PcmIInv, Whole
      <3>2. (n + 1) * size = n * size + size
        BY <1>0
      <3>3. mPcmSize' = (n + 1) * size' /\ n + 1 \in Nat
        BY <1>1, <3>1, <3>2 DEF Collect
      <3> QED BY <3>3 DEF Whole
    <2>3. BytesInOrder'
      BY <1>0, <1>1 DEF Collect, PcmIInv, PcmTypeOK, BytesInOrder
    <2>4. InBounds'
      BY <1>1 DEF Collect, InBounds
    <2>5. LastStamp'
      BY <1>1 DEF Collect, PcmIInv, LastStamp
    <2> QED BY <2>1, <2>2, <2>3, <2>4, <2>5 DEF PcmIInv
  <1>2. CASE Encode
    <2>1. PcmTypeOK'
      BY <1>0, <1>2 DEF Encode, Reset, PcmIInv, PcmTypeOK
    <2>2. Whole'
      <3>1. mPcmSize' = 0 * size'
        BY <1>0, <1>2 DEF Encode, Reset
      <3> QED BY <3>1 DEF Whole
    <2>3. BytesInOrder'
      BY <1>0, <1>2 DEF Encode, Reset, PcmIInv, PcmTypeOK, BytesInOrder
    <2>4. InBounds'
      BY <1>2 DEF Encode, InBounds
    <2>5. LastStamp'
      BY <1>0, <1>2 DEF Encode, LastStamp
    <2> QED BY <2>1, <2>2, <2>3, <2>4, <2>5 DEF PcmIInv
  <1>3. CASE Overrun
    <2>1. PcmTypeOK' /\ Whole' /\ BytesInOrder'
      BY <1>3 DEF Overrun, PcmIInv, PcmTypeOK, Whole, BytesInOrder
    <2>2. ~(mPCMBuffer /\ Fits)
      BY <1>0, <1>3, StaysInBounds DEF Overrun
    <2>3. InBounds'
      BY <1>3, <2>2 DEF Overrun, InBounds, Fits
    <2>4. LastStamp'
      BY <1>3 DEF Overrun, PcmIInv, LastStamp
    <2> QED BY <2>1, <2>3, <2>4 DEF PcmIInv
  <1>4. CASE UNCHANGED pcmVars
    BY <1>4 DEF pcmVars, PcmIInv, PcmTypeOK, Whole, BytesInOrder, InBounds, Fits, LastStamp
  <1> QED BY <1>1, <1>2, <1>3, <1>4 DEF PcmNext

\* The inductive invariant of the buffer holds in every behaviour.
THEOREM PcmInvariance == PcmSpec => []PcmIInv
  BY PcmInitInv, PcmNextInv, PTL DEF PcmSpec

\* The fill level is below the buffer's size whenever a packet comes.
THEOREM PcmTypeCorrect == PcmSpec => []PcmTypeOK
  <1>1. PcmIInv => PcmTypeOK
    BY DEF PcmIInv
  <1> QED BY <1>1, PcmInvariance, PTL

\* encoderAudio never writes past mPCMBuffer if the device's packets fill it exactly.
THEOREM PacketsFit == PcmSpec => []InBounds
  <1>1. PcmIInv => InBounds
    BY DEF PcmIInv
  <1> QED BY <1>1, PcmInvariance, PTL

\* Every byte of the device is in an encoded encoded or in the buffer.
THEOREM BytesKept == PcmSpec => []BytesInOrder
  <1>1. PcmIInv => BytesInOrder
    BY DEF PcmIInv
  <1> QED BY <1>1, PcmInvariance, PTL

\* A encoded is one full buffer, and its stamp as far from the one before.
LEMMA EncodeInStep ==
  ASSUME PcmIInv, Encode, encoded # NoPcmFrame
  PROVE  encoded'.pts - encoded.pts = BufferSize
  <1>1. /\ size \in Nat \ {0} /\ BufferSize \in Nat /\ mPcmSize \in Nat
        /\ start \in Nat /\ encoded.pts \in Nat
    BY PcmAssumption DEF PcmIInv, PcmTypeOK
  <1>2. mPcmSize + size = BufferSize
    BY <1>1 DEF Encode, Full
  <1>3. encoded.pts + size = start /\ position = start + mPcmSize
    BY DEF PcmIInv, LastStamp, BytesInOrder
  <1>4. encoded'.pts = position
    BY DEF Encode
  <1> QED BY <1>1, <1>2, <1>3, <1>4

\* The stamps that encoderAudio gives its frames are as far apart as their samples.
THEOREM StampsInStep == PcmSpec => PtsInStep
  <1>1. PcmIInv /\ [PcmNext]_pcmVars =>
          [encoded # NoPcmFrame /\ encoded' # encoded => encoded'.pts - encoded.pts = BufferSize]_pcmVars
    <2> SUFFICES ASSUME PcmIInv, PcmNext, encoded # NoPcmFrame, encoded' # encoded
                 PROVE  encoded'.pts - encoded.pts = BufferSize
      OBVIOUS
    <2>1. Encode
      BY DEF PcmNext, Collect, Overrun
    <2> QED BY <2>1, EncodeInStep
  <1> QED BY <1>1, PcmInvariance, PTL DEF PcmSpec, PtsInStep
------------------------------------------------------------------------------
\* n is some whole buffers before the stamp last.
Behind(last, n) ==
  /\ n \in 0 .. MaxBytes
  /\ \E k \in Nat : last - n = k * BufferSize

\* The last stamp that the muxer was given, as it was before the codec.
Sent == newest["audio"] + Priming

\* The stamps on the way rise, from the muxer's last to the encoder's last.
Line ==
  /\ encoded = NoPcmFrame => codec = << >> /\ arrived["audio"] = 0
  /\ \A i \in 1 .. Len(codec) : Behind(encoded.pts, codec[i])
  /\ \A i, j \in 1 .. Len(codec) : i < j => codec[i] < codec[j]
  /\ arrived["audio"] # 0 => Behind(encoded.pts, Sent) /\ \A i \in 1 .. Len(codec) : Sent < codec[i]

AudioTypes ==
  /\ codec \in Seq(Int)
  /\ newest \in [Streams -> Int] /\ arrived \in [Streams -> Nat]
  /\ position <= MaxBytes

AudioIInv == PcmIInv /\ AudioTypes /\ Line

\* Stamps on the line are a step of MuxTimestamps apart.
LEMMA WholeBuffers ==
  ASSUME NEW p \in Nat, NEW a \in 0 .. MaxBytes, NEW b \in 0 .. MaxBytes, a < b,
         NEW j \in Nat, p - a = j * BufferSize, NEW k \in Nat, p - b = k * BufferSize
  PROVE  b - a \in Steps
  <1>1. BufferSize \in Nat \ {0} /\ MaxBytes \in Nat
    BY PcmAssumption
  <1>2. k < j
    <2> SUFFICES ASSUME j <= k PROVE FALSE
      OBVIOUS
    <2>1. PICK d \in Nat : k = j + d
      OBVIOUS
    <2>2. k * BufferSize = j * BufferSize + d * BufferSize /\ d * BufferSize \in Nat /\ j * BufferSize \in Nat
      BY <1>1, <2>1
    <2> QED BY <2>2
  <1>3. PICK n \in Nat \ {0} : j = k + n
    BY <1>2
  <1>4. /\ j * BufferSize = k * BufferSize + n * BufferSize
        /\ k * BufferSize \in Nat /\ n * BufferSize \in Nat /\ j * BufferSize \in Nat
    BY <1>1, <1>3
  <1>5. b - a = n * BufferSize
    <2>1. \A x, y, z \in Nat : p - a = x /\ p - b = y /\ x = y + z => b - a = z
      BY <1>1
    <2> QED BY <1>4, <2>1
  <1>6. n <= n * BufferSize
    <2> DEFINE d == BufferSize - 1
    <2>1. BufferSize = 1 + d /\ d \in Nat
      BY <1>1
    <2> HIDE DEF d
    <2>2. n * (1 + d) = n + n * d /\ n * d \in Nat
      BY <2>1
    <2> QED BY <2>1, <2>2
  <1>7. n \in 1 .. MaxBytes /\ n * BufferSize <= MaxBytes
    BY <1>1, <1>5, <1>6
  <1> QED BY <1>5, <1>7, AudioAssumption

LEMMA AudioInitInv == AudioInit => AudioIInv
  <1> SUFFICES ASSUME AudioInit PROVE AudioIInv
    OBVIOUS
  <1>1. PcmIInv
    BY PcmInitInv DEF AudioInit
  <1>2. codec = << >> /\ Len(codec) = 0 /\ position <= MaxBytes
    BY PcmAssumption DEF AudioInit, PcmInit
  <1>3. newest \in [Streams -> Int] /\ arrived \in [Streams -> Nat] /\ arrived["audio"] = 0
    BY DEF AudioInit, Init, Streams
  <1> QED BY <1>1, <1>2, <1>3 DEF AudioIInv, AudioTypes, Line

\* What is on the line stays there when the buffer is encoded, and is before its stamp.
LEMMA LineMovesOn ==
  ASSUME AudioIInv, Encode, encoded # NoPcmFrame, NEW n, Behind(encoded.pts, n)
  PROVE  Behind(encoded'.pts, n) /\ n < encoded'.pts
  <1>1. PICK k \in Nat : encoded.pts - n = k * BufferSize
    BY DEF Behind
  <1>2. encoded'.pts - encoded.pts = BufferSize
    BY EncodeInStep DEF AudioIInv
  <1>3. encoded.pts \in Nat /\ n \in Nat /\ BufferSize \in Nat \ {0} /\ encoded'.pts \in Nat
    BY PcmAssumption DEF AudioIInv, PcmIInv, PcmTypeOK, Behind, Encode
  <1>4. (k + 1) * BufferSize = k * BufferSize + BufferSize /\ k * BufferSize \in Nat
    BY <1>3
  <1>5. encoded'.pts - n = (k + 1) * BufferSize /\ n < encoded'.pts
    BY <1>1, <1>2, <1>3, <1>4
  <1> QED BY <1>5 DEF Behind

\* The stamps that the codec may hold once it has been given a frame.
LEMMA Held ==
  ASSUME AudioIInv, Encode, NEW held \in {codec, Append(codec, encoded'.pts)}
  PROVE  /\ held \in Seq(Int)
         /\ \A i \in 1 .. Len(held) : Behind(encoded'.pts, held[i])
         /\ \A i, j \in 1 .. Len(held) : i < j => held[i] < held[j]
         /\ arrived["audio"] # 0 => Behind(encoded'.pts, Sent) /\ \A i \in 1 .. Len(held) : Sent < held[i]
         /\ encoded' # NoPcmFrame
  <1> DEFINE last == encoded'.pts
  <1>1. last = position /\ last \in 0 .. MaxBytes
    BY DEF Encode, AudioIInv, AudioTypes, PcmIInv, PcmTypeOK
  <1>2. encoded' # NoPcmFrame
    <2>1. encoded'.size = mPcmSize + size /\ mPcmSize \in Nat /\ size \in Nat \ {0}
      BY PcmAssumption DEF Encode, AudioIInv, PcmIInv, PcmTypeOK
    <2>2. encoded'.size # 0 /\ NoPcmFrame.size = 0
      BY <2>1 DEF NoPcmFrame
    <2> QED BY <2>2
  <1>3. Behind(last, last)
    <2>1. last - last = 0 * BufferSize
      BY <1>1, PcmAssumption
    <2> QED BY <1>1, <2>1 DEF Behind
  <1>4. codec \in Seq(Int) /\ Len(codec) \in Nat
    BY DEF AudioIInv, AudioTypes
  <1>5. \A n : encoded # NoPcmFrame /\ Behind(encoded.pts, n) => Behind(last, n) /\ n < last
    BY LineMovesOn
  <1>6. ASSUME NEW i \in 1 .. Len(codec)
        PROVE  Behind(last, codec[i]) /\ codec[i] < last
    <2>1. Behind(encoded.pts, codec[i]) /\ encoded # NoPcmFrame
      BY <1>4, <1>6 DEF AudioIInv, Line
    <2> QED BY <1>5, <2>1
  <1>7. ASSUME arrived["audio"] # 0
        PROVE  Behind(last, Sent) /\ Sent < last
    BY <1>5, <1>7 DEF AudioIInv, Line
  <1>8. CASE held = codec
    BY <1>2, <1>4, <1>6, <1>7, <1>8 DEF AudioIInv, Line
  <1>9. CASE held = Append(codec, last)
    <2>1. last \in Int
      BY <1>1
    <2>2. /\ held \in Seq(Int) /\ Len(held) = Len(codec) + 1
          /\ \A i \in 1 .. Len(codec) : held[i] = codec[i]
          /\ held[Len(codec) + 1] = last
      <3> HIDE DEF last
      <3> QED BY <1>4, <1>9, <2>1, AppendProperties
    <2>3. \A i \in 1 .. Len(held) : i \in 1 .. Len(codec) \/ i = Len(codec) + 1
      BY <1>4, <2>2
    <2> HIDE DEF last
    <2>4. \A i \in 1 .. Len(held) : Behind(last, held[i])
      BY <1>3, <1>6, <2>2, <2>3
    <2>5. ASSUME NEW i \in 1 .. Len(held), NEW j \in 1 .. Len(held), i < j
          PROVE  held[i] < held[j]
      <3>1. i \in 1 .. Len(codec)
        BY <1>4, <2>2, <2>5
      <3>2. CASE j \in 1 .. Len(codec)
        BY <2>2, <2>5, <3>1, <3>2 DEF AudioIInv, Line
      <3>3. CASE j = Len(codec) + 1
        BY <1>6, <2>2, <3>1, <3>3
      <3> QED BY <2>3, <3>2, <3>3
    <2>6. arrived["audio"] # 0 => \A i \in 1 .. Len(held) : Sent < held[i]
      BY <1>7, <2>2, <2>3 DEF AudioIInv, Line
    <2> QED BY <1>2, <1>7, <2>2, <2>4, <2>5, <2>6 DEF last
  <1> QED BY <1>8, <1>9

\* A step of the encoder: the line goes on, and what leaves it is a step of MuxTimestamps.
LEMMA EncodeFrameStep ==
  ASSUME AudioIInv, EncodeFrame
  PROVE  AudioTypes' /\ Line' /\ [Next]_vars
  <1>1. Encode
    BY DEF EncodeFrame
  <1>2. PICK held \in {codec, Append(codec, encoded'.pts)} :
          \/ codec' = held /\ UNCHANGED vars
          \/ /\ held # << >>
             /\ codec' = Tail(held)
             /\ Arrive("audio", Head(held) - Priming, 0) \/ UNCHANGED vars
    BY DEF EncodeFrame
  <1>3. /\ held \in Seq(Int) /\ Len(held) \in Nat
        /\ \A i \in 1 .. Len(held) : Behind(encoded'.pts, held[i])
        /\ \A i, j \in 1 .. Len(held) : i < j => held[i] < held[j]
        /\ arrived["audio"] # 0 => Behind(encoded'.pts, Sent) /\ \A i \in 1 .. Len(held) : Sent < held[i]
        /\ encoded' # NoPcmFrame
    <2>1. held \in Seq(Int) => Len(held) \in Nat
      OBVIOUS
    <2> QED BY <1>1, <2>1, Held
  <1>4. position' <= MaxBytes
    BY <1>1 DEF Encode
  <1>5. newest \in [Streams -> Int] /\ arrived \in [Streams -> Nat] /\ "audio" \in Streams
    BY DEF AudioIInv, AudioTypes, Streams
  <1>6. UNCHANGED vars => newest' = newest /\ arrived' = arrived /\ Sent' = Sent
    BY DEF vars, source, Sent
  <1>7. CASE codec' = held /\ UNCHANGED vars
    BY <1>3, <1>4, <1>5, <1>6, <1>7 DEF AudioTypes, Line
  <1>8. CASE held # << >> /\ codec' = Tail(held) /\ (Arrive("audio", Head(held) - Priming, 0) \/ UNCHANGED vars)
    <2>1. /\ codec' \in Seq(Int) /\ Len(codec') = Len(held) - 1 /\ 1 \in 1 .. Len(held)
          /\ \A i \in 1 .. Len(codec') : codec'[i] = held[i + 1]
          /\ Head(held) = held[1]
      BY <1>3, <1>8, HeadTailProperties
    <2>2. /\ \A i \in 1 .. Len(codec') : i + 1 \in 1 .. Len(held) /\ 1 < i + 1
          /\ \A i, j \in 1 .. Len(codec') : i < j => i + 1 < j + 1
      BY <1>3, <2>1
    <2>3. \A i \in 1 .. Len(codec') : Behind(encoded'.pts, codec'[i]) /\ held[1] < codec'[i]
      BY <1>3, <2>1, <2>2
    <2>4. \A i, j \in 1 .. Len(codec') : i < j => codec'[i] < codec'[j]
      BY <1>3, <2>1, <2>2
    <2>5. CASE UNCHANGED vars
      <3>1. arrived["audio"] # 0 => \A i \in 1 .. Len(codec') : Sent < codec'[i]
        BY <1>3, <2>1, <2>2
      <3> QED BY <1>3, <1>4, <1>5, <1>6, <2>1, <2>3, <2>4, <2>5, <3>1 DEF AudioTypes, Line
    <2>6. CASE Arrive("audio", Head(held) - Priming, 0)
      <3> DEFINE dts == held[1] - Priming
      <3>1. held[1] \in 0 .. MaxBytes /\ Behind(encoded'.pts, held[1]) /\ Priming \in Nat /\ dts \in Int
        BY <1>3, <2>1, AudioAssumption DEF Behind
      <3>2. Arrive("audio", dts, 0)
        BY <2>1, <2>6
      <3>3. newest' = [newest EXCEPT !["audio"] = dts] /\ arrived' = [arrived EXCEPT !["audio"] = @ + 1]
        BY <3>2 DEF Arrive
      <3>4. newest' \in [Streams -> Int] /\ arrived' \in [Streams -> Nat] /\ Sent' = held[1]
        <4>1. newest'["audio"] = dts /\ newest' \in [Streams -> Int]
          BY <1>5, <3>1, <3>3
        <4>2. arrived' \in [Streams -> Nat]
          BY <1>5, <3>3
        <4>3. Sent' = dts + Priming
          BY <4>1 DEF Sent
        <4>4. dts + Priming = held[1]
          BY <3>1
        <4> QED BY <4>1, <4>2, <4>3, <4>4
      <3>5. NextFrame("audio")
        <4>1. 0 \in Delays
          BY TimestampAssumption
        <4>2. CASE arrived["audio"] = 0
          <5>1. dts \in Starts
            BY <3>1, AudioAssumption
          <5> QED BY <3>2, <4>1, <4>2, <5>1 DEF NextFrame
        <4>3. CASE arrived["audio"] # 0
          <5>1. Behind(encoded'.pts, Sent) /\ Sent < held[1]
            BY <1>3, <2>1, <4>3
          <5>2. PICK j \in Nat : encoded'.pts - Sent = j * BufferSize
            BY <5>1 DEF Behind
          <5>3. PICK k \in Nat : encoded'.pts - held[1] = k * BufferSize
            BY <3>1 DEF Behind
          <5>4. encoded'.pts \in Nat /\ Sent \in 0 .. MaxBytes
            BY <1>1, <5>1 DEF Encode, Behind, AudioIInv, PcmIInv, PcmTypeOK
          <5>5. held[1] - Sent \in Steps
            BY <3>1, <5>1, <5>2, <5>3, <5>4, WholeBuffers
          <5>6. newest["audio"] + (held[1] - Sent) = dts
            BY <1>5, <3>1 DEF Sent
          <5> QED BY <3>2, <4>1, <4>3, <5>5, <5>6 DEF NextFrame
        <4> QED BY <4>2, <4>3
      <3>6. Next
        BY <1>5, <3>5 DEF Next
      <3>7. Line'
        BY <1>3, <2>3, <2>4, <3>1, <3>4 DEF Line
      <3> QED BY <1>4, <2>1, <3>4, <3>6, <3>7 DEF AudioTypes
    <2> QED BY <1>8, <2>5, <2>6
  <1> QED BY <1>2, <1>7, <1>8

\* The device and the video stream leave the line alone.
LEMMA LineUntouched ==
  ASSUME AudioIInv, UNCHANGED <<codec, encoded>>, position' <= MaxBytes,
         newest'["audio"] = newest["audio"], arrived'["audio"] = arrived["audio"],
         newest' \in [Streams -> Int], arrived' \in [Streams -> Nat]
  PROVE  AudioTypes' /\ Line'
  <1>1. Sent' = Sent
    BY DEF Sent
  <1> QED BY <1>1 DEF AudioIInv, AudioTypes, Line

LEMMA AudioNextInv ==
  ASSUME AudioIInv, [AudioNext]_audioVars
  PROVE  AudioIInv' /\ [Next]_vars
  <1>1. /\ newest \in [Streams -> Int] /\ arrived \in [Streams -> Nat] /\ position <= MaxBytes
        /\ PcmIInv /\ "audio" \in Streams /\ "video" \in Streams
    BY DEF AudioIInv, AudioTypes, Streams
  <1>2. CASE EncodeFrame
    <2>1. PcmIInv'
      BY <1>1, <1>2, PcmNextInv DEF EncodeFrame, PcmNext
    <2> QED BY <1>2, <2>1, EncodeFrameStep DEF AudioIInv
  <1>3. CASE (Collect \/ Overrun) /\ UNCHANGED <<vars, codec>>
    <2>1. PcmIInv'
      BY <1>1, <1>3, PcmNextInv DEF PcmNext
    <2>2. position' <= MaxBytes /\ encoded' = encoded /\ codec' = codec
      BY <1>1, <1>3 DEF Collect, Overrun
    <2>3. newest' = newest /\ arrived' = arrived
      BY <1>3 DEF vars, source
    <2>4. AudioTypes' /\ Line'
      BY <1>1, <2>2, <2>3, LineUntouched
    <2> QED BY <1>3, <2>1, <2>4 DEF AudioIInv
  <1>4. CASE (NextFrame("video") \/ Mux \/ \E s \in Streams : NoFrame(s)) /\ UNCHANGED <<pcmVars, codec>>
    <2>1. PcmIInv'
      BY <1>1, <1>4, PcmNextInv
    <2>2. position' = position /\ encoded' = encoded /\ codec' = codec
      BY <1>4 DEF pcmVars
    <2>3. /\ newest' \in [Streams -> Int] /\ arrived' \in [Streams -> Nat]
          /\ newest'["audio"] = newest["audio"] /\ arrived'["audio"] = arrived["audio"]
      <3>1. ASSUME NEW dts \in Int, NEW delay \in Delays, Arrive("video", dts, delay)
            PROVE  /\ newest' \in [Streams -> Int] /\ arrived' \in [Streams -> Nat]
                   /\ newest'["audio"] = newest["audio"] /\ arrived'["audio"] = arrived["audio"]
        BY <1>1, <3>1 DEF Arrive
      <3>2. \A dts \in Starts : dts \in Int
        BY TimestampAssumption
      <3>3. \A step \in Steps : newest["video"] + step \in Int
        BY <1>1, TimestampAssumption
      <3>4. CASE NextFrame("video")
        BY <3>1, <3>2, <3>3, <3>4 DEF NextFrame
      <3>5. CASE Mux \/ \E s \in Streams : NoFrame(s)
        <4>1. newest' = newest /\ arrived' = arrived
          BY <3>5 DEF Mux, Select, Write, NoFrame, source
        <4> QED BY <1>1, <4>1
      <3> QED BY <1>4, <3>4, <3>5
    <2>4. AudioTypes' /\ Line'
      BY <1>1, <2>2, <2>3, LineUntouched
    <2>5. Next
      BY <1>1, <1>4 DEF Next
    <2> QED BY <2>1, <2>4, <2>5 DEF AudioIInv
  <1>5. CASE UNCHANGED audioVars
    <2>1. UNCHANGED pcmVars /\ UNCHANGED vars /\ codec' = codec
      BY <1>5 DEF audioVars
    <2>2. PcmIInv'
      BY <1>1, <2>1, PcmNextInv
    <2>3. position' = position /\ encoded' = encoded /\ newest' = newest /\ arrived' = arrived
      BY <2>1 DEF pcmVars, vars, source
    <2>4. AudioTypes' /\ Line'
      BY <1>1, <2>1, <2>3, LineUntouched
    <2> QED BY <2>1, <2>2, <2>4 DEF AudioIInv
  <1> QED BY <1>2, <1>3, <1>4, <1>5 DEF AudioNext

\* The inductive invariant of the whole path.
THEOREM AudioInvariance == AudioSpec => []AudioIInv
  <1>1. AudioIInv /\ [AudioNext]_audioVars => AudioIInv'
    BY AudioNextInv
  <1> QED BY <1>1, AudioInitInv, PTL DEF AudioSpec

\* encoderAudio and the codec feed the muxer what MuxTimestamps supposes it is fed, whatever
\* the codec holds back and the queues lose: the path implements it.
THEOREM StampsFeedMux == AudioSpec => FeedsMux
  <1>1. AudioInit => Init
    BY DEF AudioInit
  <1>2. AudioIInv /\ [AudioNext]_audioVars => [Next]_vars
    BY AudioNextInv
  <1> QED BY <1>1, <1>2, AudioInvariance, PTL DEF AudioSpec, FeedsMux, Spec

\* So what is proved of the muxer's stamps and of the buffer holds of the application's audio.
COROLLARY AudioStaysInterleaved == AudioSpec => [](InBounds /\ SameOrigin /\ Interleaved)
  <1>1. AudioIInv => InBounds
    BY DEF AudioIInv, PcmIInv
  <1> QED BY <1>1, AudioInvariance, StampsFeedMux, OneOrigin, StaysInterleaved, PTL DEF FeedsMux
==============================================================================
