----------------------------- MODULE MuxTimestamps -----------------------------
(***************************************************************************)
(* The time stamps of mux_thread and write_frame (koala_muxer.c): which    *)
(* stream is next, what is subtracted from its stamps, what libavformat is *)
(* given.  KoalaMuxer has the same loop with its locks, events and errors, *)
(* and leaves the choice open.                                             *)
(*                                                                         *)
(* req_i_frame is never set (the assignment is commented out), so no frame *)
(* is dropped.                                                             *)
(***************************************************************************)
EXTENDS Integers, Sequences

CONSTANTS
  Starts,    \* dts of the first frame of a stream
  Steps,     \* from a frame's dts to the next one's: what was dropped between them counts
  Delays,    \* pts - dts of a video frame
  Tick,      \* time base units in a unit of the container (microseconds: 1000)
  MaxFrames, \* bound on the frames of a stream
  MaxQueue   \* bound on the frames that wait for the muxer

ASSUME TimestampAssumption ==
  /\ Starts \subseteq Int
  /\ Steps \subseteq Nat \ {0}
  /\ Delays \subseteq Nat /\ 0 \in Delays
  /\ \A set \in {Starts, Steps, Delays} : \E least, greatest \in set : \A n \in set : least <= n /\ n <= greatest
  /\ Tick \in Nat \ {0}
  /\ {MaxFrames, MaxQueue} \subseteq Nat

Streams == {"video", "audio"}
Other(s) == IF s = "video" THEN "audio" ELSE "video"

VARIABLES
  queue,     \* the frames that the callbacks will return, oldest first
  arrived,   \* how many there have been,
  newest,    \* and the last one's dts
  first_pts,
  last_pts,  \* last_video_pts, last_audio_pts
  encode,    \* streams whose encode_ flag is set
  stream,    \* the one that write_frame is called for, or "none"
  written,   \* the frames given to libavformat: how many, the last one's dts and pts,
             \* and what was taken off its stamps
  below      \* history: the very first frame had a negative dts

source == <<queue, arrived, newest>>
vars == <<source, first_pts, last_pts, encode, stream, written, below>>

\* av_rescale: to the nearest, halves away from zero
Rescale(stamp) ==
  LET Up(n) == (2 * n + Tick) \div (2 * Tick)
  IN  IF stamp < 0 THEN -Up(-stamp) ELSE Up(stamp)

Init ==
  /\ queue = [s \in Streams |-> << >>]
  /\ arrived = [s \in Streams |-> 0]
  /\ newest = [s \in Streams |-> 0]
  /\ first_pts = -1
  /\ last_pts = [s \in Streams |-> 0]
  /\ encode = Streams
  /\ stream = "none"
  /\ written = [s \in Streams |-> [frames |-> 0, dts |-> 0, pts |-> 0, shift |-> 0]]
  /\ below = FALSE
------------------------------------------------------------------------------
\* An encoder's next frame.  Audio frames are presented in decoding order.
Arrive(s, dts, delay) ==
  /\ arrived[s] < MaxFrames /\ Len(queue[s]) < MaxQueue
  /\ s = "audio" => delay = 0
  /\ queue' = [queue EXCEPT ![s] = Append(@, [dts |-> dts, pts |-> dts + delay])]
  /\ arrived' = [arrived EXCEPT ![s] = @ + 1]
  /\ newest' = [newest EXCEPT ![s] = dts]
  /\ UNCHANGED <<first_pts, last_pts, encode, stream, written, below>>

NextFrame(s) ==
  \E delay \in Delays :
    IF arrived[s] = 0 THEN \E dts \in Starts : Arrive(s, dts, delay)
                      ELSE \E step \in Steps : Arrive(s, newest[s] + step, delay)

\* mux_thread: the stream that is behind, and video if neither is
Selected_slipAhead ==
  IF encode = Streams
    THEN {IF last_pts["video"] >= last_pts["audio"] THEN "video" ELSE "audio"}
    ELSE encode

Selected ==
  IF encode = Streams
    THEN {IF last_pts["video"] <= last_pts["audio"] THEN "video" ELSE "audio"}
    ELSE encode

Select ==
  /\ stream = "none"
  /\ stream' \in Selected
  /\ UNCHANGED <<source, first_pts, last_pts, encode, written, below>>

\* write_frame: the first dts becomes the origin, but only if it is not negative.
Origin_slipUnlessPositive(dts) == IF first_pts <= 0 THEN dts ELSE first_pts
Origin(dts) == IF first_pts < 0 THEN dts ELSE first_pts

Shift(origin) == IF origin > 0 THEN origin ELSE 0

Remember_slipVideoOnly(s, pts) ==
  last_pts' = IF s = "video" THEN [last_pts EXCEPT ![s] = pts] ELSE last_pts
Remember(s, pts) == last_pts' = [last_pts EXCEPT ![s] = pts]

\* The callback takes the frame from the queue.
Dequeue(s) == queue' = [queue EXCEPT ![s] = Tail(@)]

\* An error of libavformat ends the stream, like every result that is not 0.
Write(s) ==
  /\ stream = s /\ queue[s] # << >>
  /\ LET frame == Head(queue[s])
         origin == Origin(frame.dts)
         dts == frame.dts - Shift(origin)
         pts == frame.pts - Shift(origin)
     IN  /\ first_pts' = origin
         /\ Remember(s, pts)
         /\ written' = [written EXCEPT ![s] =
              [frames |-> @.frames + 1, pts |-> Rescale(pts), shift |-> Shift(origin),
               dts |-> Rescale(IF s = "audio" THEN pts ELSE dts)]]
         /\ below' = (below \/ (frame.dts < 0 /\ \A u \in Streams : written[u].frames = 0))
  /\ Dequeue(s)
  /\ encode' \in {encode, encode \ {s}}
  /\ stream' = "none"
  /\ UNCHANGED <<arrived, newest>>

\* The callback's queue is empty, and the application has stopped: -1.  A frame that came
\* in between is released.
NoFrame(s) ==
  /\ stream = s /\ Len(queue[s]) <= 1
  /\ queue' = [queue EXCEPT ![s] = << >>]
  /\ encode' = encode \ {s}
  /\ stream' = "none"
  /\ UNCHANGED <<arrived, newest, first_pts, last_pts, written, below>>

Mux == Select \/ \E s \in Streams : Write(s)

Next ==
  \/ \E s \in Streams : NextFrame(s) \/ NoFrame(s)
  \/ Mux

Spec == Init /\ [][Next]_vars

\* The mux thread runs on while it has frames.
FairSpec == Spec /\ WF_vars(Mux)
------------------------------------------------------------------------------
Greatest(set) == CHOOSE n \in set : \A m \in set : m <= n
Least(set) == CHOOSE n \in set : \A m \in set : m >= n

TypeOK ==
  /\ queue \in [Streams -> Seq([dts : Int, pts : Int])]
  /\ arrived \in [Streams -> 0 .. MaxFrames]
  /\ newest \in [Streams -> Int] /\ last_pts \in [Streams -> Int]
  /\ first_pts \in Int
  /\ encode \subseteq Streams
  /\ stream \in Streams \cup {"none"}
  /\ written \in [Streams -> [frames : Nat, dts : Int, pts : Int, shift : Int]]
  /\ \A s \in Streams : Len(queue[s]) <= MaxQueue /\ written[s].frames + Len(queue[s]) <= arrived[s]
  /\ below \in BOOLEAN

\* The two streams stay in step: the same amount is taken off the stamps of both, for
\* good, if the first frame written has no negative dts.  (With the types.)
SameOrigin ==
  /\ TypeOK
  /\ ~below /\ (\A s \in Streams : written[s].frames > 0) =>
       written["video"].shift = written["audio"].shift

\* Nor do a stream's stamps, in the container's units, ever go back then.  (If the first
\* dts of all is negative they do: after video at -1, audio at 2 becomes the origin, and
\* video at 0 is written as -2.)
DtsNeverGoesBack ==
  [][\A s \in Streams :
       ~below' /\ written[s].frames > 0 => written'[s].dts >= written[s].dts]_vars

\* The file stays interleaved: while both streams run, the stamps that the choice goes by
\* are no further apart than a frame's step, a reordered frame and the streams' distance at
\* the start explain.  (Unless the first dts of all is negative, and the origin moves.)
MaxLag ==
  Greatest(Steps) + Greatest(Delays) + Greatest(Starts) - Least(Starts)
Interleaved ==
  encode = Streams /\ ~below => \A s \in Streams : last_pts[s] - last_pts[Other(s)] <= MaxLag

\* A stream waits for the other, but not for good: once both are under way, its next frame
\* is written if the other stream has a later one and the first dts of all was not negative.
NoStreamStarves ==
  \A s \in Streams, n \in 1 .. MaxFrames :
    /\ written[s].frames = n /\ encode = Streams /\ ~below
    /\ queue[s] # << >> /\ queue[Other(s)] # << >>
    /\ queue[Other(s)][Len(queue[Other(s)])].pts > Head(queue[s]).pts + Greatest(Delays)
    ~> written[s].frames > n \/ encode # Streams
==============================================================================
