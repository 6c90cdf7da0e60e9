------------------------------ MODULE VideoGaps ------------------------------
(***************************************************************************)
(* What cleaning the video queue (ff_read_devices, MacRTMPStreamer.cpp)    *)
(* means for the muxer, which gets a stream with frames missing: it can go *)
(* on only at a key frame.  A history variable beside MediaFrameQueue      *)
(* records what cleans have done to the frame that the muxer gets next; no *)
(* step depends on it.                                                     *)
(***************************************************************************)
EXTENDS MediaFrameQueue

VARIABLE
  gap   \* "none"  the muxer misses no frame, or has had a key frame since
        \* "key"   frames are missing, and the last clean stopped at a frame
        \* "open"  frames are missing, and the last clean emptied the queue

gapVars == <<vars, gap>>

GapInit == Init /\ gap = "none"

GapDequeue(c) ==
  /\ Dequeue(c) \/ DequeueResume(c)
  /\ gap' = IF ~IsEmpty /\ Contents[1] \in KeyFrames THEN "none" ELSE gap

GapCleanIf(k) ==
  /\ CleanIf(k)
  /\ gap' = CASE IsEmpty             -> gap
              [] ~IsEmpty /\ IsEmpty' -> "open"
              [] OTHER               -> "key"

GapNext ==
  \/ \E c \in Consumers : GapDequeue(c)
  \/ \E k \in Cleaners : GapCleanIf(k)
  \/ /\ \/ \E p \in Producers, f \in Outside : Enqueue(p, f)
        \/ \E p \in Producers : EnqueueResume(p)
        \/ \E t \in Producers \cup Consumers : TimedOut(t) \/ SpuriousWakeup(t)
        \/ \E k \in Cleaners : CheckSize(k)
     /\ UNCHANGED gap

GapSpec == GapInit /\ [][GapNext]_gapVars

GapFairSpec == GapSpec /\ Fairness
------------------------------------------------------------------------------
\* As long as no clean empties the queue (in which case a key frame would have to be asked
\* of the encoder, as ff_read_devices says, and is not), the muxer finds a key frame behind the
\* frames it misses, and nothing else before it: whatever it took between the look
\* at the size and the clean, however many cleans there are and whatever the encoder
\* adds meanwhile (myCleanQueueV).
GapEndsAtKeyFrame ==
  Policy = "key" /\ gap = "key" => ~IsEmpty /\ Contents[1] \in KeyFrames
==============================================================================
