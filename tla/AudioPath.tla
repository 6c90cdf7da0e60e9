------------------------------- MODULE AudioPath -------------------------------
(***************************************************************************)
(* The stamps of the audio stream from the device to the muxer: PcmBuffer, *)
(* then the codec, then MuxTimestamps, which takes it for granted that a   *)
(* stream's stamps rise by what it calls Steps.  The video stream keeps    *)
(* its device's stamps and is MuxTimestamps' own.                          *)
(***************************************************************************)
EXTENDS PcmBuffer, MuxTimestamps

CONSTANT Priming \* what the codec takes off every stamp: the samples it puts before the first

ASSUME AudioAssumption ==
  /\ Priming \in Nat
  /\ {n - Priming : n \in 0 .. MaxBytes} \subseteq Starts
  /\ \A n \in 1 .. MaxBytes : n * BufferSize <= MaxBytes => n * BufferSize \in Steps

VARIABLE codec \* the stamps of the frames that libavcodec holds, oldest first

audioVars == <<pcmVars, vars, codec>>

AudioInit == PcmInit /\ Init /\ codec = << >>
------------------------------------------------------------------------------
\* avcodec_encode_audio2 takes the frame, unless it fails.  Then it has a packet (got) or has
\* not; the packet, with the stamp of its frame, gets to the muxer, or to a queue that is full
\* or cleaned.
EncodeFrame ==
  /\ Encode
  /\ \E held \in {codec, Append(codec, encoded'.pts)} :
       \/ codec' = held /\ UNCHANGED vars
       \/ /\ held # << >>
          /\ codec' = Tail(held)
          /\ Arrive("audio", Head(held) - Priming, 0) \/ UNCHANGED vars

AudioNext ==
  \/ EncodeFrame
  \/ (Collect \/ Overrun) /\ UNCHANGED <<vars, codec>>
  \/ (NextFrame("video") \/ Mux \/ \E s \in Streams : NoFrame(s)) /\ UNCHANGED <<pcmVars, codec>>

AudioSpec == AudioInit /\ [][AudioNext]_audioVars
------------------------------------------------------------------------------
\* Whatever the codec holds back, the stamps that the muxer gets from encoderAudio are those
\* MuxTimestamps counts on: they rise, by whole buffers.
FeedsMux == Spec
==============================================================================
