------------------------------- MODULE PcmBuffer -------------------------------
(***************************************************************************)
(* The audio encoder's PCM buffer (FFEncoderThread::encoderAudio): packets *)
(* of the device are appended until the buffer is full, and then all of it *)
(* is one frame for the encoder.  The fill level is tested after a packet  *)
(* is copied, so the packets have to fit.                                  *)
(*                                                                         *)
(* The device's bytes are numbered: a buffer, a packet or a frame is an    *)
(* interval of them, and a packet's pts is its first byte's number.        *)
(***************************************************************************)
EXTENDS Integers

CONSTANTS
  BufferSize,  \* 1024 * 8
  PacketSizes, \* a device's packets have one of these sizes, all the same
  MaxBytes     \* bound on the bytes of a run

ASSUME PcmAssumption ==
  /\ BufferSize \in Nat \ {0}
  /\ PacketSizes \subseteq Nat \ {0}
  /\ MaxBytes \in Nat

VARIABLES
  size,       \* of the device's packets
  mPCMBuffer, \* FALSE: nullptr
  mPcmSize,
  start,      \* number of the buffer's first byte
  position,   \* number of the device's next byte
  encoded,    \* the encoder's last frame
  overrun     \* a copy went past the buffer's end: anything may follow, and the model ends

pcmVars == <<size, mPCMBuffer, mPcmSize, start, position, encoded, overrun>>

NoPcmFrame == [start |-> 0, size |-> 0, pts |-> 0]
------------------------------------------------------------------------------
\* initThread: only a device of raw audio gives the encoder a buffer.
PcmInit ==
  /\ size \in PacketSizes
  /\ mPCMBuffer \in BOOLEAN
  /\ mPcmSize = 0
  /\ start = 0
  /\ position = 0
  /\ encoded = NoPcmFrame
  /\ overrun = FALSE

Full_slipBeyond(n) == n > BufferSize
Full(n) == n >= BufferSize

Reset_slipKeepsPacket == mPcmSize' = size
Reset == mPcmSize' = 0

\* memcpy behind the bytes in the buffer, which are still too few for a frame
Collect ==
  /\ ~overrun
  /\ position + size <= MaxBytes
  /\ mPCMBuffer /\ mPcmSize + size <= BufferSize
  /\ ~Full(mPcmSize + size)
  /\ mPcmSize' = mPcmSize + size
  /\ position' = position + size
  /\ UNCHANGED <<size, mPCMBuffer, start, encoded, overrun>>

\* memcpy, and all that is in the buffer goes to the encoder, with the last packet's pts.
\* An error of the encoder is logged; the bytes are gone all the same.
Encode ==
  /\ ~overrun
  /\ position + size <= MaxBytes
  /\ mPCMBuffer /\ mPcmSize + size <= BufferSize
  /\ Full(mPcmSize + size)
  /\ encoded' = [start |-> start, size |-> mPcmSize + size, pts |-> position]
  /\ Reset
  /\ position' = position + size
  /\ start' = position'
  /\ UNCHANGED <<size, mPCMBuffer, overrun>>

\* memcpy past the end, or to nullptr
Overrun ==
  /\ ~overrun
  /\ position + size <= MaxBytes
  /\ ~mPCMBuffer \/ mPcmSize + size > BufferSize
  /\ overrun' = TRUE
  /\ UNCHANGED <<size, mPCMBuffer, mPcmSize, start, position, encoded>>

PcmNext == Collect \/ Encode \/ Overrun

PcmSpec == PcmInit /\ [][PcmNext]_pcmVars
------------------------------------------------------------------------------
PcmTypeOK ==
  /\ size \in PacketSizes
  /\ {mPCMBuffer, overrun} \subseteq BOOLEAN
  /\ mPcmSize \in 0 .. BufferSize - 1
  /\ {start, position} \subseteq Nat
  /\ encoded \in [start : Nat, size : Nat, pts : Nat]

\* No copy goes past the buffer if the device's packets fill it exactly, whatever their
\* number: the test that follows the copy is enough for these, and for no others.
Fits == \E k \in 1 .. BufferSize : BufferSize = k * size
InBounds == mPCMBuffer /\ Fits => ~overrun

\* The frames are the device's bytes, all of them and in order: a byte is in a frame that
\* was encoded or in the buffer, whatever the size of the packets.
BytesInOrder ==
  /\ position = start + mPcmSize
  /\ start = encoded.start + encoded.size

\* The encoder is given the stamp of a frame's last packet, not of its first sample; still
\* the stamps are as far apart as the samples.
PtsInStep ==
  [][encoded # NoPcmFrame /\ encoded' # encoded => encoded'.pts - encoded.pts = BufferSize]_pcmVars
==============================================================================
