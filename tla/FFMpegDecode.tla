----------------------------- MODULE FFMpegDecode -----------------------------
(***************************************************************************)
(* struct ffmpeg_decode (src/src/ffmpeg-decode.c): the codec both ffmpeg   *)
(* decoders own.  ffmpeg_decode_video() and ffmpeg_decode_audio() send one *)
(* packet and take at most one picture or sound out.  The codec behind     *)
(* avcodec_send_packet() and avcodec_receive_frame() is not in src/: it    *)
(* refuses a packet or takes it, and gives back what it holds in order.    *)
(***************************************************************************)
EXTENDS Naturals, Sequences

CONSTANT Delay \* bound: how many pictures or sounds the codec keeps back

ASSUME DelayAssumption == Delay \in Nat

VARIABLES
  valid, \* ffmpeg_decode_valid(): the codec is open
  held   \* the packets whose picture or sound the codec still holds

codecVars == <<valid, held>>

CodecTypeOK(packets) == valid \in BOOLEAN /\ held \in Seq(packets)

CodecInit == valid = FALSE /\ held = <<>>

\* ffmpeg_decode_init() may fail; the codec is then tried again with the next packet.
OpenCodec == valid' \in {valid, TRUE}

\* Mutant of FreeCodec: what the codec holds is not given up.
FreeCodecKeeping == valid' = FALSE /\ UNCHANGED held

\* ffmpeg_decode_free()
FreeCodec == valid' = FALSE /\ held' = <<>>

-----------------------------------------------------------------------------
\* send answers an error or EAGAIN: receive is not called and the packet is lost.
Refused == UNCHANGED held

\* receive answers EAGAIN: the codec keeps the packet.
Delayed(i) ==
  /\ Len(held) < Delay
  /\ held' = Append(held, i)

\* receive returns the oldest packet p of those the codec holds.
Returned(i, p) ==
  /\ p = Head(Append(held, i))
  /\ held' = Tail(Append(held, i))

\* The same, but OBS has no name for the format and the caller is told of an error.
Unconverted(i) == held' = Tail(Append(held, i))

NoOutput(i) == Refused \/ Delayed(i) \/ Unconverted(i)

\* An empty audio packet is not sent; the codec gives back a sound p it holds, if any.
ReturnedUnsent(p) == held # <<>> /\ p = Head(held) /\ held' = Tail(held)

\* The same without a sound for OBS.
UnconvertedUnsent == held # <<>> /\ held' = Tail(held)
=============================================================================
