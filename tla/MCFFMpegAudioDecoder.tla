------------------------- MODULE MCFFMpegAudioDecoder -------------------------
(***************************************************************************)
(* One feeding thread, as there is one channel at a time.  An overload is  *)
(* more than 2 packets, of which 1 is kept, instead of 25 and 5: with      *)
(* seven packets the queue overloads twice.                                *)
(***************************************************************************)
EXTENDS FFMpegAudioDecoder

CONSTANTS worker, owner, f1

MCFeeders == {f1}
MCThreads == {worker, owner} \cup MCFeeders
MCItems == 1..MaxItems
=============================================================================
