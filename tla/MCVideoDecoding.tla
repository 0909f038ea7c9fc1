------------------------- MODULE MCVideoDecoding -------------------------
(***************************************************************************)
(* One feeding thread, as there is one channel at a time, and up to two    *)
(* resetting ones: the thread of the settings and that of the device       *)
(* manager.  Overload is 1 instead of 5, so that four packets make two     *)
(* overloads; nothing depends on its value.  The passing run has both      *)
(* decoders, the findings are shown with the one of ffmpeg.                *)
(***************************************************************************)
EXTENDS VideoDecoding

CONSTANTS worker, owner, f1, u1, u2

MCFeeders == {f1}
MCFlushers == {u1, u2}
MCThreads == {worker, owner} \cup MCFeeders \cup Flushers
MCOneFlusher == {u1}
MCItems == 1..MaxItems
MCBoth == {"ffmpeg", "VideoToolbox"}
MCFFMpegOnly == {"ffmpeg"}
=============================================================================
