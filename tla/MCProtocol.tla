------------------------------ MODULE MCProtocol ------------------------------
(***************************************************************************)
(* Headers of 2 bytes and payloads of 0, 1 and 3: a header that arrives in *)
(* two pieces, frames without payload, payloads longer than a header, and  *)
(* three frames in one piece.  A misread header says a size that fits or   *)
(* one that never does.                                                    *)
(***************************************************************************)
EXTENDS Protocol

MCPayloadSizes == {0, 1, 3}
MCGarbage == {0, 1, 99}
=============================================================================
