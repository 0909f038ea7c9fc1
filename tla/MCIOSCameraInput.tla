----------------------------- MODULE MCIOSCameraInput -----------------------------
(***************************************************************************)
(* Two phones, a handle each and a second one for the phone that comes     *)
(* back, one thread of OBS beside the manager.                             *)
(***************************************************************************)
EXTENDS IOSCameraInput, TLC

CONSTANTS obs, manager

MCThreads == {obs, manager}
MCObsThreads == {obs}
MCSymmetry == Permutations(Udids) \cup Permutations(Handles)
=============================================================================
