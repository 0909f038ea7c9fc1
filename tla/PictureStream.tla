----------------------------- MODULE PictureStream -----------------------------
(***************************************************************************)
(* What a video decoder promises the source that owns it, with no queue,   *)
(* thread, mutex or codec: of the packets that arrive some are shown, in   *)
(* the order of their arrival and each at most once, and none any more     *)
(* when the decoder is closed, whatever else is going on at that moment.   *)
(*                                                                         *)
(* A reset goes through four phases.  It is called; at some moment it      *)
(* draws the line below all packets that have arrived; then it settles,    *)
(* and from there on no packet below the line is shown, except for one     *)
(* that was on its way; in the end it clears the picture.  Resets by       *)
(* several callers overlap.                                                *)
(***************************************************************************)
EXTENDS Naturals

CONSTANT Callers \* who resets the decoder

VARIABLES
  arrived, \* how many packets have arrived, which are numbered in that order
  screen,  \* the packet whose picture is on the screen, 0 for none
  shown,   \* the last packet that was shown
  floor,   \* the line that the last reset drew
  spared,  \* the packet that was on its way at that moment, 0 for none
  phase,   \* where each reset is
  closed

streamVars == <<arrived, screen, shown, floor, spared, phase, closed>>

StreamInit ==
  /\ arrived = 0
  /\ screen = 0 /\ shown = 0
  /\ floor = 0 /\ spared = 0
  /\ phase = [u \in Callers |-> "idle"]
  /\ closed = FALSE

Advance(u, from, to) ==
  /\ phase[u] = from
  /\ phase' = [phase EXCEPT ![u] = to]
  /\ UNCHANGED <<arrived, shown, closed>>

Arrive ==
  /\ arrived' = arrived + 1
  /\ UNCHANGED <<screen, shown, floor, spared, phase, closed>>

\* A picture that a reset has not settled about may still be an old one.
Show(p) ==
  /\ ~closed
  /\ shown < p
  /\ \/ floor < p \/ p = spared
     \/ \E u \in Callers : phase[u] = "drawn"
  /\ screen' = p /\ shown' = p
  /\ UNCHANGED <<arrived, floor, spared, phase, closed>>

Call(u) ==
  /\ Advance(u, "idle", "called")
  /\ UNCHANGED <<screen, floor, spared>>

DrawLine(u) ==
  /\ Advance(u, "called", "drawn")
  /\ floor' = arrived
  /\ spared' \in 0..arrived
  /\ UNCHANGED screen

Settle(u) ==
  /\ Advance(u, "drawn", "settled")
  /\ UNCHANGED <<screen, floor, spared>>

Clear(u) ==
  /\ Advance(u, "settled", "idle")
  /\ screen' = 0
  /\ UNCHANGED <<floor, spared>>

\* A reset in progress does not keep the decoder open.
Close ==
  /\ closed' = TRUE
  /\ UNCHANGED <<arrived, screen, shown, floor, spared, phase>>

StreamNext ==
  \/ Arrive
  \/ \E p \in 1..arrived : Show(p)
  \/ \E u \in Callers : Call(u) \/ DrawLine(u) \/ Settle(u) \/ Clear(u)
  \/ Close

StreamSpec == StreamInit /\ [][StreamNext]_streamVars
=============================================================================
