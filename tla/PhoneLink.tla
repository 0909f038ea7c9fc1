------------------------------- MODULE PhoneLink -------------------------------
(***************************************************************************)
(* What the controller of a connection promises the source that owns it,   *)
(* with no thread, mutex, channel or socket: a succession of links to the  *)
(* phone, one at a time and each of them once.                             *)
(*                                                                         *)
(* A user that disconnects the controller while it is connected cuts the   *)
(* link.  When that is done there is no link, and there will be none until *)
(* somebody wants one again.  After the controller was removed there is    *)
(* none for ever.                                                          *)
(***************************************************************************)
EXTENDS Naturals

CONSTANTS
  Links, \* the numbers of the links there can be
  Users  \* who asks for links and cuts them

VARIABLES
  used,    \* the links there have been
  open,    \* the present one, if any
  cutting, \* who is about to cut it
  parted,  \* no link is wanted and none is being made
  removed

linkVars == <<used, open, cutting, parted, removed>>

LinkInit ==
  /\ used = {} /\ open = {} /\ cutting = {}
  /\ parted = FALSE
  /\ removed = FALSE

Open(l) ==
  /\ open = {} /\ cutting = {} /\ ~parted /\ ~removed
  /\ \A u \in used : u < l
  /\ used' = used \cup {l}
  /\ open' = {l}
  /\ UNCHANGED <<cutting, parted, removed>>

\* The link is lost, or it was cut.
Lose ==
  /\ open # {}
  /\ open' = {}
  /\ UNCHANGED <<used, cutting, parted, removed>>

Want ==
  /\ cutting = {} /\ ~removed
  /\ parted' = FALSE
  /\ UNCHANGED <<used, open, cutting, removed>>

Cut(k) ==
  /\ cutting = {} /\ ~removed
  /\ cutting' = {k}
  /\ UNCHANGED <<used, open, parted, removed>>

Part(k) ==
  /\ k \in cutting
  /\ open = {}
  /\ cutting' = cutting \ {k}
  /\ parted' = TRUE
  /\ UNCHANGED <<used, open, removed>>

\* No link is wanted while there is none.
Forgo ==
  /\ open = {}
  /\ parted' = TRUE
  /\ UNCHANGED <<used, open, cutting, removed>>

Remove ==
  /\ open = {} /\ cutting = {}
  /\ removed' = TRUE
  /\ UNCHANGED <<used, open, cutting, parted>>

LinkNext ==
  \/ \E l \in Links : Open(l)
  \/ Lose \/ Want \/ Forgo \/ Remove
  \/ \E k \in Users : Cut(k) \/ Part(k)

LinkSpec == LinkInit /\ [][LinkNext]_linkVars
=============================================================================
