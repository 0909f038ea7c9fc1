------------------------------ MODULE PacketFifo ------------------------------
(***************************************************************************)
(* What a queue of packets promises its users, with no threads, locks or   *)
(* waiting: the packets put in come out in the order in which they were    *)
(* put in, each of them once, and a taker is sent away empty-handed only   *)
(* after the queue was closed and only when nothing is left in it.         *)
(*                                                                         *)
(* A put may still arrive after the close: a writer that was already       *)
(* inside the operation is not recalled.                                   *)
(***************************************************************************)
EXTENDS Naturals, Sequences

CONSTANTS Takers, Packets, Nothing

VARIABLES
  log,    \* all packets ever put, in order
  got,    \* how many of them have been taken
  closed,
  result  \* what each taker was handed last

fifoVars == <<log, got, closed, result>>

FifoInit ==
  /\ log = <<>>
  /\ got = 0
  /\ closed = FALSE
  /\ result = [t \in Takers |-> Nothing]

Put(p) ==
  /\ log' = Append(log, p)
  /\ UNCHANGED <<got, closed, result>>

Take(t) ==
  /\ got < Len(log)
  /\ got' = got + 1
  /\ result' = [result EXCEPT ![t] = log[got + 1]]
  /\ UNCHANGED <<log, closed>>

TakeNothing(t) ==
  /\ closed
  /\ got = Len(log)
  /\ result' = [result EXCEPT ![t] = Nothing]
  /\ UNCHANGED <<log, got, closed>>

Close ==
  /\ closed' = TRUE
  /\ UNCHANGED <<log, got, result>>

FifoNext ==
  \/ \E p \in Packets : Put(p)
  \/ \E t \in Takers : Take(t) \/ TakeNothing(t)
  \/ Close

FifoSpec == FifoInit /\ [][FifoNext]_fifoVars
=============================================================================
