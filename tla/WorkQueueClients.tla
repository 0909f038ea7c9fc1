--------------------------- MODULE WorkQueueClients ---------------------------
(***************************************************************************)
(* WorkQueue closed with its most general client: producers that add,      *)
(* consumers that remove, and threads that stop the queue, each as often   *)
(* as it likes and in any order.  What holds here holds for every decoder. *)
(***************************************************************************)
EXTENDS WorkQueue

CONSTANTS
  Producers, Consumers, Stoppers, \* which threads call which operation
  MaxAdds                         \* bound: calls of add() that enter the queue

ASSUME ClientsAssumption ==
  /\ Threads = Producers \cup Consumers \cup Stoppers
  /\ Producers \cap Consumers = {}
  /\ Producers \cap Stoppers = {}
  /\ Consumers \cap Stoppers = {}
  /\ MaxAdds \in Nat

VARIABLES
  begun, \* how many calls of add() passed the test of m_shouldStop
  added, \* history: every packet pushed, in order
  taken  \* history: how many packets were popped

vars == <<queueVars, begun, added, taken>>

Init ==
  /\ QueueInit
  /\ begun = 0
  /\ added = <<>>
  /\ taken = 0

Add(t) ==
  /\ begun < MaxAdds
  /\ begun' = begun + 1
  /\ \E i \in Items : AddBegin(t, i)
  /\ UNCHANGED <<added, taken>>

Push(t) ==
  /\ AddPush(t)
  /\ added' = Append(added, item[t])
  /\ UNCHANGED <<begun, taken>>

Pop(t) ==
  /\ RemoveTake(t)
  /\ taken' = taken + 1
  /\ UNCHANGED <<begun, added>>

\* The steps that move no packet.
Quiet(t) ==
  /\ \/ t \in Producers /\ AddRefused(t)
     \/ t \in Consumers /\ (RemoveNull(t) \/ RemoveWait(t) \/ Park(t) \/ SpuriousWake(t))
     \/ t \in Stoppers /\ (StopSet(t) \/ StopNotify(t))
  /\ UNCHANGED <<begun, added, taken>>

Next ==
  \/ \E t \in Producers : Add(t) \/ Push(t)
  \/ \E t \in Consumers : Pop(t)
  \/ \E t \in Threads : Quiet(t)

Spec == Init /\ [][Next]_vars

-----------------------------------------------------------------------------
\* Every variable has its type; in particular the queue never holds NULL.
TypeOK ==
  /\ QueueTypeOK
  /\ begun \in Nat
  /\ added \in Seq(Items)
  /\ taken \in Nat

\* q is what remains of the history h once its first n packets are gone.
IsRest(q, h, n) ==
  /\ n <= Len(h)
  /\ Len(q) = Len(h) - n
  /\ \A k \in 1..Len(q) : q[k] = h[n + k]

\* Nothing is lost, duplicated or overtaken: what is queued is exactly what was
\* added and not yet taken, in the order of the additions (Queue.hpp:84, 93-95).
QueueIsTail == IsRest(m_queue, added, taken)

\* No lost wake-up by add(): as long as a thread sleeps in remove(), or is about
\* to, the queue is empty.  add() pushes and notifies under mMutex, and wait()
\* gives mMutex up only by putting the thread on the list of waiters
\* (Queue.hpp:79-91).
NoSleeperBesideWork ==
  (\E t \in Threads : at[t] \in {"parking", "asleep"}) => m_queue = <<>>

\* mMutex has at most one holder.
OneParker ==
  \A s, t \in Threads : at[s] = "parking" /\ at[t] = "parking" => s = t

\* A thread in add() holds the packet it will push.
AddersHoldItem ==
  \A t \in Threads : at[t] = "adding" => item[t] \in Items

\* Only consumers are ever inside remove().
Roles ==
  \A t \in Threads :
    /\ at[t] \in {"parking", "asleep", "woken"} => t \in Consumers
    /\ at[t] = "adding" => t \in Producers

\* The inductive invariant of the proofs.
IInv == TypeOK /\ QueueIsTail /\ NoSleeperBesideWork /\ AddersHoldItem /\ Roles

\* The queue implements the ideal FIFO of module PacketFifo: packets come out of
\* remove() once each and in the order of the additions whatever the threads do,
\* and NULL is returned only when stop() was called and the queue was empty
\* (Queue.hpp:88-103).
Fifo == INSTANCE PacketFifo
  WITH Takers <- Consumers, Packets <- Items, Nothing <- Null,
       log <- added, got <- taken, closed <- m_shouldStop,
       result <- [t \in Consumers |-> item[t]]

ImplementsFifo == Fifo!FifoSpec
=============================================================================
