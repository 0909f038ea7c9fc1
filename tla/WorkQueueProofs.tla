---------------------------- MODULE WorkQueueProofs ----------------------------
(***************************************************************************)
(* Proofs about WorkQueueClients, for any finite or infinite sets of       *)
(* threads and packets and any MaxAdds: type correctness, no lost wake-up  *)
(* by add(), and refinement of the ideal FIFO.                             *)
(***************************************************************************)
EXTENDS WorkQueueClients, SequenceTheorems, TLAPS

\* What remains of a history keeps doing so when the same packet is appended to
\* both.
LEMMA AppendKeepsRest ==
  ASSUME NEW S, NEW q \in Seq(S), NEW h \in Seq(S), NEW n \in Nat, NEW x \in S,
         IsRest(q, h, n)
  PROVE  IsRest(Append(q, x), Append(h, x), n)
<1> DEFINE q2 == Append(q, x)
           h2 == Append(h, x)
<1>1. /\ Len(q) \in Nat /\ Len(h) \in Nat
      /\ Len(q2) = Len(q) + 1 /\ Len(h2) = Len(h) + 1
      /\ q2[Len(q) + 1] = x /\ h2[Len(h) + 1] = x
      /\ \A k \in 1..Len(q) : q2[k] = q[k]
      /\ \A k \in 1..Len(h) : h2[k] = h[k]
  BY AppendProperties, LenProperties
<1> HIDE DEF q2, h2
<1> USE DEF IsRest
<1>2. \A k \in 1..Len(q2) : q2[k] = h2[n + k]
  <2> TAKE k \in 1..Len(q2)
  <2>1. CASE k \in 1..Len(q)
    <3>1. n + k \in 1..Len(h)
      BY <2>1, <1>1
    <3> QED BY <3>1, <2>1, <1>1
  <2>2. CASE k = Len(q) + 1
    <3>1. n + k = Len(h) + 1
      BY <2>2, <1>1
    <3> QED BY <3>1, <2>2, <1>1
  <2> QED BY <2>1, <2>2, <1>1
<1> QED BY <1>1, <1>2 DEF q2, h2

\* It keeps doing so, one packet further on, when the head of the remainder is
\* removed; and that head is the next packet of the history.
LEMMA TailKeepsRest ==
  ASSUME NEW S, NEW q \in Seq(S), NEW h \in Seq(S), NEW n \in Nat, q # <<>>,
         IsRest(q, h, n)
  PROVE  /\ IsRest(Tail(q), h, n + 1)
         /\ n < Len(h)
         /\ Head(q) = h[n + 1]
BY DEF IsRest

\* The initial states satisfy the inductive invariant.
LEMMA InitIInv == Init => IInv
<1> SUFFICES ASSUME Init PROVE IInv
  OBVIOUS
<1> USE DEF Init, QueueInit
<1>1. TypeOK
  BY EmptySeq DEF TypeOK, QueueTypeOK, Locations
<1>2. QueueIsTail
  BY EmptySeq DEF QueueIsTail, IsRest
<1>3. NoSleeperBesideWork /\ AddersHoldItem /\ Roles
  BY DEF NoSleeperBesideWork, AddersHoldItem, Roles
<1> QED BY <1>1, <1>2, <1>3 DEF IInv

\* Every step keeps the inductive invariant.
LEMMA NextIInv == IInv /\ [Next]_vars => IInv'
<1> SUFFICES ASSUME IInv, [Next]_vars PROVE IInv'
  OBVIOUS
<1> USE NullAssumption, ClientsAssumption
<1> USE DEF IInv, TypeOK, QueueTypeOK, Locations, AddersHoldItem, Roles, queueVars
<1>1. ASSUME NEW t \in Producers, Add(t) PROVE IInv'
  BY <1>1 DEF Add, AddBegin, QueueIsTail, NoSleeperBesideWork
<1>2. ASSUME NEW t \in Producers, Push(t) PROVE IInv'
  <2> USE <1>2 DEF Push, AddPush, Enqueue
  <2>1. item[t] \in Items
    OBVIOUS
  <2>2. (TypeOK /\ AddersHoldItem /\ Roles)'
    BY <2>1 DEF NotifyAll
  <2>3. QueueIsTail'
    BY <2>1, AppendKeepsRest DEF QueueIsTail
  <2>4. NoSleeperBesideWork'
    BY DEF NoSleeperBesideWork, NotifyAll, MutexFree
  <2> QED BY <2>2, <2>3, <2>4
<1>3. ASSUME NEW t \in Consumers, Pop(t) PROVE IInv'
  <2> USE <1>3 DEF Pop, RemoveTake, Take, InRemove
  <2>1. Head(m_queue) \in Items /\ Tail(m_queue) \in Seq(Items)
    OBVIOUS
  <2>2. (TypeOK /\ AddersHoldItem /\ Roles)'
    BY <2>1
  <2>3. QueueIsTail'
    BY TailKeepsRest DEF QueueIsTail
  <2>4. NoSleeperBesideWork'
    BY DEF NoSleeperBesideWork
  <2> QED BY <2>2, <2>3, <2>4
<1>4. ASSUME NEW t \in Threads, Quiet(t) PROVE IInv'
  <2> USE DEF QueueIsTail, NoSleeperBesideWork
  <2>1. CASE AddRefused(t)
    BY <1>4, <2>1 DEF Quiet, AddRefused
  <2>2. CASE t \in Consumers /\ RemoveNull(t)
    BY <1>4, <2>2 DEF Quiet, RemoveNull, InRemove
  <2>3. CASE t \in Consumers /\ RemoveWait(t)
    BY <1>4, <2>3 DEF Quiet, RemoveWait, InRemove, MayProceed
  <2>4. CASE t \in Consumers /\ (Park(t) \/ SpuriousWake(t))
    BY <1>4, <2>4 DEF Quiet, Park, SpuriousWake
  <2>5. CASE t \in Stoppers /\ StopSet(t)
    BY <1>4, <2>5 DEF Quiet, StopSet
  <2>6. CASE t \in Stoppers /\ StopNotify(t)
    BY <1>4, <2>6 DEF Quiet, StopNotify, NotifyAll
  <2> QED BY <1>4, <2>1, <2>2, <2>3, <2>4, <2>5, <2>6 DEF Quiet
<1>5. CASE UNCHANGED vars
  BY <1>5 DEF vars, QueueIsTail, NoSleeperBesideWork
<1> QED BY <1>1, <1>2, <1>3, <1>4, <1>5 DEF Next

\* The inductive invariant holds in every reachable state.
THEOREM Invariance == Spec => []IInv
BY InitIInv, NextIInv, PTL DEF Spec

\* Type correctness: the queue holds packets only, never the NULL that remove()
\* returns, so a consumer that is handed NULL knows that the queue was stopped.
THEOREM TypeCorrect == Spec => []TypeOK
<1>1. IInv => TypeOK
  BY DEF IInv
<1> QED BY Invariance, <1>1, PTL

\* add() loses no wake-up: nobody sleeps in remove() beside a packet, however many
\* threads add, remove and stop.
THEOREM AddWakes == Spec => []NoSleeperBesideWork
<1>1. IInv => NoSleeperBesideWork
  BY DEF IInv
<1> QED BY Invariance, <1>1, PTL

-----------------------------------------------------------------------------
\* The steps of the queue are steps of the FIFO, or leave it alone.
LEMMA StepSimulation == IInv /\ [Next]_vars => [Fifo!FifoNext]_(Fifo!fifoVars)
<1> SUFFICES ASSUME IInv, [Next]_vars
             PROVE  Fifo!FifoNext \/ UNCHANGED Fifo!fifoVars
  OBVIOUS
<1> USE NullAssumption, ClientsAssumption
<1> USE DEF IInv, TypeOK, QueueTypeOK, Locations, queueVars, Fifo!FifoNext,
        Fifo!fifoVars
<1>1. ASSUME NEW t \in Producers, Add(t) PROVE UNCHANGED Fifo!fifoVars
  BY <1>1 DEF Add, AddBegin
<1>2. ASSUME NEW t \in Producers, Push(t) PROVE Fifo!FifoNext
  <2>1. item[t] \in Items
    BY <1>2 DEF Push, AddPush, Enqueue, AddersHoldItem
  <2>2. Fifo!Put(item[t])
    BY <1>2 DEF Push, AddPush, Enqueue, Fifo!Put
  <2> QED BY <2>1, <2>2
<1>3. ASSUME NEW t \in Consumers, Pop(t) PROVE Fifo!FifoNext
  <2>1. taken < Len(added) /\ Head(m_queue) = added[taken + 1]
    BY <1>3, TailKeepsRest DEF Pop, RemoveTake, Take, QueueIsTail
  <2>2. Fifo!Take(t)
    BY <1>3, <2>1 DEF Pop, RemoveTake, Take, Fifo!Take
  <2> QED BY <2>2
<1>4. ASSUME NEW t \in Threads, Quiet(t)
      PROVE  Fifo!FifoNext \/ UNCHANGED Fifo!fifoVars
  <2>1. CASE AddRefused(t)
    BY <1>4, <2>1 DEF Quiet, AddRefused
  <2>2. CASE t \in Consumers /\ RemoveNull(t)
    <3>1. taken = Len(added)
      BY <2>2, EmptySeq DEF RemoveNull, QueueIsTail, IsRest
    <3>2. Fifo!TakeNothing(t)
      BY <1>4, <2>2, <3>1 DEF Quiet, RemoveNull, Fifo!TakeNothing
    <3> QED BY <2>2, <3>2
  <2>3. CASE t \in Consumers /\ (RemoveWait(t) \/ Park(t) \/ SpuriousWake(t))
    BY <1>4, <2>3 DEF Quiet, RemoveWait, Park, SpuriousWake
  <2>4. CASE t \in Stoppers /\ StopSet(t)
    <3>1. Fifo!Close
      BY <1>4, <2>4 DEF Quiet, StopSet, Fifo!Close
    <3> QED BY <3>1
  <2>5. CASE t \in Stoppers /\ StopNotify(t)
    BY <1>4, <2>5 DEF Quiet, StopNotify
  <2> QED BY <1>4, <2>1, <2>2, <2>3, <2>4, <2>5 DEF Quiet
<1>5. CASE UNCHANGED vars
  BY <1>5 DEF vars
<1> QED BY <1>1, <1>2, <1>3, <1>4, <1>5 DEF Next

\* The queue implements the ideal FIFO: every packet that was added before the stop
\* comes out of remove() once and in order, and NULL only from a stopped, empty queue.
THEOREM Refinement == Spec => ImplementsFifo
<1>1. Init => Fifo!FifoInit
  BY ClientsAssumption DEF Init, QueueInit, Fifo!FifoInit
<1> QED BY Invariance, StepSimulation, <1>1, PTL DEF Spec, ImplementsFifo, Fifo!FifoSpec
=============================================================================
