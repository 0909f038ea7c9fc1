------------------------------- MODULE WorkQueue -------------------------------
(***************************************************************************)
(* The operations of WorkQueue<T> (src/src/Queue.hpp), the queue between   *)
(* the thread that receives packets and the thread that decodes them.      *)
(*                                                                         *)
(* Every operation is cut where another thread can run in between.  A      *)
(* critical section that neither blocks nor calls out is one action,       *)
(* enabled when mMutex is free.  The one place at which a thread keeps     *)
(* mMutex from one action to the next is condition_variable::wait, between *)
(* the evaluation of the predicate and the moment the thread is put on the *)
(* list of waiters: location "parking".  stop() does not take mMutex, so   *)
(* it can run right there.                                                 *)
(*                                                                         *)
(* The module has no specification of its own: WorkQueueClients closes it  *)
(* with the most general client, the decoder modules with the real ones.   *)
(***************************************************************************)
EXTENDS Naturals, Sequences

CONSTANTS
  Threads, \* the threads that call the queue
  Items,   \* the packets (PacketItem *)
  Null     \* the NULL that remove() returns on a stopped, empty queue

ASSUME NullAssumption == Null \notin Items

VARIABLES
  m_queue,      \* the list of packets
  m_shouldStop, \* set by stop(), never cleared
  at,           \* where each thread is inside an operation of the queue
  item          \* the argument of add() or the result of the last remove()

queueVars == <<m_queue, m_shouldStop, at, item>>

\* "idle": in no operation; "adding": in add(), past the test of m_shouldStop;
\* "parking": in wait(), predicate false, mMutex held; "asleep": on the list of
\* waiters; "woken": notified, not yet holding mMutex; "stopping": in stop(),
\* between the store and notify_all().
Locations == {"idle", "adding", "parking", "asleep", "woken", "stopping"}

QueueTypeOK ==
  /\ m_queue \in Seq(Items)
  /\ m_shouldStop \in BOOLEAN
  /\ at \in [Threads -> Locations]
  /\ item \in [Threads -> Items \cup {Null}]

QueueInit ==
  /\ m_queue = <<>>
  /\ m_shouldStop = FALSE
  /\ at = [t \in Threads |-> "idle"]
  /\ item = [t \in Threads |-> Null]

\* Mutant of NotifyAll: nobody is notified.
NotifyNobody == at

MutexFree == \A t \in Threads : at[t] # "parking"

\* Mutant of MayProceed: the stop flag is forgotten.
MayProceedOnPacket == m_queue # <<>>

\* The predicate remove() waits for.
MayProceed == m_shouldStop \/ m_queue # <<>>

NotifyAll == [t \in Threads |-> IF at[t] = "asleep" THEN "woken" ELSE at[t]]

-----------------------------------------------------------------------------
\* add(): the test of m_shouldStop is made before mMutex is taken.

AddRefused(t) ==
  /\ at[t] = "idle"
  /\ m_shouldStop
  /\ UNCHANGED queueVars

AddBegin(t, i) ==
  /\ at[t] = "idle"
  /\ ~m_shouldStop
  /\ at' = [at EXCEPT ![t] = "adding"]
  /\ item' = [item EXCEPT ![t] = i]
  /\ UNCHANGED <<m_queue, m_shouldStop>>

\* The critical section of add(), which leaves q in the queue.
Enqueue(t, q) ==
  /\ at[t] = "adding"
  /\ MutexFree
  /\ m_queue' = q
  /\ at' = [NotifyAll EXCEPT ![t] = "idle"]
  /\ item' = [item EXCEPT ![t] = Null]
  /\ UNCHANGED m_shouldStop

\* Mutants of AddPush: push_front; the argument cleared before it is pushed.
AddPushFront(t) == Enqueue(t, <<item[t]>> \o m_queue)
AddPushCleared(t) == Enqueue(t, Append(m_queue, Null))

AddPush(t) == Enqueue(t, Append(m_queue, item[t]))

-----------------------------------------------------------------------------
\* remove(), entered from "idle" and resumed from "woken".

InRemove(t) == at[t] \in {"idle", "woken"}

Take(t, result) ==
  /\ InRemove(t)
  /\ MutexFree
  /\ m_queue # <<>>
  /\ item' = [item EXCEPT ![t] = result]
  /\ m_queue' = Tail(m_queue)
  /\ at' = [at EXCEPT ![t] = "idle"]
  /\ UNCHANGED m_shouldStop

RemoveTake(t) == Take(t, Head(m_queue))

RemoveNull(t) ==
  /\ InRemove(t)
  /\ MutexFree
  /\ m_queue = <<>>
  /\ m_shouldStop
  /\ item' = [item EXCEPT ![t] = Null]
  /\ at' = [at EXCEPT ![t] = "idle"]
  /\ UNCHANGED <<m_queue, m_shouldStop>>

\* remove() whose caller does not keep the packet.
RemoveForgotten(t) == Take(t, Null) \/ RemoveNull(t)

RemoveWait(t) ==
  /\ InRemove(t)
  /\ MutexFree
  /\ ~MayProceed
  /\ at' = [at EXCEPT ![t] = "parking"]
  /\ UNCHANGED <<m_queue, m_shouldStop, item>>

Park(t) ==
  /\ at[t] = "parking"
  /\ at' = [at EXCEPT ![t] = "asleep"]
  /\ UNCHANGED <<m_queue, m_shouldStop, item>>

\* The standard lets a condition variable wake without a notification.
SpuriousWake(t) ==
  /\ at[t] = "asleep"
  /\ at' = [at EXCEPT ![t] = "woken"]
  /\ UNCHANGED <<m_queue, m_shouldStop, item>>

-----------------------------------------------------------------------------
\* size(): Len(m_queue), read under mMutex.
Size(t, n) ==
  /\ at[t] = "idle"
  /\ MutexFree
  /\ n = Len(m_queue)
  /\ UNCHANGED queueVars

-----------------------------------------------------------------------------
\* stop(): a store and a notification, neither under mMutex.

StopSet(t) ==
  /\ at[t] = "idle"
  /\ m_shouldStop' = TRUE
  /\ at' = [at EXCEPT ![t] = "stopping"]
  /\ UNCHANGED <<m_queue, item>>

StopNotify(t) ==
  /\ at[t] = "stopping"
  /\ at' = [NotifyAll EXCEPT ![t] = "idle"]
  /\ UNCHANGED <<m_queue, m_shouldStop, item>>
=============================================================================
