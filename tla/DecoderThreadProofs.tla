-------------------------- MODULE DecoderThreadProofs --------------------------
(***************************************************************************)
(* What the proofs about the two decoders share: lemmas about increasing   *)
(* queues, and that the operations of DecoderThread keep the types and the *)
(* order of the packets.                                                   *)
(***************************************************************************)
EXTENDS DecoderThread, SequenceTheorems, TLAPS

\* The queue is in the order of arrival, without duplicates.
Increasing(q) == \A j, k \in 1..Len(q) : j < k => q[j] < q[k]

\* All packets, or the newest m, are newer than packet n; no packet is newer than n.
AllAbove(q, n) == \A k \in 1..Len(q) : n < q[k]
LastAbove(q, m, n) == \A k \in 1..Len(q) : Len(q) < k + m => n < q[k]
AllUpTo(q, n) == \A k \in 1..Len(q) : q[k] <= n

LEMMA AppendIncreasing ==
  ASSUME NEW q \in Seq(Nat), NEW n \in Nat, Increasing(q), AllUpTo(q, n)
  PROVE  Increasing(Append(q, n + 1)) /\ AllUpTo(Append(q, n + 1), n + 1)
<1> DEFINE r == Append(q, n + 1)
<1>1. /\ Len(q) \in Nat /\ Len(r) = Len(q) + 1
      /\ r[Len(q) + 1] = n + 1
      /\ \A k \in 1..Len(q) : r[k] = q[k] /\ q[k] \in Nat
  BY AppendProperties, LenProperties, ElementOfSeq
<1> HIDE DEF r
<1>2. Increasing(r)
  <2> SUFFICES ASSUME NEW j \in 1..Len(r), NEW k \in 1..Len(r), j < k PROVE r[j] < r[k]
    BY DEF Increasing
  <2>1. j \in 1..Len(q) /\ r[j] = q[j] /\ q[j] \in Nat
    BY <1>1
  <2>2. CASE k \in 1..Len(q)
    BY <2>1, <2>2, <1>1 DEF Increasing
  <2>3. CASE k = Len(q) + 1
    BY <2>1, <2>3, <1>1 DEF AllUpTo
  <2> QED BY <2>2, <2>3, <1>1
<1>3. AllUpTo(r, n + 1)
  <2> SUFFICES ASSUME NEW k \in 1..Len(r) PROVE r[k] <= n + 1
    BY DEF AllUpTo
  <2>1. CASE k \in 1..Len(q)
    BY <2>1, <1>1 DEF AllUpTo
  <2>2. CASE k = Len(q) + 1
    BY <2>2, <1>1
  <2> QED BY <2>1, <2>2, <1>1
<1> QED BY <1>2, <1>3 DEF r

LEMMA AppendAbove ==
  ASSUME NEW q \in Seq(Nat), NEW x \in Nat, NEW m \in Nat, NEW n \in Nat, n < x
  PROVE  /\ AllAbove(q, n) => AllAbove(Append(q, x), n)
         /\ LastAbove(q, m, n) => LastAbove(Append(q, x), m, n)
<1> DEFINE r == Append(q, x)
<1>1. /\ Len(q) \in Nat /\ Len(r) = Len(q) + 1
      /\ r[Len(q) + 1] = x
      /\ \A k \in 1..Len(q) : r[k] = q[k]
  BY AppendProperties, LenProperties
<1> HIDE DEF r
<1>2. ASSUME AllAbove(q, n), NEW k \in 1..Len(r) PROVE n < r[k]
  <2>1. CASE k \in 1..Len(q)
    BY <2>1, <1>1, <1>2 DEF AllAbove
  <2>2. CASE k = Len(q) + 1
    BY <2>2, <1>1
  <2> QED BY <2>1, <2>2, <1>1
<1>3. ASSUME LastAbove(q, m, n), NEW k \in 1..Len(r), Len(r) < k + m PROVE n < r[k]
  <2>1. CASE k \in 1..Len(q)
    BY <2>1, <1>1, <1>3 DEF LastAbove
  <2>2. CASE k = Len(q) + 1
    BY <2>2, <1>1
  <2> QED BY <2>1, <2>2, <1>1
<1>4. AllAbove(q, n) => AllAbove(r, n)
  BY <1>2 DEF AllAbove
<1>5. LastAbove(q, m, n) => LastAbove(r, m, n)
  BY <1>3 DEF LastAbove
<1> QED BY <1>4, <1>5 DEF r

LEMMA TailIncreasing ==
  ASSUME NEW q \in Seq(Nat), NEW n \in Nat, q # <<>>, Increasing(q), AllUpTo(q, n)
  PROVE  /\ Tail(q) \in Seq(Nat) /\ Head(q) \in Nat /\ Head(q) <= n
         /\ Increasing(Tail(q)) /\ AllUpTo(Tail(q), n)
         /\ AllAbove(Tail(q), Head(q))
BY LenProperties, ElementOfSeq DEF Increasing, AllUpTo, AllAbove

LEMMA TailAbove ==
  ASSUME NEW q \in Seq(Nat), NEW m \in Nat, NEW n \in Nat, q # <<>>
  PROVE  /\ AllAbove(q, n) => AllAbove(Tail(q), n) /\ n < Head(q)
         /\ LastAbove(q, m, n) => LastAbove(Tail(q), m, n)
BY DEF AllAbove, LastAbove

\* The newest m of an increasing queue are newer than the packet before them.
LEMMA NewestAbove ==
  ASSUME NEW q \in Seq(Nat), NEW m \in Nat, m < Len(q), Increasing(q)
  PROVE  LastAbove(q, m, q[Len(q) - m])
BY LenProperties DEF Increasing, LastAbove

LEMMA ShortAbove ==
  ASSUME NEW q \in Seq(Nat), NEW m \in Nat, NEW n \in Nat, Len(q) <= m,
         LastAbove(q, m, n)
  PROVE  AllAbove(q, n)
BY LenProperties DEF LastAbove, AllAbove

-----------------------------------------------------------------------------
\* All steps of DecoderThread.
ThreadStep ==
  \/ \E f \in Feeders : FeederStep(f)
  \/ StartThread \/ Shutdown \/ ShutdownNotify \/ Join \/ Joined
  \/ RunStep
  \/ WorkerSpuriousWake

\* Types, with what is needed to keep them: only feeders are in add(), with a packet.
PCsTyped ==
  /\ pc = [t \in Threads |-> pc[t]]
  /\ pc[Worker] \in WorkerPCs /\ pc[Owner] \in OwnerPCs
  /\ pc[Owner] = "constructed" => pc[Worker] = "none"
CountsTyped == received \in 0..MaxItems /\ obsolete \in 0..MaxItems
AddersTyped == \A t \in Threads : at[t] = "adding" => t \in Feeders /\ item[t] \in Items

Typed ==
  /\ QueueTypeOK /\ AddersTyped
  /\ PCsTyped
  /\ mShouldStop \in BOOLEAN
  /\ CountsTyped

LEMMA TypedImpliesTypeOK == ASSUME Typed PROVE ThreadTypeOK
BY DEF Typed, PCsTyped, CountsTyped, ThreadTypeOK

LEMMA ThreadFacts ==
  /\ Worker \in Threads /\ Owner \in Threads /\ Worker # Owner
  /\ Feeders \subseteq Threads /\ Worker \notin Feeders /\ Owner \notin Feeders
BY DecoderAssumption

LEMMA CountFacts ==
  /\ Overload \in Nat /\ Keep \in Nat /\ Keep <= Overload /\ MaxItems \in Nat
  /\ Items = 1..MaxItems /\ Null = 0
BY DecoderAssumption

LEMMA InitTyped == ASSUME ThreadInit PROVE Typed
<1>1. QueueTypeOK
  BY EmptySeq DEF ThreadInit, QueueInit, QueueTypeOK, Locations
<1>2. AddersTyped
  BY DEF ThreadInit, QueueInit, AddersTyped
<1>3. PCsTyped
  BY ThreadFacts DEF ThreadInit, PCsTyped, WorkerPCs, OwnerPCs
<1>4. mShouldStop \in BOOLEAN
  BY DEF ThreadInit
<1>5. CountsTyped
  BY CountFacts DEF ThreadInit, CountsTyped
<1> QED BY <1>1, <1>2, <1>3, <1>4, <1>5 DEF Typed

-----------------------------------------------------------------------------
\* What an operation of the queue keeps.
QueueTyped == QueueTypeOK /\ AddersTyped

LEMMA AddBeginTyped ==
  ASSUME QueueTyped, NEW f \in Feeders, NEW i \in Items, AddBegin(f, i) PROVE QueueTyped'
BY ThreadFacts DEF QueueTyped, QueueTypeOK, AddersTyped, Locations, AddBegin

LEMMA AddPushTyped ==
  ASSUME QueueTyped, NEW f \in Feeders, AddPush(f) PROVE QueueTyped'
BY ThreadFacts DEF QueueTyped, QueueTypeOK, AddersTyped, Locations, AddPush, Enqueue, NotifyAll

\* Any step of remove().
RemoveStep(t) ==
  \/ RemoveTake(t) \/ RemoveForgotten(t) \/ RemoveNull(t)
  \/ RemoveWait(t) \/ Park(t) \/ SpuriousWake(t)

LEMMA RemoveTyped ==
  ASSUME QueueTyped, NEW t \in Threads,
         RemoveStep(t)
  PROVE  QueueTyped'
<1> USE DEF QueueTyped, QueueTypeOK, AddersTyped, Locations
<1>1. CASE RemoveTake(t) \/ Take(t, Null)
  <2>1. Head(m_queue) \in Items /\ Tail(m_queue) \in Seq(Items)
    BY <1>1 DEF RemoveTake, Take
  <2> QED BY <1>1, <2>1 DEF RemoveTake, Take
<1>2. CASE RemoveNull(t)
  BY <1>2 DEF RemoveNull
<1>3. CASE RemoveWait(t) \/ Park(t) \/ SpuriousWake(t)
  BY <1>3 DEF RemoveWait, Park, SpuriousWake
<1> QED BY <1>1, <1>2, <1>3 DEF RemoveStep, RemoveForgotten

LEMMA StopTyped ==
  ASSUME QueueTyped, NEW t \in Threads, StopSet(t) \/ StopNotify(t) PROVE QueueTyped'
BY DEF QueueTyped, QueueTypeOK, AddersTyped, Locations, StopSet, StopNotify, NotifyAll

LEMMA QuietTyped == ASSUME QueueTyped, UNCHANGED queueVars PROVE QueueTyped'
BY DEF QueueTyped, QueueTypeOK, AddersTyped, queueVars

-----------------------------------------------------------------------------
LEMMA GotoTyped ==
  ASSUME PCsTyped, NEW t \in Threads, NEW l, Goto(t, l),
         t = Worker => l \in WorkerPCs /\ pc[Worker] # "none",
         t = Owner => l \in OwnerPCs /\ l # "constructed"
  PROVE  PCsTyped'
BY ThreadFacts DEF PCsTyped, Goto

LEMMA StepTyped == ASSUME Typed, ThreadStep PROVE Typed'
<1> USE ThreadFacts DEF Typed, QueueTyped
<1>1. ASSUME NEW f \in Feeders, Input(f) PROVE Typed'
  <2>1. received + 1 \in Items /\ CountsTyped'
    BY <1>1, CountFacts DEF Input, CountsTyped
  <2>2. QueueTyped'
    BY <1>1, <2>1, AddBeginTyped DEF Input
  <2> QED BY <1>1, <2>1, <2>2 DEF Input, PCsTyped
<1>2. ASSUME NEW f \in Feeders, InputPush(f) PROVE Typed'
  <2>1. QueueTyped'
    BY <1>2, AddPushTyped DEF InputPush
  <2> QED BY <1>2, <2>1 DEF InputPush, PCsTyped, CountsTyped
<1>3. CASE StartThread
  <2>1. QueueTyped'
    BY <1>3, QuietTyped DEF StartThread
  <2>2. PCsTyped'
    BY <1>3 DEF StartThread, PCsTyped, WorkerPCs, OwnerPCs
  <2> QED BY <1>3, <2>1, <2>2 DEF StartThread, CountsTyped
<1>4. CASE Shutdown \/ ShutdownNotify
  <2>1. QueueTyped'
    BY <1>4, StopTyped DEF Shutdown, ShutdownNotify
  <2>2. PCsTyped'
    BY <1>4, GotoTyped DEF Shutdown, ShutdownNotify, OwnerPCs
  <2> QED BY <1>4, <2>1, <2>2 DEF Shutdown, ShutdownNotify, CountsTyped
<1>5. CASE Join \/ Joined
  <2>1. QueueTyped'
    BY <1>5, QuietTyped DEF Join, Joined
  <2>2. PCsTyped'
    BY <1>5, GotoTyped DEF Join, Joined, OwnerPCs
  <2> QED BY <1>5, <2>1, <2>2 DEF Join, Joined, CountsTyped
<1>6. CASE TestStop
  <2>1. QueueTyped'
    BY <1>6, QuietTyped DEF TestStop
  <2>2. PCsTyped'
    BY <1>6, GotoTyped DEF TestStop, WorkerPCs
  <2> QED BY <1>6, <2>1, <2>2 DEF TestStop, CountsTyped
<1>7. CASE Remove \/ Drop
  <2>1. QueueTyped'
    BY <1>7, RemoveTyped DEF Remove, Drop, RemoveStep
  <2>2. PCsTyped'
    BY <1>7, GotoTyped DEF Remove, Drop, WorkerPCs
  <2> QED BY <1>7, <2>1, <2>2 DEF Remove, Drop, CountsTyped
<1>8. CASE WorkerWait \/ WorkerSpuriousWake
  <2>1. QueueTyped'
    BY <1>8, RemoveTyped DEF WorkerWait, WorkerSpuriousWake, RemoveStep
  <2> QED BY <1>8, <2>1 DEF WorkerWait, WorkerSpuriousWake, PCsTyped, CountsTyped
<1>9. CASE CheckOverload
  <2>1. PICK n \in 0..MaxItems :
          /\ Size(Worker, n)
          /\ \/ n <= Overload /\ Goto(Worker, "test") /\ UNCHANGED obsolete
             \/ n > Overload /\ Goto(Worker, "dropSize") /\ obsolete' = m_queue[n - Keep]
    BY <1>9 DEF CheckOverload
  <2>2. n = Len(m_queue) /\ UNCHANGED queueVars
    BY <2>1 DEF Size
  <2>3. QueueTyped'
    BY <2>2, QuietTyped
  <2>4. PCsTyped'
    <3>1. pc[Worker] # "none"
      BY <1>9 DEF CheckOverload
    <3> QED BY <2>1, <3>1, GotoTyped DEF WorkerPCs
  <2>5. received' = received /\ mShouldStop' = mShouldStop
    BY <1>9 DEF CheckOverload
  <2>6. CountsTyped'
    <3>1. CASE UNCHANGED obsolete
      BY <2>5, <3>1 DEF CountsTyped
    <3>2. CASE n > Overload /\ obsolete' = m_queue[n - Keep]
      <4>1. n - Keep \in 1..Len(m_queue)
        BY <2>2, <3>2, CountFacts
      <4>2. m_queue[n - Keep] \in Items
        BY <4>1, ElementOfSeq DEF QueueTypeOK
      <4> QED BY <2>5, <3>2, <4>2, CountFacts DEF CountsTyped
    <3> QED BY <2>1, <3>1, <3>2
  <2> QED BY <2>3, <2>4, <2>5, <2>6
<1>10. CASE DropSize
  <2>1. QueueTyped'
    BY <1>10, QuietTyped DEF DropSize, DropTo, Size
  <2>2. PCsTyped'
    BY <1>10, GotoTyped DEF DropSize, DropTo, WorkerPCs
  <2> QED BY <1>10, <2>1, <2>2 DEF DropSize, DropTo, CountsTyped
<1> QED BY <1>1, <1>2, <1>3, <1>4, <1>5, <1>6, <1>7, <1>8, <1>9, <1>10
        DEF ThreadStep, FeederStep, RunStep

-----------------------------------------------------------------------------
\* The order of the packets, for threads that take turns in Input(), as the internal
\* threads of successive connections do (OneReceiver of ConnectionController).  Pushed
\* is the newest packet that is or was in the queue.
FeedersTakeTurns == \A f, g \in Feeders : at[f] = "adding" /\ at[g] = "adding" => f = g
TakingTurns == FeedersTakeTurns /\ FeedersTakeTurns'

AddingNewest == \A f \in Feeders : at[f] = "adding" => item[f] = received

\* What one step does to the queue: nothing, or a packet comes or goes.
Comes == m_queue' = Append(m_queue, Pushed + 1) /\ Pushed' = Pushed + 1
Goes == m_queue # <<>> /\ m_queue' = Tail(m_queue) /\ Pushed' = Pushed
Rests == m_queue' = m_queue /\ Pushed' = Pushed

LEMMA PushedType == ASSUME Typed, AddingNewest PROVE Pushed \in Nat /\ m_queue \in Seq(Nat)
<1>1. received \in Nat
  BY CountFacts DEF Typed, CountsTyped
<1>2. Adding => received \in Nat \ {0}
  <2> SUFFICES ASSUME Adding PROVE received # 0
    BY <1>1
  <2>1. PICK f \in Feeders : at[f] = "adding"
    BY DEF Adding
  <2>2. item[f] = received /\ item[f] \in 1..MaxItems
    BY <2>1, ThreadFacts, CountFacts DEF AddingNewest, Typed, AddersTyped
  <2> QED BY <2>2
<1>3. Pushed \in Nat
  BY <1>1, <1>2 DEF Pushed
<1>4. m_queue \in Seq(Nat)
  BY CountFacts, SeqMonotonic DEF Typed, QueueTypeOK
<1> QED BY <1>3, <1>4

\* A step that starts and ends no call of add() leaves Pushed alone.
LEMMA SameAdders ==
  ASSUME UNCHANGED received,
         \A f \in Feeders : (at'[f] = "adding" <=> at[f] = "adding")
                            /\ (at[f] = "adding" => item'[f] = item[f])
  PROVE  /\ Pushed' = Pushed
         /\ AddingNewest => AddingNewest'
BY DEF Pushed, Adding, AddingNewest

LEMMA RemoveMoves ==
  ASSUME Typed, AddingNewest, NEW t \in Threads, t \notin Feeders, UNCHANGED received,
         RemoveStep(t)
  PROVE  (Goes \/ Rests) /\ AddingNewest'
<1>1. \A f \in Feeders : at'[f] = at[f] /\ item'[f] = item[f]
  BY ThreadFacts DEF Typed, QueueTypeOK, RemoveStep, RemoveTake, RemoveForgotten, Take,
         RemoveNull, RemoveWait, Park, SpuriousWake
<1>2. Pushed' = Pushed /\ AddingNewest'
  BY <1>1, SameAdders
<1> QED BY <1>2 DEF Goes, Rests, RemoveStep, RemoveTake, RemoveForgotten, Take,
         RemoveNull, RemoveWait, Park, SpuriousWake

LEMMA QuietMoves ==
  ASSUME AddingNewest, UNCHANGED <<queueVars, received>> PROVE Rests /\ AddingNewest'
BY SameAdders DEF queueVars, Rests

LEMMA StepMoves ==
  ASSUME TakingTurns, Typed, AddingNewest, ThreadStep
  PROVE  /\ (Comes /\ pc[Owner] # "destroyed") \/ Goes \/ Rests
         /\ AddingNewest'
<1> USE ThreadFacts
<1>1. ASSUME NEW f \in Feeders, Input(f) PROVE Rests /\ AddingNewest'
  <2>1. ~Adding /\ Adding' /\ AddingNewest'
    <3>1. at[f] = "idle" /\ at' = [at EXCEPT ![f] = "adding"] /\ item'[f] = received'
      BY <1>1 DEF Input, AddBegin, Typed, QueueTypeOK
    <3>2. \A g \in Feeders : at'[g] = "adding" => g = f
      BY <3>1 DEF TakingTurns, FeedersTakeTurns, Typed, QueueTypeOK
    <3>3. \A g \in Feeders \ {f} : at'[g] = at[g]
      BY <3>1 DEF Typed, QueueTypeOK
    <3> QED BY <3>1, <3>2, <3>3 DEF Adding, AddingNewest, Typed, QueueTypeOK
  <2>2. received' = received + 1 /\ m_queue' = m_queue /\ received \in Nat
    BY <1>1, CountFacts DEF Input, AddBegin, Typed, CountsTyped
  <2> QED BY <2>1, <2>2 DEF Rests, Pushed
<1>2. ASSUME NEW f \in Feeders, InputPush(f)
      PROVE  Comes /\ AddingNewest' /\ pc[Owner] # "destroyed"
  <2>1. Adding /\ item[f] = received
    BY <1>2 DEF InputPush, AddPush, Enqueue, Adding, AddingNewest
  <2>2. ~Adding'
    BY <1>2 DEF InputPush, AddPush, Enqueue, Adding, TakingTurns, FeedersTakeTurns, Typed,
                QueueTypeOK, NotifyAll, Locations
  <2>3. AddingNewest'
    BY <2>2 DEF Adding, AddingNewest
  <2>4. received' = received /\ m_queue' = Append(m_queue, item[f]) /\ received \in Nat
    BY <1>2, CountFacts DEF InputPush, AddPush, Enqueue, Typed, CountsTyped
  <2>5. Pushed + 1 = item[f] /\ Pushed' = Pushed + 1
    BY <2>1, <2>2, <2>4 DEF Pushed
  <2> QED BY <1>2, <2>3, <2>4, <2>5 DEF Comes, InputPush
<1>3. CASE StartThread \/ Join \/ Joined \/ TestStop \/ CheckOverload \/ DropSize
  BY <1>3, QuietMoves DEF StartThread, Join, Joined, TestStop, CheckOverload, DropSize, DropTo, Size
<1>4. CASE Shutdown \/ ShutdownNotify
  <2>1. \A f \in Feeders : (at'[f] = "adding" <=> at[f] = "adding") /\ item'[f] = item[f]
    BY <1>4 DEF Shutdown, ShutdownNotify, StopSet, StopNotify, NotifyAll, Typed, QueueTypeOK
  <2> QED BY <1>4, <2>1, SameAdders DEF Shutdown, ShutdownNotify, StopSet, StopNotify, Rests
<1>5. CASE Remove \/ Drop
  BY <1>5, RemoveMoves DEF Remove, Drop, RemoveStep
<1>6. CASE WorkerWait \/ WorkerSpuriousWake
  BY <1>6, RemoveMoves DEF WorkerWait, WorkerSpuriousWake, RemoveStep
<1> QED BY <1>1, <1>2, <1>3, <1>4, <1>5, <1>6 DEF ThreadStep, FeederStep, RunStep

Moves == Comes \/ Goes \/ Rests

LEMMA MovesIncreasing ==
  ASSUME Typed, AddingNewest, Moves, Increasing(m_queue), AllUpTo(m_queue, Pushed)
  PROVE  Increasing(m_queue') /\ AllUpTo(m_queue', Pushed')
BY PushedType, AppendIncreasing, TailIncreasing DEF Moves, Comes, Goes, Rests

\* A packet that is in the past stays there.
LEMMA MovesAbove ==
  ASSUME Typed, AddingNewest, Moves, NEW m \in Nat, NEW n \in Nat, n <= Pushed
  PROVE  /\ n <= Pushed'
         /\ AllAbove(m_queue, n) => AllAbove(m_queue', n)
         /\ LastAbove(m_queue, m, n) => LastAbove(m_queue', m, n)
<1>1. Pushed \in Nat /\ m_queue \in Seq(Nat) /\ n < Pushed + 1
  BY PushedType
<1>2. CASE Comes
  BY <1>1, <1>2, AppendAbove DEF Comes
<1>3. CASE Goes
  BY <1>1, <1>3, TailAbove DEF Goes
<1>4. CASE Rests
  BY <1>4 DEF Rests
<1> QED BY <1>2, <1>3, <1>4 DEF Moves

Dropping == pc[Worker] \in {"dropSize", "dropRemove"}
Processing == pc[Worker] \in {"process", "decode"}

\* What the overload condemned is nowhere but among the packets still to be dropped,
\* and what the worker decodes is older than the whole queue.
Ordered ==
  /\ Increasing(m_queue) /\ AllUpTo(m_queue, Pushed)
  /\ obsolete <= Pushed
  /\ LastAbove(m_queue, Keep, obsolete)
  /\ ~Dropping => AllAbove(m_queue, obsolete)
  /\ Processing => /\ item[Worker] \in Items
                   /\ obsolete < item[Worker] /\ item[Worker] <= Pushed
                   /\ AllAbove(m_queue, item[Worker])

\* Steps that neither finish dropping nor take a packet to process it.
LEMMA CarryOrdered ==
  ASSUME Typed, AddingNewest, Moves, Ordered, UNCHANGED obsolete,
         Dropping => Dropping',
         Processing' => Processing /\ item'[Worker] = item[Worker]
  PROVE  Ordered'
<1>1. obsolete \in Nat /\ Keep \in Nat
  BY CountFacts DEF Typed, CountsTyped
<1>2. Increasing(m_queue') /\ AllUpTo(m_queue', Pushed')
  BY MovesIncreasing DEF Ordered
<1>3. /\ obsolete <= Pushed'
      /\ LastAbove(m_queue', Keep, obsolete)
      /\ ~Dropping => AllAbove(m_queue', obsolete)
  BY <1>1, MovesAbove DEF Ordered
<1>4. ASSUME Processing'
      PROVE  /\ item[Worker] \in Items
             /\ obsolete < item[Worker] /\ item[Worker] <= Pushed'
             /\ AllAbove(m_queue', item[Worker])
  <2>1. /\ item[Worker] \in Items /\ item[Worker] \in Nat
        /\ obsolete < item[Worker] /\ item[Worker] <= Pushed
        /\ AllAbove(m_queue, item[Worker])
    BY <1>4, CountFacts DEF Ordered
  <2> QED BY <2>1, <1>1, MovesAbove
<1> QED BY <1>2, <1>3, <1>4 DEF Ordered

LEMMA InitOrdered == ASSUME ThreadInit PROVE Ordered /\ AddingNewest
<1>1. m_queue = <<>> /\ Len(m_queue) = 0
  BY EmptySeq DEF ThreadInit, QueueInit
<1>2. ~Adding /\ AddingNewest
  BY ThreadFacts DEF ThreadInit, QueueInit, Adding, AddingNewest
<1>3. received = 0 /\ obsolete = 0 /\ ~Processing
  BY ThreadFacts DEF ThreadInit, Processing
<1> QED BY <1>1, <1>2, <1>3
        DEF Ordered, Increasing, AllUpTo, LastAbove, AllAbove, Pushed

LEMMA StepOrdered ==
  ASSUME TakingTurns, Typed, AddingNewest, Ordered, ThreadStep
  PROVE  Ordered'
<1> USE ThreadFacts
<1>1. Moves /\ AddingNewest'
  BY StepMoves DEF Moves
<1>2. CASE \/ \E f \in Feeders : FeederStep(f)
           \/ StartThread \/ Shutdown \/ ShutdownNotify \/ Join \/ Joined
           \/ WorkerWait \/ WorkerSpuriousWake
  <2>1. UNCHANGED obsolete
    BY <1>2 DEF FeederStep, Input, InputPush, StartThread, Shutdown, ShutdownNotify, Join,
                Joined, WorkerWait, WorkerSpuriousWake
  <2>2. \/ pc'[Worker] = pc[Worker] /\ item'[Worker] = item[Worker]
        \/ ~Processing' /\ ~Dropping
    <3>1. CASE \E f \in Feeders : FeederStep(f)
      BY <3>1 DEF FeederStep, Input, InputPush, AddBegin, AddPush, Enqueue, Typed, QueueTypeOK
    <3>2. CASE StartThread
      BY <3>2 DEF StartThread, Processing, Dropping, Typed, PCsTyped, Ordered, queueVars
    <3>3. CASE Shutdown \/ ShutdownNotify \/ Join \/ Joined
      BY <3>3 DEF Shutdown, ShutdownNotify, Join, Joined, Goto, Typed, PCsTyped, StopSet,
                  StopNotify, queueVars
    <3>4. CASE WorkerWait \/ WorkerSpuriousWake
      BY <3>4 DEF WorkerWait, WorkerSpuriousWake, RemoveWait, Park, SpuriousWake
    <3> QED BY <1>2, <3>1, <3>2, <3>3, <3>4
  <2> QED BY <1>1, <2>1, <2>2, CarryOrdered DEF Processing, Dropping
<1>3. CASE TestStop \/ Drop
  <2>1. UNCHANGED obsolete /\ ~Processing' /\ (Dropping => Dropping')
    BY <1>3 DEF TestStop, Drop, Goto, Typed, PCsTyped, Processing, Dropping
  <2> QED BY <1>1, <2>1, CarryOrdered
<1>4. CASE Remove
  <2>1. ~Dropping /\ obsolete' = obsolete
    BY <1>4 DEF Remove, Dropping
  <2>2. CASE RemoveNull(Worker) /\ Goto(Worker, "size")
    <3>1. ~Processing'
      BY <2>2 DEF Goto, Typed, PCsTyped, Processing
    <3> QED BY <1>1, <2>1, <3>1, CarryOrdered
  <2>3. CASE RemoveTake(Worker) /\ Goto(Worker, "process")
    <3>1. /\ m_queue # <<>> /\ m_queue' = Tail(m_queue)
          /\ item'[Worker] = Head(m_queue)
      BY <2>3 DEF RemoveTake, Take, Typed, QueueTypeOK
    <3>2. Pushed' = Pushed
      <4>1. Adding' <=> Adding
        BY <2>3 DEF RemoveTake, Take, Adding, Typed, QueueTypeOK
      <4> QED BY <1>4, <4>1 DEF Pushed, Remove
    <3>3. Pushed \in Nat /\ m_queue \in Seq(Nat) /\ obsolete \in Nat /\ Keep \in Nat
      BY PushedType, CountFacts DEF Typed, CountsTyped
    <3>4. /\ Increasing(m_queue') /\ AllUpTo(m_queue', Pushed')
          /\ Head(m_queue) <= Pushed /\ AllAbove(m_queue', Head(m_queue))
      BY <3>1, <3>2, <3>3, TailIncreasing DEF Ordered
    <3>5. /\ AllAbove(m_queue', obsolete) /\ obsolete < Head(m_queue)
          /\ LastAbove(m_queue', Keep, obsolete)
      BY <3>1, <3>3, <2>1, TailAbove DEF Ordered
    <3>6. Head(m_queue) \in Items
      BY <3>1 DEF Typed, QueueTypeOK
    <3> QED BY <3>1, <3>2, <3>4, <3>5, <3>6, <2>1 DEF Ordered
  <2> QED BY <1>4, <2>2, <2>3 DEF Remove
<1>5. CASE CheckOverload
  <2>1. PICK n \in 0..MaxItems :
          /\ Size(Worker, n)
          /\ \/ n <= Overload /\ Goto(Worker, "test") /\ UNCHANGED obsolete
             \/ n > Overload /\ Goto(Worker, "dropSize") /\ obsolete' = m_queue[n - Keep]
    BY <1>5 DEF CheckOverload
  <2>2. n = Len(m_queue) /\ UNCHANGED queueVars /\ pc[Worker] = "size"
    BY <1>5, <2>1 DEF Size, CheckOverload
  <2>3. CASE n <= Overload /\ Goto(Worker, "test") /\ UNCHANGED obsolete
    <3>1. ~Processing' /\ ~Dropping
      BY <2>2, <2>3 DEF Goto, Typed, PCsTyped, Processing, Dropping
    <3> QED BY <1>1, <2>3, <3>1, CarryOrdered
  <2>4. CASE n > Overload /\ Goto(Worker, "dropSize") /\ obsolete' = m_queue[n - Keep]
    <3>1. ~Processing' /\ Dropping'
      BY <2>4 DEF Goto, Typed, PCsTyped, Processing, Dropping
    <3>2. m_queue' = m_queue /\ Pushed' = Pushed
      BY <1>5, <2>2, QuietMoves DEF Rests, CheckOverload
    <3>3. m_queue \in Seq(Nat) /\ Keep \in Nat /\ Keep < Len(m_queue)
      BY <2>2, <2>4, PushedType, CountFacts
    <3>4. LastAbove(m_queue, Keep, obsolete')
      BY <2>2, <2>4, <3>3, NewestAbove DEF Ordered
    <3>5. obsolete' <= Pushed
      <4>1. n - Keep \in 1..Len(m_queue)
        BY <2>2, <3>3
      <4> QED BY <4>1, <2>4 DEF Ordered, AllUpTo
    <3> QED BY <3>1, <3>2, <3>4, <3>5 DEF Ordered
  <2> QED BY <2>1, <2>3, <2>4
<1>6. CASE DropSize
  <2>1. PICK n \in 0..MaxItems :
          Size(Worker, n) /\ Goto(Worker, IF n > Keep THEN "dropRemove" ELSE "test")
    BY <1>6 DEF DropSize, DropTo
  <2>2. /\ n = Len(m_queue) /\ UNCHANGED <<queueVars, obsolete, received>>
    BY <1>6, <2>1 DEF Size, DropSize, DropTo
  <2>3. CASE n > Keep
    <3>1. ~Processing' /\ Dropping'
      BY <2>1, <2>3 DEF Goto, Typed, PCsTyped, Processing, Dropping
    <3> QED BY <1>1, <2>2, <3>1, CarryOrdered
  <2>4. CASE n <= Keep
    <3>1. ~Processing'
      BY <2>1, <2>4, CountFacts DEF Goto, Typed, PCsTyped, Processing
    <3>2. m_queue' = m_queue /\ Pushed' = Pushed
      BY <2>2, QuietMoves DEF Rests
    <3>3. AllAbove(m_queue, obsolete)
      BY <2>2, <2>4, PushedType, CountFacts, ShortAbove DEF Ordered, Typed, CountsTyped
    <3> QED BY <2>2, <3>1, <3>2, <3>3 DEF Ordered
  <2> QED BY <2>3, <2>4, CountFacts
<1> QED BY <1>2, <1>3, <1>4, <1>5, <1>6 DEF ThreadStep, RunStep

-----------------------------------------------------------------------------
\* Steps of a decoder that leave the queue and the counts alone.
LEMMA OtherStep ==
  ASSUME Typed, PCsTyped', UNCHANGED <<queueVars, mShouldStop, received, obsolete>>
  PROVE  /\ Typed'
         /\ AddingNewest => AddingNewest' /\ Moves
         /\ AddingNewest /\ Ordered
              /\ (Dropping => Dropping') /\ (Processing' => Processing)
              => Ordered'
<1>1. QueueTyped'
  BY QuietTyped DEF Typed, QueueTyped
<1>2. Typed'
  BY <1>1 DEF Typed, QueueTyped, CountsTyped
<1>3. AddingNewest => AddingNewest' /\ Moves
  BY QuietMoves DEF Moves
<1>4. ASSUME AddingNewest, Ordered, Dropping => Dropping', Processing' => Processing
      PROVE  Ordered'
  BY <1>3, <1>4, CarryOrdered DEF queueVars
<1> QED BY <1>2, <1>3, <1>4

\* The last packet whose picture or sound was output is older than what is queued or
\* being decoded.
Follows(n) ==
  /\ n <= Pushed
  /\ AllAbove(m_queue, n)
  /\ Processing => n < item[Worker]

LEMMA CarryFollows ==
  ASSUME Typed, AddingNewest, Moves, NEW n \in Nat, Follows(n),
         Processing' => Processing /\ item'[Worker] = item[Worker]
  PROVE  Follows(n)'
BY MovesAbove, CountFacts DEF Follows, Processing

\* Where the packet comes from that the worker processes after a step.
LEMMA WorkerPacket ==
  ASSUME Typed, ThreadStep
  PROVE  \/ ~Processing'
         \/ Processing /\ item'[Worker] = item[Worker]
         \/ /\ m_queue # <<>> /\ m_queue' = Tail(m_queue)
            /\ item'[Worker] = Head(m_queue)
<1> USE ThreadFacts
<1>1. CASE \E f \in Feeders : FeederStep(f)
  BY <1>1 DEF FeederStep, Input, InputPush, AddBegin, AddPush, Enqueue, Typed, QueueTypeOK, Processing
<1>2. CASE StartThread \/ TestStop \/ Drop
  BY <1>2 DEF StartThread, TestStop, Drop, Goto, Typed, PCsTyped, Processing
<1>3. CASE Shutdown \/ ShutdownNotify \/ Join \/ Joined
  BY <1>3 DEF Shutdown, ShutdownNotify, Join, Joined, Goto, Typed, PCsTyped, Processing,
              StopSet, StopNotify, queueVars
<1>4. CASE WorkerWait \/ WorkerSpuriousWake
  BY <1>4 DEF WorkerWait, WorkerSpuriousWake, RemoveWait, Park, SpuriousWake, Processing
<1>5. CASE CheckOverload
  <2>1. Goto(Worker, "test") \/ Goto(Worker, "dropSize")
    BY <1>5 DEF CheckOverload
  <2> QED BY <2>1 DEF Goto, Typed, PCsTyped, Processing
<1>6. CASE DropSize
  <2>1. Goto(Worker, "dropRemove") \/ Goto(Worker, "test")
    BY <1>6 DEF DropSize, DropTo
  <2> QED BY <2>1 DEF Goto, Typed, PCsTyped, Processing
<1>7. CASE Remove
  <2>1. CASE RemoveNull(Worker) /\ Goto(Worker, "size")
    BY <2>1 DEF Goto, Typed, PCsTyped, Processing
  <2>2. CASE RemoveTake(Worker)
    BY <2>2 DEF RemoveTake, Take, Typed, QueueTypeOK
  <2> QED BY <1>7, <2>1, <2>2 DEF Remove
<1> QED BY <1>1, <1>2, <1>3, <1>4, <1>5, <1>6, <1>7 DEF ThreadStep, RunStep

\* What the worker processes is a packet.
PacketTyped == Processing => item[Worker] \in Items

LEMMA StepPacketTyped == ASSUME Typed, PacketTyped, ThreadStep PROVE PacketTyped'
<1>1. m_queue # <<>> => Head(m_queue) \in Items
  BY DEF Typed, QueueTypeOK
<1> QED BY <1>1, WorkerPacket DEF PacketTyped

\* Who is in add() was counted.
AddersCounted == Adding => received # 0

LEMMA StepAddersCounted == ASSUME Typed, AddersCounted, ThreadStep PROVE AddersCounted'
<1> USE ThreadFacts DEF AddersCounted, Adding
<1>1. CASE \E f \in Feeders : Input(f)
  BY <1>1, CountFacts DEF Input, Typed, CountsTyped
<1>2. CASE \E f \in Feeders : InputPush(f)
  BY <1>2 DEF InputPush, AddPush, Enqueue, NotifyAll, Typed, QueueTypeOK
<1>3. CASE StartThread \/ Join \/ Joined \/ TestStop \/ CheckOverload \/ DropSize
  BY <1>3 DEF StartThread, Join, Joined, TestStop, CheckOverload, DropSize, DropTo, Size,
              queueVars
<1>4. CASE Shutdown \/ ShutdownNotify
  BY <1>4 DEF Shutdown, ShutdownNotify, StopSet, StopNotify, NotifyAll, Typed, QueueTypeOK
<1>5. CASE Remove \/ Drop
  BY <1>5 DEF Remove, Drop, RemoveTake, RemoveForgotten, Take, RemoveNull, Typed, QueueTypeOK
<1>6. CASE WorkerWait \/ WorkerSpuriousWake
  BY <1>6 DEF WorkerWait, WorkerSpuriousWake, RemoveWait, Park, SpuriousWake, Typed,
              QueueTypeOK
<1> QED BY <1>1, <1>2, <1>3, <1>4, <1>5, <1>6 DEF ThreadStep, FeederStep, RunStep

LEMMA StepFollows ==
  ASSUME TakingTurns, Typed, AddingNewest, ThreadStep, NEW n \in Nat, Follows(n)
  PROVE  Follows(n)'
<1>1. Moves
  BY StepMoves DEF Moves
<1>2. n <= Pushed' /\ AllAbove(m_queue', n)
  BY <1>1, CountFacts, MovesAbove DEF Follows
<1>3. ASSUME m_queue # <<>>, item'[Worker] = Head(m_queue) PROVE n < item'[Worker]
  BY <1>3, PushedType, CountFacts, TailAbove DEF Follows
<1> QED BY <1>2, <1>3, WorkerPacket DEF Follows
=============================================================================
