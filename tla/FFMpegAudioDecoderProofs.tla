------------------------ MODULE FFMpegAudioDecoderProofs ------------------------
(***************************************************************************)
(* Proofs about FFMpegAudioDecoder, for every Overload and Keep, every     *)
(* number of packets and feeding threads; what is said of the order of the *)
(* packets is proved for feeders that take turns, as the internal threads  *)
(* of successive channels do, because packets are numbered in the order of *)
(* the calls.                                                              *)
(***************************************************************************)
EXTENDS FFMpegAudioDecoder, FFMpegDecodeProofs

\* While the worker is about to drop a packet there are more than it keeps.
Kept == pc[Worker] = "dropRemove" => Keep < Len(m_queue)

\* The inductive invariant for any feeders.
IInv ==
  /\ Typed
  /\ CodecTypeOK(Items) /\ played \in Items \cup {Null}
  /\ PacketTyped /\ Kept

LEMMA InitIInv == Init => IInv
<1> SUFFICES ASSUME Init PROVE IInv
  OBVIOUS
<1>1. Typed /\ pc[Worker] = "none"
  BY InitTyped, ThreadFacts DEF Init, ThreadInit
<1> QED BY <1>1, EmptySeq DEF Init, CodecInit, CodecTypeOK, IInv, PacketTyped, Processing, Kept

\* The steps of this decoder are those of DecoderThread, or one decodes a packet.
LEMMA StepKinds ==
  ASSUME [Next]_vars
  PROVE  \/ ThreadStep /\ UNCHANGED played /\ (UNCHANGED codecVars \/ FreeCodec)
         \/ ProcessPacketItem
         \/ UNCHANGED vars
BY DEF Next, WorkerStep, OwnerStep, ThreadStep

LEMMA KeptStep == ASSUME Typed, Kept, ThreadStep PROVE Kept'
<1> USE ThreadFacts
<1>1. Len(m_queue) \in Nat /\ m_queue \in Seq(Items)
  BY LenProperties DEF Typed, QueueTypeOK
<1>2. ASSUME NEW f \in Feeders, Input(f) PROVE Kept'
  BY <1>2 DEF Input, AddBegin, Kept
<1>3. ASSUME NEW f \in Feeders, InputPush(f) PROVE Kept'
  <2>1. item[f] \in Items
    BY <1>3 DEF InputPush, AddPush, Enqueue, Typed, AddersTyped
  <2>2. Len(m_queue') = Len(m_queue) + 1
    BY <1>1, <1>3, <2>1, AppendProperties DEF InputPush, AddPush, Enqueue
  <2> QED BY <1>1, <1>3, <2>2, CountFacts DEF InputPush, Kept
<1>4. CASE Shutdown \/ ShutdownNotify \/ Join \/ Joined
  BY <1>4 DEF Shutdown, ShutdownNotify, Join, Joined, StopSet, StopNotify, queueVars,
              Goto, Typed, PCsTyped, Kept
<1>5. CASE StartThread \/ TestStop \/ Remove \/ Drop \/ CheckOverload
  BY <1>5 DEF StartThread, TestStop, Remove, Drop, CheckOverload, Goto, Typed, PCsTyped,
              Kept
<1>6. CASE WorkerWait \/ WorkerSpuriousWake
  BY <1>6 DEF WorkerWait, WorkerSpuriousWake, RemoveWait, Park, SpuriousWake, Kept
<1>7. CASE DropSize
  <2>1. PICK n \in 0..MaxItems :
          Size(Worker, n) /\ Goto(Worker, IF n > Keep THEN "dropRemove" ELSE "test")
    BY <1>7 DEF DropSize, DropTo
  <2>2. n = Len(m_queue) /\ m_queue' = m_queue
    BY <2>1 DEF Size, queueVars
  <2>3. CASE n > Keep
    BY <2>2, <2>3, CountFacts DEF Kept
  <2>4. CASE ~(n > Keep)
    <3>1. pc'[Worker] = "test"
      BY <2>1, <2>4 DEF Goto, Typed, PCsTyped
    <3> QED BY <3>1 DEF Kept
  <2> QED BY <2>3, <2>4
<1> QED BY <1>2, <1>3, <1>4, <1>5, <1>6, <1>7 DEF ThreadStep, FeederStep, RunStep

LEMMA NextIInv == IInv /\ [Next]_vars => IInv'
<1> SUFFICES ASSUME IInv, [Next]_vars PROVE IInv'
  OBVIOUS
<1>1. CASE ThreadStep /\ UNCHANGED played /\ (UNCHANGED codecVars \/ FreeCodec)
  <2>1. CodecTypeOK(Items)'
    BY <1>1, EmptySeq DEF IInv, CodecTypeOK, codecVars, FreeCodec
  <2> QED BY <1>1, <2>1, StepTyped, StepPacketTyped, KeptStep DEF IInv
<1>2. CASE ProcessPacketItem
  <2>1. pc'[Worker] = "size" /\ PCsTyped'
    BY <1>2, GotoTyped, ThreadFacts
       DEF ProcessPacketItem, Goto, IInv, Typed, PCsTyped, WorkerPCs
  <2>2. Typed' /\ PacketTyped' /\ Kept'
    BY <1>2, <2>1, OtherStep DEF ProcessPacketItem, IInv, PacketTyped, Processing, Kept
  <2>3. valid' \in BOOLEAN
    BY <1>2 DEF ProcessPacketItem, OpenCodec, IInv, CodecTypeOK
  <2>4. item[Worker] \in Items /\ held \in Seq(Items)
    BY <1>2 DEF ProcessPacketItem, IInv, CodecTypeOK, PacketTyped, Processing
  <2>5. held' \in Seq(Items) /\ played' \in Items \cup {Null}
    BY <1>2, <2>4, CodecStepTyped DEF ProcessPacketItem, IInv
  <2> QED BY <2>2, <2>3, <2>5 DEF IInv, CodecTypeOK
<1>3. CASE UNCHANGED vars
  <2>1. UNCHANGED <<queueVars, pc, mShouldStop, received, obsolete, valid, held, played>>
    BY <1>3 DEF vars, threadVars, codecVars
  <2>2. Typed'
    BY <2>1, OtherStep DEF IInv, Typed, PCsTyped
  <2> QED BY <2>1, <2>2 DEF IInv, PacketTyped, Processing, Kept, CodecTypeOK, queueVars
<1> QED BY <1>1, <1>2, <1>3, StepKinds

\* The inductive invariant holds in every reachable state.
THEOREM Invariance == Spec => []IInv
BY InitIInv, NextIInv, PTL DEF Spec

\* Every variable has its type, for any number of feeding threads and packets.
THEOREM TypeCorrect == Spec => []TypeOK
<1>1. IInv => TypeOK
  BY TypedImpliesTypeOK DEF IInv, TypeOK
<1> QED BY Invariance, <1>1, PTL

\* The worker never waits for a packet to drop.
THEOREM NeverWaits == Spec => []DroppingNeverWaits
<1>1. IInv => DroppingNeverWaits
  <2> SUFFICES ASSUME IInv, pc[Worker] = "dropRemove" PROVE m_queue # <<>>
    BY DEF DroppingNeverWaits
  <2>1. Keep < Len(m_queue)
    BY DEF IInv, Kept
  <2> QED BY <2>1, CountFacts, EmptySeq
<1> QED BY Invariance, <1>1, PTL

\* Dropping never leaves fewer than the newest Keep packets.
THEOREM KeepsNewest == Spec => NewestAreKept
<1>1. IInv /\ [Next]_vars => [Drop => Len(m_queue') >= Keep]_vars
  <2> SUFFICES ASSUME IInv, Drop PROVE Len(m_queue') >= Keep
    OBVIOUS
  <2>1. Keep < Len(m_queue) /\ Len(m_queue) \in Nat /\ m_queue \in Seq(Items)
    BY LenProperties DEF IInv, Kept, Drop, Typed, QueueTypeOK
  <2>2. m_queue # <<>>
    BY <2>1, CountFacts, EmptySeq
  <2>3. m_queue' = Tail(m_queue)
    BY <2>2 DEF Drop, RemoveForgotten, Take, RemoveNull
  <2>4. Len(m_queue') = Len(m_queue) - 1
    BY <2>1, <2>2, <2>3, HeadTailProperties
  <2> QED BY <2>1, <2>4, CountFacts
<1> QED BY Invariance, <1>1, PTL DEF Spec, NewestAreKept

-----------------------------------------------------------------------------
\* The order of the packets, for feeders that take turns.
OrderInv ==
  /\ Typed /\ AddingNewest /\ Ordered
  /\ played \in Nat /\ Follows(played) /\ CodecOrdered(played)

LEMMA InitOrderInv == Init => OrderInv
<1> SUFFICES ASSUME Init PROVE OrderInv
  OBVIOUS
<1>1. ThreadInit /\ played = 0 /\ held = <<>>
  BY CountFacts DEF Init, CodecInit
<1>2. m_queue = <<>> /\ Len(m_queue) = 0
  BY <1>1, EmptySeq DEF ThreadInit, QueueInit
<1>3. ~Adding /\ received = 0 /\ ~Processing
  BY <1>1, ThreadFacts DEF ThreadInit, QueueInit, Adding, Processing
<1>4. Follows(played)
  BY <1>1, <1>2, <1>3 DEF Follows, Pushed, AllAbove
<1> QED BY <1>1, <1>4, InitTyped, InitOrdered, EmptyCodecOrdered DEF OrderInv

LEMMA NextOrderInv ==
  ASSUME TakingTurns, OrderInv, [Next]_vars
  PROVE  OrderInv' /\ (played' # played => played' > played)
<1>1. PICK n \in Nat : played = n
  BY DEF OrderInv
<1>2. CASE ThreadStep /\ UNCHANGED played /\ (UNCHANGED codecVars \/ FreeCodec)
  <2>1. Typed' /\ AddingNewest' /\ Ordered'
    BY <1>2, StepTyped, StepMoves, StepOrdered DEF OrderInv
  <2>2. \A x \in Nat : Follows(x) => Follows(x)'
    BY <1>2, StepFollows DEF OrderInv
  <2>3. held' = held \/ held' = <<>>
    BY <1>2 DEF codecVars, FreeCodec
  <2>4. CodecOrdered(n)'
    BY <1>1, <2>2, <2>3, CodecRests DEF OrderInv
  <2>5. Follows(n)'
    BY <1>1, <2>2 DEF OrderInv
  <2>6. (Follows(played) /\ CodecOrdered(played))'
    BY <1>1, <1>2, <2>4, <2>5 DEF Follows, CodecOrdered
  <2> QED BY <1>1, <1>2, <2>1, <2>6 DEF OrderInv
<1>3. CASE ProcessPacketItem
  <2>1. /\ pc'[Worker] = "size" /\ PCsTyped'
        /\ UNCHANGED <<queueVars, mShouldStop, received, obsolete>>
    BY <1>3, GotoTyped, ThreadFacts
       DEF ProcessPacketItem, Goto, OrderInv, Typed, PCsTyped, WorkerPCs
  <2>2. Processing /\ ~Processing' /\ ~Dropping
    BY <1>3, <2>1 DEF ProcessPacketItem, Processing, Dropping
  <2>3. Typed' /\ AddingNewest' /\ Ordered' /\ Moves
    BY <2>1, <2>2, OtherStep DEF OrderInv
  <2>4. /\ Follows(n)'
        /\ NoOutput(item[Worker]) => CodecOrdered(n)'
        /\ \A p : Returned(item[Worker], p) =>
             p \in Nat /\ n < p /\ Follows(p)' /\ CodecOrdered(p)'
        /\ UnconvertedUnsent => CodecOrdered(n)'
        /\ \A p : ReturnedUnsent(p) =>
             p \in Nat /\ n < p /\ Follows(p)' /\ CodecOrdered(p)'
    BY <1>1, <2>1, <2>2, CodecTakes DEF OrderInv
  <2>5. CASE UNCHANGED <<held, played>>
    <3>1. NoOutput(item[Worker])
      BY <2>5 DEF NoOutput, Refused
    <3>2. (Follows(played) /\ CodecOrdered(played))'
      BY <1>1, <2>4, <2>5, <3>1 DEF Follows, CodecOrdered
    <3> QED BY <1>1, <2>3, <2>5, <3>2 DEF OrderInv
  <2>6. CASE (NoOutput(item[Worker]) \/ UnconvertedUnsent) /\ UNCHANGED played
    <3>1. (Follows(played) /\ CodecOrdered(played))'
      BY <1>1, <2>4, <2>6 DEF Follows, CodecOrdered
    <3> QED BY <1>1, <2>3, <2>6, <3>1 DEF OrderInv
  <2>7. ASSUME NEW p, Returned(item[Worker], p) \/ ReturnedUnsent(p), played' = p
        PROVE  OrderInv' /\ played' > played
    <3>1. p \in Nat /\ n < p /\ Follows(p)' /\ CodecOrdered(p)'
      BY <2>4, <2>7
    <3>2. (Follows(played) /\ CodecOrdered(played))'
      BY <2>7, <3>1 DEF Follows, CodecOrdered
    <3> QED BY <1>1, <2>3, <2>7, <3>1, <3>2 DEF OrderInv
  <2>8. PICK p : p = played'
    OBVIOUS
  <2> QED BY <1>3, <2>5, <2>6, <2>7, <2>8 DEF ProcessPacketItem
<1>4. CASE UNCHANGED vars
  <2>1. UNCHANGED <<queueVars, pc, mShouldStop, received, obsolete, held, played>>
    BY <1>4 DEF vars, threadVars, codecVars
  <2>2. PCsTyped' /\ (Processing' <=> Processing) /\ (Dropping' <=> Dropping)
    BY <2>1 DEF OrderInv, Typed, PCsTyped, Processing, Dropping
  <2>3. Typed' /\ AddingNewest' /\ Ordered'
    BY <2>1, <2>2, OtherStep DEF OrderInv
  <2>4. m_queue' = m_queue /\ Pushed' = Pushed /\ item' = item
    BY <2>1, QuietMoves DEF OrderInv, Rests, queueVars
  <2>5. (Follows(played) /\ CodecOrdered(played))'
    BY <2>1, <2>2, <2>4 DEF OrderInv, Follows, CodecOrdered
  <2> QED BY <2>1, <2>3, <2>5 DEF OrderInv
<1> QED BY <1>2, <1>3, <1>4, StepKinds

\* After an overload no packet is decoded that is older than the ones it keeps.
THEOREM CatchesUp == Spec /\ []FeedersTakeTurns => []CaughtUp
<1>1. FeedersTakeTurns /\ FeedersTakeTurns' /\ OrderInv /\ [Next]_vars => OrderInv'
  BY NextOrderInv DEF TakingTurns
<1>2. OrderInv => CaughtUp
  <2> SUFFICES ASSUME OrderInv, pc[Worker] = "process" PROVE item[Worker] > obsolete
    BY DEF CaughtUp
  <2>1. item[Worker] \in Nat /\ obsolete \in Nat /\ obsolete < item[Worker]
    BY CountFacts DEF OrderInv, Ordered, Processing, Typed, CountsTyped
  <2> QED BY <2>1
<1> QED BY InitOrderInv, <1>1, <1>2, PTL DEF Spec

\* Sound is output in the order of the packets.
THEOREM PlaysInOrder == Spec /\ []FeedersTakeTurns => SoundInOrder
<1>1. FeedersTakeTurns /\ FeedersTakeTurns' /\ OrderInv /\ [Next]_vars => OrderInv'
  BY NextOrderInv DEF TakingTurns
<1>2. FeedersTakeTurns /\ FeedersTakeTurns' /\ OrderInv /\ [Next]_vars
        => [played' # played => played' > played]_vars
  BY NextOrderInv DEF TakingTurns
<1> QED BY InitOrderInv, <1>1, <1>2, PTL DEF Spec, SoundInOrder
=============================================================================
