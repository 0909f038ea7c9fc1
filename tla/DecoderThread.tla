----------------------------- MODULE DecoderThread -----------------------------
(***************************************************************************)
(* The part the two ffmpeg decoders share: a Thread (src/src/Thread.cpp)   *)
(* whose run() empties a WorkQueue, Input() that fills it from the thread  *)
(* that receives packets, and Init() / Shutdown() called by the owner.     *)
(* FFMpegVideoDecoder and FFMpegAudioDecoder add what a packet goes        *)
(* through and are the specifications.                                     *)
(*                                                                         *)
(* Packets are numbered in the order of the calls of Input().  pc is where *)
(* a thread is in the decoder's code, at (WorkQueue) where it is inside an *)
(* operation of the queue.                                                 *)
(***************************************************************************)
EXTENDS WorkQueue

CONSTANTS
  Worker,   \* the thread of run()
  Owner,    \* the thread that creates and destroys the decoder
  Feeders,  \* the threads that call Input()
  Overload, \* more packets than this in the queue is an overload (5, audio 25)
  Keep,     \* dropping stops at this many (0, audio 5)
  MaxItems  \* bound: calls of Input() that enter the queue

ASSUME DecoderAssumption ==
  /\ {Worker, Owner} \cup Feeders \subseteq Threads
  /\ Worker # Owner
  /\ Feeders \cap {Worker, Owner} = {}
  /\ Overload \in Nat /\ Keep \in 0..Overload
  /\ MaxItems \in Nat
  /\ Items = 1..MaxItems /\ Null = 0

VARIABLES
  pc,
  mShouldStop, \* Thread::mShouldStop, which run() tests
  received,    \* how many packets were numbered
  obsolete     \* history: newest packet that the last overload condemned

threadVars == <<queueVars, pc, mShouldStop, received, obsolete>>

WorkerPCs == {"none", "test", "remove", "process", "decode", "size", "dropSize",
              "dropRemove", "exited"}
OwnerPCs == {"constructed", "running", "stop", "join", "joining", "destroyed"}

ThreadTypeOK ==
  /\ QueueTypeOK
  /\ pc[Worker] \in WorkerPCs
  /\ pc[Owner] \in OwnerPCs
  /\ mShouldStop \in BOOLEAN
  /\ received \in 0..MaxItems
  /\ obsolete \in 0..MaxItems

ThreadInit ==
  /\ QueueInit
  /\ pc = [t \in Threads |-> IF t = Owner THEN "constructed"
                             ELSE IF t = Worker THEN "none" ELSE "idle"]
  /\ mShouldStop = FALSE
  /\ received = 0
  /\ obsolete = 0

Goto(t, l) == pc' = [pc EXCEPT ![t] = l]

\* The newest packet that has been pushed, if the feeders take turns.
Adding == \E f \in Feeders : at[f] = "adding"
Pushed == IF Adding THEN received - 1 ELSE received

-----------------------------------------------------------------------------
\* Input(), on the thread that receives packets.  A packet refused by add() is
\* leaked and has no number.

Input(f) ==
  /\ pc[Owner] \notin {"constructed", "destroyed"}
  /\ received < MaxItems
  /\ AddBegin(f, received + 1)
  /\ received' = received + 1
  /\ UNCHANGED <<pc, mShouldStop, obsolete>>

\* The push; on a destroyed decoder it would be undefined.
InputPush(f) ==
  /\ pc[Owner] # "destroyed"
  /\ AddPush(f)
  /\ UNCHANGED <<pc, mShouldStop, received, obsolete>>

-----------------------------------------------------------------------------
\* Init() and Shutdown(), on the owner's thread.

StartThread ==
  /\ pc[Owner] = "constructed"
  /\ pc' = [pc EXCEPT ![Owner] = "running", ![Worker] = "test"]
  /\ mShouldStop' = FALSE
  /\ UNCHANGED <<queueVars, received, obsolete>>

Shutdown ==
  /\ pc[Owner] = "running"
  /\ StopSet(Owner)
  /\ Goto(Owner, "stop")
  /\ UNCHANGED <<mShouldStop, received, obsolete>>

ShutdownNotify ==
  /\ pc[Owner] = "stop"
  /\ StopNotify(Owner)
  /\ Goto(Owner, "join")
  /\ UNCHANGED <<mShouldStop, received, obsolete>>

Join ==
  /\ pc[Owner] = "join"
  /\ mShouldStop' = TRUE
  /\ Goto(Owner, "joining")
  /\ UNCHANGED <<queueVars, received, obsolete>>

\* Mutant of Joined: the destructor does not wait for the thread.
JoinedAtOnce ==
  /\ pc[Owner] = "joining"
  /\ Goto(Owner, "destroyed")
  /\ UNCHANGED <<queueVars, mShouldStop, received, obsolete>>

\* join() returns and the destructor frees what is left.
Joined ==
  /\ pc[Owner] = "joining"
  /\ pc[Worker] = "exited"
  /\ Goto(Owner, "destroyed")
  /\ UNCHANGED <<queueVars, mShouldStop, received, obsolete>>

-----------------------------------------------------------------------------
\* run(), but for processPacketItem(), which leads from "process" to "size".

TestStop ==
  /\ pc[Worker] = "test"
  /\ Goto(Worker, IF mShouldStop THEN "exited" ELSE "remove")
  /\ UNCHANGED <<queueVars, mShouldStop, received, obsolete>>

Remove ==
  /\ pc[Worker] = "remove"
  /\ \/ RemoveTake(Worker) /\ Goto(Worker, "process")
     \/ RemoveNull(Worker) /\ Goto(Worker, "size")
  /\ UNCHANGED <<mShouldStop, received, obsolete>>

WorkerWait ==
  /\ pc[Worker] \in {"remove", "dropRemove"}
  /\ RemoveWait(Worker) \/ Park(Worker)
  /\ UNCHANGED <<pc, mShouldStop, received, obsolete>>

WorkerSpuriousWake ==
  /\ SpuriousWake(Worker)
  /\ UNCHANGED <<pc, mShouldStop, received, obsolete>>

\* On an overload all but the newest Keep packets are condemned.
CheckOverload ==
  /\ pc[Worker] = "size"
  /\ \E n \in 0..MaxItems :
       /\ Size(Worker, n)
       /\ \/ /\ n <= Overload
             /\ Goto(Worker, "test")
             /\ UNCHANGED obsolete
          \/ /\ n > Overload
             /\ Goto(Worker, "dropSize")
             /\ obsolete' = m_queue[n - Keep]
  /\ UNCHANGED <<mShouldStop, received>>

\* The condition of the dropping loop: it goes on while more than n packets are queued.
DropTo(n) ==
  /\ pc[Worker] = "dropSize"
  /\ \E k \in 0..MaxItems :
       /\ Size(Worker, k)
       /\ Goto(Worker, IF k > n THEN "dropRemove" ELSE "test")
  /\ UNCHANGED <<mShouldStop, received, obsolete>>

\* Mutants of DropSize: dropping stops when the overload is over; one packet too many
\* is dropped; the queue is not looked at.
DropSizeToLimit == DropTo(Overload)
DropSizeOneMore == DropTo(IF Keep > 0 THEN Keep - 1 ELSE 0)
DropSizeBlind ==
  /\ pc[Worker] = "dropSize"
  /\ Goto(Worker, "dropRemove")
  /\ UNCHANGED <<queueVars, mShouldStop, received, obsolete>>

DropSize == DropTo(Keep)

Drop ==
  /\ pc[Worker] = "dropRemove"
  /\ RemoveForgotten(Worker)
  /\ Goto(Worker, "dropSize")
  /\ UNCHANGED <<mShouldStop, received, obsolete>>

-----------------------------------------------------------------------------
FeederStep(f) == Input(f) \/ InputPush(f)
RunStep == TestStop \/ Remove \/ WorkerWait \/ CheckOverload \/ DropSize \/ Drop
=============================================================================
