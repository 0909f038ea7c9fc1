----------------------- MODULE ConnectionControllerProofs -----------------------
(***************************************************************************)
(* Proofs about ConnectionController, for any number of channels and       *)
(* clients.                                                                *)
(*                                                                         *)
(* Types, and what worker_mutex protects (MutexInv), hold however the      *)
(* calls of the clients overlap.  The other properties need calls that     *)
(* take turns (CallsTakeTurns): two clients that disconnect at the same    *)
(* time do call through a null channel, and two that start at the same     *)
(* time do make two workers.                                               *)
(*                                                                         *)
(* These properties follow from one fact: while the worker makes a new     *)
(* channel, and whenever the connection is not Connecting or Connected, no *)
(* internal thread is awake (QuietInv).  A client can therefore find the   *)
(* connection Connected only when the worker is not making a channel, and  *)
(* the worker cannot begin to, because should_reconnect was cleared before *)
(* (ClientInv).  A channel that has a successor stays dead (OrderInv), and *)
(* the worker ends only for the client that removes the controller         *)
(* (StartInv).  With DeadInv, no thread while Disconnected, they make the  *)
(* controller implement PhoneLink.                                         *)
(***************************************************************************)
EXTENDS ConnectionController, TLAPS

Clear == {"Errored", "FailedToConnect", "Disconnected"}

\* The internal thread of c does nothing any more.
Quiet(c) == ch[c].pc = "exited" \/ (ch[c].pc \in {"none", "loop"} /\ ~ch[c].running)

\* The worker on its way from "decide" to a started channel.
Asking == {"decide", "connect"}
Starting == {"dial", "start", "started"} \cup Waits

\* The client in the part of disconnect() in which the internal thread was joined, and
\* the client in the destructors.
Joined(k) ==
  pc[k] \in {"closeSocket", "drop", "disconnected"}
    \/ (pc[k] \in Waits /\ after[k] = "disconnected")
Destroying(k) == pc[k] = "gone" \/ (pc[k] \in Waits /\ after[k] = "gone")

WorkerPCs == {"none", "look", "decide", "rest", "exited"} \cup Connects
ClientPCs == {"idle", "spawn", "disconnect", "close", "closeSocket", "drop", "disconnected",
              "reset", "joinWorker", "left", "gone"} \cup Waits

PhaseInv ==
  /\ pc[Worker] \in WorkerPCs
  /\ pc[Worker] \in Waits => after[Worker] = "start" /\ reg[Worker] # 0
  /\ \A k \in Clients :
       /\ pc[k] \in ClientPCs
       /\ pc[k] \in Waits =>
            after[k] \in {"closeSocket", "disconnected", "gone"} /\ reg[k] # 0

ThreadInv ==
  \A c \in Channels :
    /\ Alive(c) => ch[c].joinable
    /\ ch[c].pc = "none" => ~ch[c].running
    /\ ch[c].pc = "errored" => ~ch[c].running
    /\ ~ch[c].open => Quiet(c) \/ ch[c].pc = "errored"

Calm == pc[Worker] \in Asking \cup Starting \/ state \in Clear \/ \E k \in Clients : Joined(k)

QuietInv == Calm => \A c \in Channels : Quiet(c)

AliveInv ==
  \A c \in Channels : Alive(c) =>
    \/ c = channel
    \/ pc[Worker] \in Waits /\ reg[Worker] = c
    \/ \E k \in Clients : pc[k] \in Waits /\ after[k] # "closeSocket" /\ reg[k] = c

WorkerInv ==
  /\ pc[Worker] \in Asking => state \in Clear
  /\ pc[Worker] \in Starting => state = "Connecting"
  /\ pc[Worker] = "running" => state # "Connected"
  /\ pc[Worker] \in Waits \cup {"start", "started", "running"} =>
       channel # 0 /\ ch[channel].state \in {"Disconnected", "Errored"}
  /\ pc[Worker] \in Waits \cup {"start", "started"} => ch[channel].open
  /\ pc[Worker] \in Waits \cup {"start"} => ch[channel].pc = "none"
  /\ pc[Worker] \in {"started", "running"} =>
       reg[Worker] = channel /\ ch[channel].pc # "none"

ClientInv ==
  \A k \in Clients :
    /\ Closing(k) \/ pc[k] = "disconnect" => ~should_reconnect
    /\ Closing(k) => pc[Worker] \notin Connects
    /\ pc[k] = "close" => channel # 0
    /\ pc[k] \in {"closeSocket", "drop"} \/ (pc[k] \in Waits /\ after[k] = "closeSocket") =>
         reg[k] = channel /\ channel # 0
    /\ Destroying(k) => pc[Worker] \in {"none", "exited"} /\ channel = 0

LinkInv ==
  state = "Connected" /\ (\A k \in Clients : ~Closing(k) /\ ~Destroying(k)) => channel # 0

\* The calls of the clients do not overlap: one begins when no other is in progress.
Alone(k) == \A j \in Clients : j # k => pc[j] = "idle"
CallsTakeTurns == [][\A k \in Clients : ClientCall(k) => Alone(k)]_vars
TurnInv == \A k \in Clients : pc[k] # "idle" => Alone(k)

\* A channel that has a successor, started or not, does not come back to life.
OrderInv ==
  /\ channel \in {0, born}
  /\ \A d \in Channels : d > born => ch[d].pc = "none"
  /\ \A c, d \in Channels : c < d /\ ch[d].pc # "none" => Quiet(c)

\* The worker ends only when the controller is removed, and nobody starts it then.
Removing(k) == pc[k] \in {"joinWorker", "left"} \/ Destroying(k)
StartInv ==
  /\ worker_stopping => \E k \in Clients : Removing(k)
  /\ pc[Worker] = "exited" => worker_stopping
  /\ pc[Worker] \notin {"none", "exited"} => worker_thread_active
  /\ \A k \in Clients : pc[k] = "spawn" => pc[Worker] = "none"

SafetyInv ==
  PhaseInv /\ ThreadInv /\ QuietInv /\ AliveInv /\ WorkerInv /\ ClientInv /\ LinkInv
IInv ==
  TypeOK /\ TurnInv /\ SafetyInv /\ OrderInv /\ StartInv /\ NoNullCall /\ StartsOneWorker

-----------------------------------------------------------------------------
\* Types.

LEMMA InitTypeOK == Init => TypeOK
<1> SUFFICES ASSUME Init PROVE TypeOK
  OBVIOUS
<1> USE DEF Init, ConnectionInit
<1>1. ChannelTypeOK
  BY ChannelAssumption DEF ChannelInit, Unborn, ChannelTypeOK, ChannelStates, InternalPCs
<1>2. pc \in [Callers -> ConnectionPCs \cup ControllerPCs]
  <2>1. \A t \in Callers : pc[t] \in {"none", "idle"}
    OBVIOUS
  <2> QED BY <2>1 DEF ControllerPCs
<1>3. reg \in [Callers -> 0..born] /\ channel \in 0..born /\ born \in 0..MaxChannels
  BY ChannelAssumption
<1>4. after \in [Callers -> ConnectionPCs \cup ControllerPCs]
  BY DEF ConnectionPCs
<1> QED BY <1>1, <1>2, <1>3, <1>4 DEF TypeOK, ConnectionStates

\* What is done to one channel keeps the types of all.
LEMMA ChannelsTyped ==
  ASSUME ChannelTypeOK, NEW c \in Channels, NEW t \in Callers,
         \/ Construct(c) \/ StartInternalThread(c) \/ StoreRunning(c) \/ SetConnecting(c)
         \/ ClearRunning(c) \/ LockToJoin(t, c) \/ JoinInternal(t, c) \/ CloseSocket(c)
  PROVE  ChannelTypeOK'
<1> USE DEF ChannelTypeOK, ChannelStates, InternalPCs
<1>1. CASE Construct(c)
  BY <1>1 DEF Construct, Unborn
<1>2. CASE StartInternalThread(c)
  <2> DEFINE started == [ch[c] EXCEPT !.pc = "loop", !.joinable = TRUE]
  <2>1. started \in [running: BOOLEAN, state: ChannelStates, open: BOOLEAN, pc: InternalPCs,
                     joinable: BOOLEAN, mutex: Callers \cup Channels \cup {Nobody}]
    OBVIOUS
  <2>2. ch' = [ch EXCEPT ![c] = started]
    BY <1>2 DEF StartInternalThread
  <2> QED BY <2>1, <2>2
<1>3. CASE StoreRunning(c)
  BY <1>3 DEF StoreRunning
<1>7. CASE ClearRunning(c)
  BY <1>7 DEF ClearRunning
<1>4. CASE SetConnecting(c)
  BY <1>4 DEF SetConnecting
<1>5. CASE LockToJoin(t, c)
  BY <1>5 DEF LockToJoin
<1>8. CASE JoinInternal(t, c)
  <2> DEFINE joined == [ch[c] EXCEPT !.joinable = FALSE, !.mutex = Nobody]
  <2>1. joined \in [running: BOOLEAN, state: ChannelStates, open: BOOLEAN, pc: InternalPCs,
                    joinable: BOOLEAN, mutex: Callers \cup Channels \cup {Nobody}]
    OBVIOUS
  <2>2. ch' = [ch EXCEPT ![c] = joined]
    BY <1>8 DEF JoinInternal
  <2> QED BY <2>1, <2>2
<1>6. CASE CloseSocket(c)
  BY <1>6 DEF CloseSocket
<1> QED BY <1>1, <1>2, <1>3, <1>4, <1>5, <1>6, <1>7, <1>8

LEMMA InternalTyped ==
  ASSUME ChannelTypeOK, state \in ConnectionStates, NEW c \in Channels, InternalStep(c)
  PROVE  ChannelTypeOK' /\ state' \in ConnectionStates
BY DEF ChannelTypeOK, InternalStep, DidConnect, NoteConnected, DidError, NoteErrored,
       TestRunning, LockInternal, ReceiveData, ReceiveTimeout, ReceiveError, Delivered,
       CloseInternal, ChannelStates, InternalPCs, ConnectionStates

\* reg and channel may be 0, for which nothing is done.
LEMMA ZeroTyped ==
  ASSUME ChannelTypeOK, NEW c, c \notin Channels, NEW t \in Callers,
         \/ StartInternalThread(c) \/ StoreRunning(c) \/ SetConnecting(c)
         \/ ClearRunning(c) \/ LockToJoin(t, c) \/ JoinInternal(t, c) \/ CloseSocket(c)
  PROVE  ch' = ch
BY DEF ChannelTypeOK, StartInternalThread, StoreRunning, SetConnecting, ClearRunning,
       LockToJoin, JoinInternal, CloseSocket

LEMMA BornChannels ==
  ASSUME TypeOK, NEW b \in 0..born, b # 0
  PROVE  b \in Channels
BY ChannelAssumption DEF TypeOK, Channels

\* A step that moves a thread.
LEMMA Moved ==
  ASSUME TypeOK, NEW t, NEW l \in ConnectionPCs \cup ControllerPCs, Goto(t, l)
  PROVE  pc' \in [Callers -> ConnectionPCs \cup ControllerPCs]
BY DEF Goto, TypeOK

LEMMA SameChannels == ASSUME ChannelTypeOK, ch' = ch PROVE ChannelTypeOK'
BY DEF ChannelTypeOK

LEMMA ConnectTyped ==
  ASSUME TypeOK, NEW t \in Callers, Connect(t), UNCHANGED controllerVars
  PROVE  TypeOK'
<1> USE DEF TypeOK, controllerVars
<1> DEFINE PCs == ConnectionPCs \cup ControllerPCs
<1>0. /\ {"dial", "rest", "start", "wait", "started", "running"} \subseteq ConnectionPCs
      /\ state \in ConnectionStates /\ {"Connecting", "FailedToConnect"} \subseteq ConnectionStates
      /\ born \in Nat /\ MaxChannels \in Nat
  BY ChannelAssumption DEF ConnectionPCs, ConnectionStates
<1> HIDE DEF PCs
<1>1. CASE ConnectBegin(t)
  BY <1>0, <1>1, Moved, SameChannels DEF ConnectBegin
<1>2. CASE DialFailed(t)
  BY <1>0, <1>2, Moved, SameChannels DEF DialFailed, Step
<1>3. CASE DialSucceeded(t)
  <2>1. born + 1 \in Channels /\ born' = born + 1 /\ born' \in 0..MaxChannels
    BY <1>0, <1>3 DEF DialSucceeded, Channels
  <2>2. ChannelTypeOK'
    BY <1>3, <2>1, ChannelsTyped DEF DialSucceeded
  <2>3. channel' \in 0..born' /\ reg' \in [Callers -> 0..born']
    BY <1>0, <1>3, <2>1 DEF DialSucceeded
  <2>4. pc' \in [Callers -> ConnectionPCs \cup ControllerPCs]
    BY <1>0, <1>3, Moved DEF DialSucceeded
  <2>5. after' \in [Callers -> ConnectionPCs \cup ControllerPCs]
    BY <1>0, <1>3 DEF DialSucceeded
  <2> QED BY <1>3, <2>1, <2>2, <2>3, <2>4, <2>5 DEF DialSucceeded
<1>4. CASE StartChannel(t)
  <2>1. CASE Crash("nullptr")
    BY <2>1, SameChannels DEF Crash
  <2>2. CASE channel # 0 /\ StartInternalThread(channel) /\ Goto(t, "started")
    <3>1. ChannelTypeOK'
      BY <2>2, BornChannels, ChannelsTyped
    <3>2. pc' \in [Callers -> ConnectionPCs \cup ControllerPCs]
      BY <1>0, <2>2, Moved
    <3> QED BY <1>4, <2>2, <3>1, <3>2 DEF StartChannel, Crash
  <2> QED BY <1>4, <2>1, <2>2 DEF StartChannel
<1>5. CASE ChannelRuns(t)
  <2>1. reg[t] \in 0..born
    OBVIOUS
  <2>2. ChannelTypeOK'
    BY <1>5, <2>1, BornChannels, ChannelsTyped, ZeroTyped, SameChannels DEF ChannelRuns, Step
  <2> QED BY <1>0, <1>5, <2>2, Moved DEF ChannelRuns, Step
<1>6. CASE ChannelConnects(t)
  <2>1. reg[t] \in 0..born
    OBVIOUS
  <2>2. ChannelTypeOK'
    BY <1>6, <2>1, BornChannels, ChannelsTyped, ZeroTyped, SameChannels DEF ChannelConnects
  <2> QED BY <1>0, <1>6, <2>2, Moved DEF ChannelConnects, Step
<1> QED BY <1>1, <1>2, <1>3, <1>4, <1>5, <1>6 DEF Connect

LEMMA WaitTyped ==
  ASSUME TypeOK, NEW t \in Callers, WaitForExit(t), UNCHANGED controllerVars
  PROVE  TypeOK'
<1>1. reg[t] \in 0..born /\ after[t] \in ConnectionPCs \cup ControllerPCs
  BY DEF TypeOK
<1>2. ChannelTypeOK' /\ \E l \in ConnectionPCs \cup ControllerPCs : Goto(t, l)
  <2>1. {"waitLock", "waitJoin"} \subseteq ConnectionPCs
    BY DEF ConnectionPCs
  <2>2. \/ ClearRunning(reg[t]) /\ Goto(t, "waitLock")
        \/ LockToJoin(t, reg[t]) /\ Goto(t, "waitJoin")
        \/ JoinInternal(t, reg[t]) /\ Goto(t, after[t])
    BY DEF WaitForExit, Step
  <2>3. ChannelTypeOK
    BY DEF TypeOK
  <2> QED BY <1>1, <2>1, <2>2, <2>3, BornChannels, ChannelsTyped, ZeroTyped, SameChannels
<1>3. pc' \in [Callers -> ConnectionPCs \cup ControllerPCs]
  BY <1>2, Moved
<1> QED BY <1>2, <1>3 DEF WaitForExit, TypeOK, controllerVars

LEMMA DisconnectTyped ==
  ASSUME TypeOK, NEW t \in Callers, Disconnect(t), UNCHANGED controllerVars
  PROVE  TypeOK'
<1> USE DEF TypeOK, controllerVars
<1>0. /\ {"close", "reset", "wait", "drop", "disconnected", "closeSocket"} \subseteq ConnectionPCs
      /\ "Disconnected" \in ConnectionStates
      /\ born \in Nat /\ MaxChannels \in Nat
  BY ChannelAssumption DEF ConnectionPCs, ConnectionStates
<1>1. CASE DisconnectBegin(t)
  BY <1>0, <1>1, Moved, SameChannels DEF DisconnectBegin, Step
<1>2. CASE CloseChannel(t)
  <2>1. CASE Crash("nullptr")
    BY <2>1, SameChannels DEF Crash
  <2>2. CASE channel # 0 /\ Goto(t, "wait")
    BY <1>0, <1>2, <2>2, Moved, SameChannels DEF CloseChannel, Crash
  <2> QED BY <1>2, <2>1, <2>2 DEF CloseChannel
<1>3. CASE CloseChannelSocket(t)
  <2>1. reg[t] \in 0..born
    OBVIOUS
  <2>2. ChannelTypeOK'
    BY <1>3, <2>1, BornChannels, ChannelsTyped, ZeroTyped, SameChannels
       DEF CloseChannelSocket, Step
  <2> QED BY <1>0, <1>3, <2>2, Moved DEF CloseChannelSocket, Step
<1>4. CASE DropChannel(t)
  BY <1>0, <1>4, Moved, SameChannels DEF DropChannel, Step
<1>5. CASE Disconnected(t)
  BY <1>0, <1>5, Moved, SameChannels DEF Disconnected, Step
<1> QED BY <1>1, <1>2, <1>3, <1>4, <1>5 DEF Disconnect

\* The steps of the controller itself.
LEMMA ControllerTyped ==
  ASSUME TypeOK, NEW k \in Clients,
         \/ Start(k) \/ Spawn(k) \/ ControllerDisconnect(k) \/ ResetProtocol(k)
         \/ Remove(k) \/ JoinWorker(k)
  PROVE  TypeOK'
<1> USE DEF TypeOK, controllerVars
<1>0. /\ {"disconnect", "wait", "connect", "rest"} \subseteq ConnectionPCs
      /\ {"look", "decide", "exited", "idle", "spawn", "joinWorker", "left", "gone"}
           \subseteq ControllerPCs
      /\ k \in Callers /\ Worker \in Callers
      /\ born \in Nat
  BY ControllerAssumption, ChannelAssumption DEF ConnectionPCs, ControllerPCs
<1>1. CASE Start(k) \/ ControllerDisconnect(k) \/ ResetProtocol(k)
  BY <1>0, <1>1, Moved, SameChannels DEF Start, ControllerDisconnect, ResetProtocol, Step
<1>2. CASE Spawn(k)
  BY <1>0, <1>2, SameChannels DEF Spawn, Crash
<1>3. CASE Remove(k)
  BY <1>0, <1>3, Moved, SameChannels DEF Remove
<1>4. CASE JoinWorker(k)
  <2>1. pc' \in [Callers -> ConnectionPCs \cup ControllerPCs]
    BY <1>0, <1>4, Moved DEF JoinWorker, DestroyMembers
  <2>2. reg' \in [Callers -> 0..born'] /\ channel' \in 0..born'
    BY <1>0, <1>4 DEF JoinWorker, DestroyMembers
  <2>3. after' \in [Callers -> ConnectionPCs \cup ControllerPCs]
    BY <1>0, <1>4 DEF JoinWorker, DestroyMembers
  <2> QED BY <1>0, <1>4, <2>1, <2>2, <2>3, SameChannels DEF JoinWorker, DestroyMembers
<1> QED BY <1>1, <1>2, <1>3, <1>4

LEMMA WorkerTyped ==
  ASSUME TypeOK, Look \/ Decide \/ Rest
  PROVE  TypeOK'
<1> USE DEF TypeOK, controllerVars
<1>0. /\ {"connect", "rest"} \subseteq ConnectionPCs
      /\ {"look", "decide", "exited"} \subseteq ControllerPCs
      /\ Worker \in Callers
  BY ControllerAssumption DEF ConnectionPCs, ControllerPCs
<1>1. CASE Look
  BY <1>0, <1>1, Moved, SameChannels DEF Look, LookUnless
<1>2. CASE Decide
  BY <1>0, <1>2, Moved, SameChannels DEF Decide, Step
<1>3. CASE Rest
  BY <1>0, <1>3, Moved, SameChannels DEF Rest, Step
<1> QED BY <1>1, <1>2, <1>3

LEMMA NextTypeOK == TypeOK /\ [Next]_vars => TypeOK'
<1> SUFFICES ASSUME TypeOK, [Next]_vars PROVE TypeOK'
  OBVIOUS
<1>0. Worker \in Callers /\ Clients \subseteq Callers
  BY ControllerAssumption
<1>1. CASE WorkerStep
  BY <1>0, <1>1, ConnectTyped, WaitTyped, WorkerTyped DEF WorkerStep
<1>2. CASE \E k \in Clients : ClientCall(k) \/ ClientStep(k)
  BY <1>0, <1>2, DisconnectTyped, WaitTyped, ControllerTyped DEF ClientCall, ClientStep
<1>3. ASSUME NEW c \in Channels, ChannelStep(c) PROVE TypeOK'
  <2>1. CASE Crash("itself")
    BY <1>3, <2>1, SameChannels DEF ChannelStep, Crash, TypeOK, controllerVars
  <2>2. CASE InternalStep(c)
    <3>1. ChannelTypeOK' /\ state' \in ConnectionStates
      BY <2>2, InternalTyped DEF TypeOK
    <3> QED BY <1>3, <2>2, <3>1 DEF ChannelStep, InternalStep, TypeOK, controllerVars
  <2> QED BY <1>3, <2>1, <2>2 DEF ChannelStep
<1>4. CASE UNCHANGED vars
  BY <1>4, SameChannels DEF vars, connectionVars, controllerVars, TypeOK
<1> QED BY <1>1, <1>2, <1>3, <1>4 DEF Next

\* Every variable has its type, for any number of channels and clients.
THEOREM TypeCorrect == Spec => []TypeOK
BY InitTypeOK, NextTypeOK, PTL DEF Spec

-----------------------------------------------------------------------------
\* worker_mutex of a channel, with calls of clients that may overlap.

\* Joining(t, c): thread t, in close() or ~Channel(), waits for the thread of c to end.
Joining(t, c) == pc[t] = "waitJoin" /\ reg[t] = c

\* Who holds the mutex is known from where the threads are, and the other way round.
HolderInv ==
  \A c \in Channels :
    /\ ch[c].mutex \in {c, Nobody} \cup Callers
    /\ Receiving(c) <=> ch[c].mutex = c
    /\ \A t \in Callers : Joining(t, c) <=> ch[c].mutex = t

\* A channel is as the constructor left it until it is started.
NewInv ==
  /\ \A c \in Channels : c > born => ch[c] = Unborn
  /\ pc[Worker] \in Waits \cup {"start"} => channel = 0 \/ ch[channel].pc = "none"
  /\ \A t \in Callers : after[t] # "waitJoin"

MutexInv == TypeOK /\ HolderInv /\ NewInv

LEMMA CallerFacts ==
  /\ Worker \in Callers /\ Worker \notin Clients /\ Clients \subseteq Callers
  /\ \A t \in Callers : t \notin Channels /\ t # Nobody
  /\ Nobody \notin Channels
BY ControllerAssumption, ChannelAssumption

LEMMA InitMutexInv == Init => MutexInv
<1> SUFFICES ASSUME Init PROVE MutexInv
  OBVIOUS
<1>1. TypeOK
  BY InitTypeOK
<1>2. HolderInv
  BY CallerFacts DEF Init, ConnectionInit, ChannelInit, Unborn, HolderInv, Joining, Receiving
<1>3. NewInv
  BY CallerFacts DEF Init, ConnectionInit, ChannelInit, NewInv
<1> QED BY <1>1, <1>2, <1>3 DEF MutexInv

\* A step that leaves the holders, and where they are, alone.
SameHolders ==
  /\ \A c \in Channels : /\ ch'[c].mutex = ch[c].mutex
                         /\ Receiving(c)' <=> Receiving(c)
                         /\ c > born' => ch'[c] = ch[c] /\ c > born
  /\ \A t \in Callers : \A c \in Channels : Joining(t, c)' <=> Joining(t, c)

LEMMA SameHoldersKeeps ==
  ASSUME HolderInv, \A c \in Channels : c > born => ch[c] = Unborn, SameHolders
  PROVE  HolderInv' /\ \A c \in Channels : c > born' => ch'[c] = Unborn
BY DEF HolderInv, SameHolders

LEMMA ConnectMutexInv ==
  ASSUME MutexInv, Connect(Worker), TypeOK' PROVE MutexInv'
<1> USE CallerFacts DEF MutexInv
<1>0. /\ born \in Nat /\ channel \in 0..born /\ reg[Worker] \in 0..born
      /\ ch \in [Channels -> [running: BOOLEAN, state: ChannelStates, open: BOOLEAN,
                              pc: InternalPCs, joinable: BOOLEAN,
                              mutex: Callers \cup Channels \cup {Nobody}]]
      /\ pc = [t \in Callers |-> pc[t]]
      /\ reg = [t \in Callers |-> reg[t]] /\ after = [t \in Callers |-> after[t]]
  BY DEF TypeOK, ChannelTypeOK
<1>1. CASE ConnectBegin(Worker) \/ DialFailed(Worker)
  <2>1. UNCHANGED <<ch, channel, born, reg, after>>
        /\ pc'[Worker] \in {"dial", "rest"} /\ pc[Worker] # "waitJoin"
        /\ \A t \in Callers : t # Worker => pc'[t] = pc[t]
    BY <1>0, <1>1 DEF ConnectBegin, DialFailed, Step, Goto
  <2>2. SameHolders
    BY <2>1 DEF SameHolders, Receiving, Joining
  <2> QED BY <2>1, <2>2, SameHoldersKeeps DEF NewInv, Waits
<1>2. CASE DialSucceeded(Worker)
  <2> DEFINE n == born + 1
  <2>1. /\ n \in Channels /\ born' = n /\ channel' = n
        /\ ch'[n] = [Unborn EXCEPT !.open = TRUE]
        /\ \A c \in Channels : c # n => ch'[c] = ch[c]
        /\ pc[Worker] = "dial" /\ pc'[Worker] \in {"start", "wait"}
        /\ after'[Worker] = "start"
        /\ \A t \in Callers : t # Worker =>
             pc'[t] = pc[t] /\ reg'[t] = reg[t] /\ after'[t] = after[t]
    <3>1. n \in Channels
      BY <1>0, <1>2, ChannelAssumption DEF DialSucceeded, Channels
    <3>2. /\ ch'[n] = [Unborn EXCEPT !.open = TRUE]
          /\ \A c \in Channels : c # n => ch'[c] = ch[c]
      BY <1>0, <1>2, <3>1 DEF DialSucceeded, Construct
    <3>3. /\ born' = n /\ channel' = n
          /\ pc[Worker] = "dial" /\ pc'[Worker] \in {"start", "wait"}
          /\ after'[Worker] = "start"
          /\ \A t \in Callers : t # Worker =>
               pc'[t] = pc[t] /\ reg'[t] = reg[t] /\ after'[t] = after[t]
      BY <1>0, <1>2 DEF DialSucceeded, Goto
    <3> QED BY <3>1, <3>2, <3>3
  <2>2. ch[n].mutex = ch'[n].mutex /\ ch[n].pc = "none" /\ ch'[n].pc = "none"
    <3>1. n \in Channels /\ n > born
      BY <1>0, <2>1
    <3>2. ch[n] = Unborn
      BY <3>1 DEF NewInv
    <3>3. /\ Unborn.mutex = Nobody /\ Unborn.pc = "none"
          /\ [Unborn EXCEPT !.open = TRUE].mutex = Nobody
          /\ [Unborn EXCEPT !.open = TRUE].pc = "none"
      BY DEF Unborn
    <3> HIDE DEF n
    <3> QED BY <2>1, <3>2, <3>3
  <2>3. SameHolders
    <3>1. \A c \in Channels : /\ ch'[c].mutex = ch[c].mutex /\ ch'[c].pc = ch[c].pc
                              /\ c > born' => ch'[c] = ch[c] /\ c > born
      <4>1. ASSUME NEW c \in Channels
            PROVE  ch'[c].mutex = ch[c].mutex /\ ch'[c].pc = ch[c].pc
        <5> HIDE DEF n
        <5> QED BY <2>1, <2>2
      <4>2. ASSUME NEW c \in Channels, c > born' PROVE ch'[c] = ch[c] /\ c > born
        <5>1. c \in Nat /\ c > born + 1
          BY <2>1, <4>2 DEF Channels
        <5>2. c > born /\ c # n
          BY <1>0, <5>1
        <5> HIDE DEF n
        <5> QED BY <2>1, <5>2
      <4> QED BY <4>1, <4>2
    <3>2. \A t \in Callers : \A c \in Channels : Joining(t, c)' <=> Joining(t, c)
      BY <2>1 DEF Joining
    <3> QED BY <3>1, <3>2 DEF SameHolders, Receiving
  <2>4. ch'[channel'].pc = "none"
    BY <2>1 DEF Unborn
  <2> QED BY <2>1, <2>3, <2>4, SameHoldersKeeps DEF NewInv
<1>3. CASE StartChannel(Worker)
  <2>1. CASE Crash("nullptr")
    <3>1. UNCHANGED <<ch, channel, born, pc, reg, after>>
      BY <2>1 DEF Crash
    <3>2. SameHolders
      BY <3>1 DEF SameHolders, Receiving, Joining
    <3> QED BY <3>1, <3>2, SameHoldersKeeps DEF NewInv
  <2>2. CASE channel # 0 /\ ~Crash("nullptr")
    <3>1. channel \in Channels /\ ch[channel].pc = "none"
      BY <1>0, <1>3, <2>2, BornChannels DEF StartChannel, NewInv
    <3>2. /\ UNCHANGED <<channel, born, after>>
          /\ ch'[channel].pc = "loop" /\ ch'[channel].mutex = ch[channel].mutex
          /\ \A c \in Channels : c # channel => ch'[c] = ch[c]
          /\ pc[Worker] = "start" /\ pc'[Worker] = "started"
          /\ \A t \in Callers : t # Worker => pc'[t] = pc[t] /\ reg'[t] = reg[t]
      BY <1>0, <1>3, <2>2, <3>1 DEF StartChannel, StartInternalThread, Goto
    <3>3. SameHolders
      BY <1>0, <3>1, <3>2 DEF SameHolders, Receiving, Joining
    <3> QED BY <3>2, <3>3, SameHoldersKeeps DEF NewInv, Waits
  <2> QED BY <1>3, <2>1, <2>2 DEF StartChannel
<1>4. CASE ChannelRuns(Worker) \/ ChannelConnects(Worker)
  <2>1. /\ UNCHANGED <<channel, born, reg, after>>
        /\ \A c \in Channels : ch'[c].pc = ch[c].pc /\ ch'[c].mutex = ch[c].mutex
        /\ \A c \in Channels : c # reg[Worker] => ch'[c] = ch[c]
        /\ pc'[Worker] \in {"running", "rest"} /\ pc[Worker] # "waitJoin"
        /\ \A t \in Callers : t # Worker => pc'[t] = pc[t]
    BY <1>0, <1>4 DEF ChannelRuns, ChannelConnects, StoreRunning, SetConnecting, Step, Goto
  <2>2. SameHolders
    BY <1>0, <2>1 DEF SameHolders, Receiving, Joining
  <2> QED BY <2>1, <2>2, SameHoldersKeeps DEF NewInv, Waits
<1> QED BY <1>1, <1>2, <1>3, <1>4 DEF Connect

LEMMA WaitMutexInv ==
  ASSUME MutexInv, NEW t \in Callers, WaitForExit(t), TypeOK' PROVE MutexInv'
<1> USE CallerFacts DEF MutexInv
<1> DEFINE r == reg[t]
<1>0. /\ born \in Nat /\ r \in 0..born /\ channel \in 0..born
      /\ ch \in [Channels -> [running: BOOLEAN, state: ChannelStates, open: BOOLEAN,
                              pc: InternalPCs, joinable: BOOLEAN,
                              mutex: Callers \cup Channels \cup {Nobody}]]
      /\ pc = [s \in Callers |-> pc[s]]
      /\ UNCHANGED <<channel, born, reg, after>>
  BY DEF TypeOK, ChannelTypeOK, WaitForExit
<1>1. /\ \A c \in Channels : c # r => ch'[c] = ch[c]
      /\ \A c \in Channels : ch'[c].pc = ch[c].pc
      /\ \A s \in Callers : s # t => pc'[s] = pc[s]
      /\ pc[t] \in Waits
      /\ \/ pc[t] = "wait" /\ pc'[t] = "waitLock" /\ ch'[r].mutex = ch[r].mutex
         \/ /\ pc[t] = "waitLock" /\ pc'[t] = "waitJoin"
            /\ r \in Channels => ch[r].mutex = Nobody /\ ch'[r].mutex = t
         \/ /\ pc[t] = "waitJoin" /\ pc'[t] = after[t]
            /\ r \in Channels => ch[r].mutex = t /\ ch'[r].mutex = Nobody
  <2>1. CASE Step(t, "wait", "waitLock") /\ ClearRunning(r)
    BY <1>0, <2>1 DEF Step, Goto, ClearRunning, Waits
  <2>2. CASE Step(t, "waitLock", "waitJoin") /\ LockToJoin(t, r)
    BY <1>0, <2>2 DEF Step, Goto, LockToJoin, Waits
  <2>3. CASE Step(t, "waitJoin", after[t]) /\ JoinInternal(t, r)
    <3>1. ch' = [ch EXCEPT ![r] = [ch[r] EXCEPT !.joinable = FALSE, !.mutex = Nobody]]
      BY <2>3 DEF JoinInternal
    <3> QED BY <1>0, <2>3, <3>1 DEF Step, Goto, JoinInternal, Waits
  <2> QED BY <2>1, <2>2, <2>3 DEF WaitForExit
<1>2. HolderInv'
  BY <1>0, <1>1 DEF HolderInv, Receiving, Joining, NewInv
<1>3. NewInv'
  <2>1. \A c \in Channels : c > born' => ch'[c] = Unborn
    BY <1>0, <1>1 DEF NewInv, Channels
  <2>2. channel # 0 => channel \in Channels
    BY <1>0, BornChannels
  <2>3. pc'[Worker] \in Waits \cup {"start"} => pc[Worker] \in Waits \cup {"start"}
    BY <1>1
  <2>4. pc'[Worker] \in Waits \cup {"start"} => channel' = 0 \/ ch'[channel'].pc = "none"
    BY <1>0, <1>1, <2>2, <2>3 DEF NewInv
  <2> QED BY <1>0, <2>1, <2>4 DEF NewInv
<1> QED BY <1>2, <1>3

\* The calls of the clients, but for the wait, do not touch the mutex.
LEMMA ClientMutexInv ==
  ASSUME MutexInv, NEW k \in Clients, TypeOK',
         \/ Start(k) \/ ControllerDisconnect(k) \/ Remove(k)
         \/ Spawn(k) \/ ResetProtocol(k) \/ JoinWorker(k) \/ Disconnect(k)
  PROVE  MutexInv'
<1> USE CallerFacts DEF MutexInv
<1>0. /\ born \in Nat /\ reg[k] \in 0..born
      /\ ch \in [Channels -> [running: BOOLEAN, state: ChannelStates, open: BOOLEAN,
                              pc: InternalPCs, joinable: BOOLEAN,
                              mutex: Callers \cup Channels \cup {Nobody}]]
      /\ pc = [t \in Callers |-> pc[t]]
      /\ reg = [t \in Callers |-> reg[t]] /\ after = [t \in Callers |-> after[t]]
  BY DEF TypeOK, ChannelTypeOK
<1>1. /\ born' = born /\ channel' \in {channel, 0}
      /\ ch' = ch \/ CloseSocket(reg[k])
      /\ pc' = pc \/ (pc[k] # "waitJoin" /\ pc'[k] # "waitJoin")
      /\ \A t \in Callers \ {k} : reg'[t] = reg[t] /\ after'[t] = after[t]
      /\ after'[k] # "waitJoin"
      /\ pc' = pc => reg' = reg
      /\ \A t \in Callers \ {k, Worker} : pc'[t] = pc[t]
      /\ pc'[Worker] \in {pc[Worker], "look"}
      /\ pc'[Worker] # pc[Worker] => pc[Worker] = "none"
  <2> USE <1>0 DEF Step, Goto, NewInv
  <2>1. CASE Start(k) \/ ControllerDisconnect(k) \/ ResetProtocol(k)
    BY <2>1 DEF Start, ControllerDisconnect, ResetProtocol
  <2>2. CASE Remove(k) \/ JoinWorker(k)
    BY <2>2 DEF Remove, JoinWorker, DestroyMembers
  <2>3. CASE Spawn(k)
    BY <2>3 DEF Spawn, Crash
  <2>4. CASE DisconnectBegin(k) \/ CloseChannel(k) \/ Disconnected(k)
    BY <2>4 DEF DisconnectBegin, CloseChannel, Disconnected, Crash
  <2>5. CASE CloseChannelSocket(k) \/ DropChannel(k)
    BY <2>5 DEF CloseChannelSocket, DropChannel
  <2> QED BY <2>1, <2>2, <2>3, <2>4, <2>5 DEF Disconnect
<1>2. /\ \A c \in Channels : ch'[c].pc = ch[c].pc /\ ch'[c].mutex = ch[c].mutex
      /\ \A c \in Channels : c # reg[k] => ch'[c] = ch[c]
      /\ \A c \in Channels : c > born => ch'[c] = ch[c]
  BY <1>0, <1>1 DEF CloseSocket
<1>3. \A t \in Callers : (pc'[t] = "waitJoin" <=> pc[t] = "waitJoin")
                         /\ (pc[t] = "waitJoin" => reg'[t] = reg[t])
  BY <1>1
<1>4. SameHolders
  BY <1>1, <1>2, <1>3 DEF SameHolders, Receiving, Joining
<1>5. NewInv'
  <2>1. \A c \in Channels : c > born' => ch'[c] = Unborn
    BY <1>4, SameHoldersKeeps DEF NewInv
  <2>2. pc'[Worker] \in Waits \cup {"start"} => channel' = 0 \/ ch'[channel'].pc = "none"
    BY <1>1, <1>2, BornChannels DEF NewInv, Waits, TypeOK
  <2>3. \A t \in Callers : after'[t] # "waitJoin"
    BY <1>1 DEF NewInv
  <2> QED BY <2>1, <2>2, <2>3 DEF NewInv
<1> QED BY <1>4, <1>5, SameHoldersKeeps DEF NewInv

LEMMA InternalMutexInv ==
  ASSUME MutexInv, NEW c \in Channels, InternalStep(c), TypeOK' PROVE MutexInv'
<1> USE CallerFacts DEF MutexInv
<1>0. ch \in [Channels -> [running: BOOLEAN, state: ChannelStates, open: BOOLEAN,
                           pc: InternalPCs, joinable: BOOLEAN,
                           mutex: Callers \cup Channels \cup {Nobody}]]
  BY DEF TypeOK, ChannelTypeOK
<1> DEFINE Takes(x) == x \in {"recv", "data", "deliver"}
<1>1. /\ UNCHANGED <<channel, born, pc, reg, after>>
      /\ \A d \in Channels : d # c => ch'[d] = ch[d]
      /\ ch[c].pc # "none"
      /\ \/ ch'[c].mutex = ch[c].mutex /\ (Receiving(c)' <=> Receiving(c))
         \/ ch[c].mutex = Nobody /\ ch'[c].mutex = c /\ Receiving(c)'
         \/ Receiving(c) /\ ch'[c].mutex = Nobody /\ ~Receiving(c)'
  <2> USE <1>0 DEF Receiving
  <2>1. CASE DidConnect(c) \/ DidError(c)
    BY <2>1 DEF InternalStep, DidConnect, NoteConnected, DidError, NoteErrored
  <2>2. CASE TestRunning(c) \/ LockInternal(c)
    BY <2>2 DEF InternalStep, TestRunning, LockInternal
  <2>3. CASE ReceiveData(c) \/ ReceiveTimeout(c) \/ ReceiveError(c)
    BY <2>3 DEF InternalStep, ReceiveData, ReceiveTimeout, ReceiveError
  <2>4. CASE Delivered(c) \/ CloseInternal(c)
    BY <2>4 DEF InternalStep, Delivered, CloseInternal
  <2> QED BY <2>1, <2>2, <2>3, <2>4 DEF InternalStep
<1>2. HolderInv'
  BY <1>1 DEF HolderInv, Receiving, Joining
<1>3. NewInv'
  <2>1. Unborn.pc = "none"
    BY DEF Unborn
  <2>2. \A d \in Channels : d > born' => ch'[d] = Unborn
    BY <1>1, <2>1 DEF NewInv
  <2>3. channel \in 0..born /\ (channel # 0 => channel \in Channels)
    BY BornChannels DEF TypeOK
  <2>4. pc'[Worker] \in Waits \cup {"start"} => channel' = 0 \/ ch'[channel'].pc = "none"
    BY <1>1, <2>3 DEF NewInv
  <2> QED BY <1>1, <2>2, <2>4 DEF NewInv
<1> QED BY <1>2, <1>3

LEMMA NextMutexInv == MutexInv /\ [Next]_vars => MutexInv'
<1> SUFFICES ASSUME MutexInv, [Next]_vars PROVE MutexInv'
  OBVIOUS
<1> USE CallerFacts
<1>1. TypeOK'
  BY NextTypeOK DEF MutexInv
<1>2. ASSUME UNCHANGED <<ch, channel, born, pc, reg, after>> PROVE MutexInv'
  BY <1>1, <1>2 DEF MutexInv, HolderInv, NewInv, Receiving, Joining
<1>3. CASE WorkerStep
  <2>1. CASE Look \/ Decide \/ Rest
    <3>1. UNCHANGED <<ch, channel, born, reg, after>>
          /\ pc[Worker] # "waitJoin"
          /\ pc'[Worker] \in {"exited", "rest", "decide", "connect", "look"}
          /\ \A t \in Callers : t # Worker => pc'[t] = pc[t]
      BY <2>1 DEF Look, LookUnless, Decide, Rest, Step, Goto, MutexInv, TypeOK
    <3>2. SameHolders
      BY <3>1 DEF SameHolders, Receiving, Joining
    <3> QED BY <1>1, <3>1, <3>2, SameHoldersKeeps DEF MutexInv, NewInv, Waits
  <2> QED BY <1>1, <1>3, <2>1, ConnectMutexInv, WaitMutexInv DEF WorkerStep
<1>4. CASE \E k \in Clients : ClientCall(k) \/ ClientStep(k)
  BY <1>1, <1>4, ClientMutexInv, WaitMutexInv DEF ClientCall, ClientStep
<1>5. CASE \E c \in Channels : ChannelStep(c)
  BY <1>1, <1>2, <1>5, InternalMutexInv DEF ChannelStep, Crash
<1>6. CASE UNCHANGED vars
  BY <1>2, <1>6 DEF vars, connectionVars
<1> QED BY <1>3, <1>4, <1>5, <1>6 DEF Next

\* However the calls of the clients overlap, worker_mutex does what it is for: while
\* somebody waits in close() or ~Channel() for the internal thread of a channel, that
\* thread neither receives nor hands data on, and nobody else waits for it, so that a
\* std::thread is never joined twice at once (Channel.cpp:54-66, 101-109, 117-131).
JoinsInPeace ==
  \A c \in Channels : \A t \in Callers :
    Joining(t, c) => ~Receiving(c) /\ \A s \in Callers : Joining(s, c) => s = t

THEOREM MutexInvariance == Spec => []MutexInv
BY InitMutexInv, NextMutexInv, PTL DEF Spec

THEOREM JoinedInPeace == Spec => []JoinsInPeace
<1>1. MutexInv => JoinsInPeace
  BY CallerFacts DEF MutexInv, HolderInv, JoinsInPeace
<1> QED BY MutexInvariance, <1>1, PTL

-----------------------------------------------------------------------------
\* What the steps do to a channel, in the terms of the invariant.

\* A step that neither starts nor stops nor wakes an internal thread.
Tame ==
  \A d \in Channels :
    /\ ch'[d].pc = ch[d].pc
    /\ ch'[d].running => ch[d].running
    /\ ch'[d].joinable = ch[d].joinable \/ ~Alive(d)
    /\ ch'[d].open = ch[d].open \/ Quiet(d)

SameStates == \A d \in Channels : ch'[d].state = ch[d].state

LEMMA UnchangedTame == ASSUME ch' = ch PROVE Tame /\ SameStates
BY DEF Tame, SameStates

\* The internal thread of c was joined, or never was.
LEMMA JoinedIsDead ==
  ASSUME ChannelTypeOK, ThreadInv, NEW c \in Channels, NEW t, JoinInternal(t, c)
  PROVE  ~Alive(c)
BY DEF ThreadInv, JoinInternal, Alive

LEMMA CallersTame ==
  ASSUME ChannelTypeOK, ThreadInv, NEW c \in Channels, NEW t,
         \/ ClearRunning(c) \/ LockToJoin(t, c) \/ JoinInternal(t, c)
         \/ CloseSocket(c) /\ Quiet(c)
  PROVE  Tame /\ SameStates
<1> USE DEF Tame, SameStates
<1>1. CASE ClearRunning(c)
  BY <1>1 DEF ClearRunning, ChannelTypeOK
<1>2. CASE LockToJoin(t, c)
  BY <1>2 DEF LockToJoin, ChannelTypeOK
<1>3. CASE JoinInternal(t, c)
  <2> DEFINE joined == [ch[c] EXCEPT !.joinable = FALSE, !.mutex = Nobody]
  <2>1. ch' = [ch EXCEPT ![c] = joined]
    BY <1>3 DEF JoinInternal
  <2>2. \A d \in Channels : ch'[d] = IF d = c THEN joined ELSE ch[d]
    BY <2>1 DEF ChannelTypeOK
  <2>3. /\ joined.pc = ch[c].pc /\ joined.running = ch[c].running
        /\ joined.open = ch[c].open /\ joined.state = ch[c].state
    BY DEF ChannelTypeOK
  <2>4. ~Alive(c)
    BY <1>3, JoinedIsDead
  <2> QED BY <2>2, <2>3, <2>4
<1>4. CASE CloseSocket(c) /\ Quiet(c)
  BY <1>4 DEF CloseSocket, ChannelTypeOK
<1> QED BY <1>1, <1>2, <1>3, <1>4

LEMMA TameKeeps ==
  ASSUME ThreadInv, Tame
  PROVE  /\ ThreadInv'
         /\ \A d \in Channels : Quiet(d) => Quiet(d)'
         /\ \A d \in Channels : Alive(d)' => Alive(d)
BY DEF ThreadInv, Tame, Alive, Quiet

LEMMA InternalEffect ==
  ASSUME TypeOK, ThreadInv, NEW c \in Channels, InternalStep(c)
  PROVE  /\ \A d \in Channels : d # c => ch'[d] = ch[d]
         /\ Alive(c)
         /\ ThreadInv'
         /\ ch'[c].pc # "none"
         /\ Quiet(c) => Quiet(c)' /\ ch'[c].open = ch[c].open
         /\ ch[c].state # "Connected" => ch'[c].state # "Connected" \/ ch[c].state = "Connecting"
         /\ ch'[c].state # "Connecting" \/ ch[c].state = "Connecting"
         /\ \/ state' = state
            \/ /\ ~Quiet(c) /\ ch[c].state = "Connecting"
               /\ state = "Connecting" /\ state' = "Connected"
            \/ ~Quiet(c) /\ Quiet(c)' /\ state' = "Errored"
<1> USE DEF TypeOK, ChannelTypeOK, ThreadInv, Alive, Quiet
<1>1. CASE DidConnect(c)
  BY <1>1 DEF DidConnect, NoteConnected
<1>2. CASE DidError(c)
  BY <1>2 DEF DidError, NoteErrored
<1>3. CASE TestRunning(c) /\ UNCHANGED state
  BY <1>3 DEF TestRunning
<1>4. CASE LockInternal(c) /\ UNCHANGED state
  BY <1>4 DEF LockInternal
<1>5. CASE ReceiveData(c) /\ UNCHANGED state
  BY <1>5 DEF ReceiveData
<1>6. CASE ReceiveTimeout(c) /\ UNCHANGED state
  BY <1>6 DEF ReceiveTimeout
<1>7. CASE ReceiveError(c) /\ UNCHANGED state
  BY <1>7 DEF ReceiveError
<1>8. CASE Delivered(c) /\ UNCHANGED state
  BY <1>8 DEF Delivered
<1>9. CASE CloseInternal(c) /\ UNCHANGED state
  BY <1>9 DEF CloseInternal
<1> QED BY <1>1, <1>2, <1>3, <1>4, <1>5, <1>6, <1>7, <1>8, <1>9 DEF InternalStep

-----------------------------------------------------------------------------
\* The worker's steps keep the invariant.

LEMMA WorkerControl ==
  ASSUME IInv, Look \/ Decide \/ Rest
  PROVE  SafetyInv'
<1> USE DEF IInv, SafetyInv, TypeOK, controllerVars
<1>0. Worker \in Callers /\ Clients \subseteq Callers /\ Worker \notin Clients
  BY ControllerAssumption
<1>1. /\ UNCHANGED <<ch, state, channel, reg, after, should_reconnect>>
      /\ \A k \in Clients : pc'[k] = pc[k]
      /\ \/ pc[Worker] = "look" /\ pc'[Worker] \in {"exited", "rest"}
         \/ pc[Worker] = "look" /\ pc'[Worker] = "decide" /\ state \notin {"Connecting", "Connected"}
         \/ pc[Worker] = "decide" /\ pc'[Worker] = "connect" /\ should_reconnect
         \/ pc[Worker] = "decide" /\ pc'[Worker] = "rest"
         \/ pc[Worker] = "rest" /\ pc'[Worker] = "look"
  BY <1>0 DEF Look, LookUnless, Decide, Rest, Step, Goto
<1>2. PhaseInv'
  BY <1>1 DEF PhaseInv, WorkerPCs, Connects, Starting, Waits
<1>3. ThreadInv'
  BY <1>1 DEF ThreadInv, Alive, Quiet
<1>4. QuietInv'
  <2>1. Calm' => Calm
    BY <1>1 DEF Calm, Asking, Starting, Waits, Joined, Clear, ConnectionStates
  <2> QED BY <1>1, <2>1 DEF QuietInv, Quiet
<1>5. AliveInv'
  BY <1>1 DEF AliveInv, Alive, Waits
<1>6. WorkerInv'
  BY <1>1 DEF WorkerInv, Asking, Starting, Waits, Clear, ConnectionStates
<1>7. ClientInv'
  BY <1>1 DEF ClientInv, Closing, Destroying, Connects, Starting, Waits
<1>8. LinkInv'
  BY <1>1, <1>2 DEF LinkInv, Closing, Destroying, PhaseInv, Waits
<1> QED BY <1>2, <1>3, <1>4, <1>5, <1>6, <1>7, <1>8

LEMMA WorkerDials ==
  ASSUME IInv, ConnectBegin(Worker) \/ DialFailed(Worker), UNCHANGED controllerVars
  PROVE  SafetyInv'
<1> USE DEF IInv, SafetyInv, TypeOK, controllerVars
<1>0. Worker \in Callers /\ Clients \subseteq Callers /\ Worker \notin Clients
  BY ControllerAssumption
<1>1. /\ UNCHANGED <<ch, channel, reg, after, should_reconnect>>
      /\ \A k \in Clients : pc'[k] = pc[k]
      /\ \/ /\ pc[Worker] = "connect" /\ pc'[Worker] = "dial"
            /\ state \in Clear /\ state' = "Connecting"
         \/ /\ pc[Worker] = "dial" /\ pc'[Worker] = "rest"
            /\ state' = "FailedToConnect"
  BY <1>0 DEF ConnectBegin, DialFailed, Step, Goto, WorkerInv, Asking, Clear
<1>2. PhaseInv'
  BY <1>1 DEF PhaseInv, WorkerPCs, Connects, Starting, Waits
<1>3. ThreadInv'
  BY <1>1 DEF ThreadInv, Alive, Quiet
<1>4. QuietInv'
  <2>1. Calm
    BY <1>1 DEF Calm, Asking, Starting
  <2> QED BY <1>1, <2>1 DEF QuietInv, Quiet
<1>5. AliveInv'
  BY <1>1 DEF AliveInv, Alive, Waits
<1>6. WorkerInv'
  BY <1>1 DEF WorkerInv, Asking, Starting, Waits, Clear
<1>7. ClientInv'
  BY <1>1 DEF ClientInv, Closing, Destroying, Connects, Starting, Waits
<1>8. LinkInv'
  BY <1>1, <1>2 DEF LinkInv, Closing, Destroying, PhaseInv, Waits
<1> QED BY <1>2, <1>3, <1>4, <1>5, <1>6, <1>7, <1>8

LEMMA WorkerConstructs ==
  ASSUME IInv, DialSucceeded(Worker), UNCHANGED controllerVars
  PROVE  SafetyInv'
<1> USE DEF IInv, SafetyInv, TypeOK, controllerVars
<1>0. Worker \in Callers /\ Clients \subseteq Callers /\ Worker \notin Clients
  BY ControllerAssumption
<1> DEFINE n == born + 1
<1>1. /\ UNCHANGED <<state, should_reconnect>>
      /\ channel' = n /\ n \in Channels /\ n # 0
      /\ reg'[Worker] = channel /\ after'[Worker] = "start"
      /\ pc[Worker] = "dial"
      /\ \/ channel = 0 /\ pc'[Worker] = "start"
         \/ channel # 0 /\ pc'[Worker] = "wait"
      /\ \A k \in Clients : pc'[k] = pc[k] /\ reg'[k] = reg[k] /\ after'[k] = after[k]
  BY <1>0, ChannelAssumption DEF DialSucceeded, Goto, Channels
<1>2. /\ ch'[n].pc = "none" /\ ~ch'[n].running /\ ch'[n].open
      /\ ch'[n].state = "Disconnected"
      /\ \A d \in Channels : d # n => ch'[d] = ch[d]
  BY <1>1 DEF DialSucceeded, Construct, Unborn, ChannelTypeOK
<1>3. PhaseInv'
  BY <1>1 DEF PhaseInv, WorkerPCs, Connects, Starting, Waits
<1>4. ThreadInv'
  BY <1>2 DEF ThreadInv, Alive, Quiet
<1>5. QuietInv'
  <2>1. Calm
    BY <1>1 DEF Calm, Starting
  <2> QED BY <1>2, <2>1 DEF QuietInv, Quiet
<1>6. AliveInv'
  <2> SUFFICES ASSUME NEW c \in Channels, Alive(c)'
               PROVE  \/ c = channel'
                      \/ pc'[Worker] \in Waits /\ reg'[Worker] = c
                      \/ \E k \in Clients : pc'[k] \in Waits /\ after'[k] # "closeSocket"
                                              /\ reg'[k] = c
    BY DEF AliveInv
  <2>1. Alive(c) /\ c # n
    BY <1>2 DEF Alive
  <2>2. CASE c = channel
    <3>1. channel # 0
      BY <2>2 DEF Channels
    <3> QED BY <1>1, <2>2, <3>1 DEF Waits
  <2>3. CASE c # channel
    BY <1>1, <2>1, <2>3 DEF AliveInv, Waits
  <2> QED BY <2>2, <2>3
<1>7. WorkerInv'
  BY <1>1, <1>2 DEF WorkerInv, Asking, Starting, Waits
<1>8. ClientInv'
  <2>1. \A k \in Clients : ~Closing(k) /\ ~Destroying(k)
    BY <1>1 DEF ClientInv, Connects, Starting
  <2>2. \A k \in Clients : ~Closing(k)' /\ ~Destroying(k)'
    BY <1>1, <2>1 DEF Closing, Destroying
  <2> QED BY <1>1, <2>1, <2>2 DEF ClientInv, Closing, PhaseInv, Destroying
<1>9. LinkInv'
  BY <1>1, <1>2 DEF LinkInv, Closing, Destroying, PhaseInv, Waits
<1> QED BY <1>3, <1>4, <1>5, <1>6, <1>7, <1>8, <1>9

LEMMA WorkerStarts ==
  ASSUME IInv, StartChannel(Worker), UNCHANGED controllerVars
  PROVE  SafetyInv' /\ NoNullCall'
<1> USE DEF IInv, SafetyInv, TypeOK, controllerVars
<1>0. Worker \in Callers /\ Clients \subseteq Callers /\ Worker \notin Clients
  BY ControllerAssumption
<1>1. channel # 0 /\ channel \in Channels
  BY BornChannels DEF StartChannel, WorkerInv
<1>2. /\ UNCHANGED <<state, channel, crashed, after, should_reconnect>>
      /\ reg'[Worker] = channel
      /\ pc[Worker] = "start" /\ pc'[Worker] = "started"
      /\ \A k \in Clients : pc'[k] = pc[k] /\ reg'[k] = reg[k]
  BY <1>0, <1>1 DEF StartChannel, Goto
<1>3. /\ ch'[channel].pc = "loop" /\ ch'[channel].joinable
      /\ ch[channel].pc = "none" /\ ch'[channel].running = ch[channel].running
      /\ ch'[channel].open = ch[channel].open
      /\ ch'[channel].state = ch[channel].state
      /\ \A d \in Channels : d # channel => ch'[d] = ch[d]
  BY <1>1, <1>2 DEF StartChannel, StartInternalThread, ChannelTypeOK, WorkerInv
<1>4. PhaseInv'
  BY <1>2 DEF PhaseInv, WorkerPCs, Connects, Starting, Waits
<1>5. ThreadInv'
  BY <1>1, <1>3 DEF ThreadInv, Alive, Quiet
<1>6. QuietInv'
  <2>1. Calm
    BY <1>2 DEF Calm, Starting
  <2> QED BY <1>1, <1>3, <2>1 DEF QuietInv, Quiet, ThreadInv
<1>7. AliveInv'
  BY <1>2, <1>3 DEF AliveInv, Alive, Waits
<1>8. WorkerInv'
  BY <1>1, <1>2, <1>3 DEF WorkerInv, Asking, Starting, Waits
<1>9. ClientInv'
  BY <1>2 DEF ClientInv, Closing, Destroying, Connects, Starting, Waits
<1>10. LinkInv'
  BY <1>1, <1>2 DEF LinkInv, Closing, Destroying, PhaseInv, Waits
<1> QED BY <1>2, <1>4, <1>5, <1>6, <1>7, <1>8, <1>9, <1>10 DEF NoNullCall

LEMMA WorkerRuns ==
  ASSUME IInv, ChannelRuns(Worker), UNCHANGED controllerVars
  PROVE  SafetyInv'
<1> USE DEF IInv, SafetyInv, TypeOK, controllerVars
<1>0. Worker \in Callers /\ Clients \subseteq Callers /\ Worker \notin Clients
  BY ControllerAssumption
<1>1. /\ pc[Worker] = "started" /\ reg[Worker] = channel
      /\ channel # 0 /\ channel \in Channels
      /\ state = "Connecting" /\ ch[channel].open
  BY BornChannels DEF ChannelRuns, Step, WorkerInv, Starting
<1>2. /\ UNCHANGED <<state, channel, reg, after, should_reconnect>>
      /\ pc'[Worker] = "running" /\ \A k \in Clients : pc'[k] = pc[k]
  BY <1>0 DEF ChannelRuns, Step, Goto
<1>3. ch[channel].pc \in {"loop", "exited"}
  BY <1>1 DEF QuietInv, Calm, Starting, Quiet, WorkerInv
<1>4. /\ ch'[channel].pc = ch[channel].pc /\ ch'[channel].joinable = ch[channel].joinable
      /\ ch'[channel].open = ch[channel].open /\ ch'[channel].state = ch[channel].state
      /\ \A d \in Channels : d # channel => ch'[d] = ch[d]
  BY <1>1 DEF ChannelRuns, StoreRunning, ChannelTypeOK
<1>5. PhaseInv'
  BY <1>2 DEF PhaseInv, WorkerPCs, Connects, Starting, Waits
<1>6. ThreadInv'
  BY <1>1, <1>3, <1>4 DEF ThreadInv, Alive, Quiet
<1>7. QuietInv'
  <2>1. \A k \in Clients : ~Closing(k)
    BY <1>1 DEF ClientInv, Connects, Starting
  <2>2. ~Calm'
    BY <1>1, <1>2, <2>1 DEF Calm, Asking, Starting, Waits, Clear, Joined, Closing
  <2> QED BY <2>2 DEF QuietInv
<1>8. AliveInv'
  BY <1>1, <1>2, <1>4 DEF AliveInv, Alive, Waits
<1>9. WorkerInv'
  BY <1>1, <1>2, <1>3, <1>4 DEF WorkerInv, Asking, Starting, Waits
<1>10. ClientInv'
  BY <1>1, <1>2 DEF ClientInv, Closing, Destroying, Connects, Starting, Waits
<1>11. LinkInv'
  BY <1>1, <1>2 DEF LinkInv, Closing, Destroying, PhaseInv, Waits
<1> QED BY <1>5, <1>6, <1>7, <1>8, <1>9, <1>10, <1>11

LEMMA WorkerRests ==
  ASSUME IInv, ChannelConnects(Worker), UNCHANGED controllerVars
  PROVE  SafetyInv'
<1> USE DEF IInv, SafetyInv, TypeOK, controllerVars
<1>0. Worker \in Callers /\ Clients \subseteq Callers /\ Worker \notin Clients
  BY ControllerAssumption
<1>1. pc[Worker] = "running" /\ channel \in Channels /\ reg[Worker] = channel
  BY BornChannels DEF ChannelConnects, Step, WorkerInv
<1>2. /\ UNCHANGED <<state, channel, reg, after, should_reconnect>>
      /\ pc'[Worker] = "rest" /\ \A k \in Clients : pc'[k] = pc[k]
  BY <1>0 DEF ChannelConnects, Step, Goto
<1>3. \A d \in Channels :
        /\ ch'[d].pc = ch[d].pc /\ ch'[d].joinable = ch[d].joinable
        /\ ch'[d].open = ch[d].open /\ ch'[d].running = ch[d].running
  BY <1>1 DEF ChannelConnects, SetConnecting, ChannelTypeOK
<1>4. PhaseInv'
  BY <1>2 DEF PhaseInv, WorkerPCs, Connects, Starting, Waits
<1>5. ThreadInv'
  BY <1>3 DEF ThreadInv, Alive, Quiet
<1>6. QuietInv'
  <2>1. Calm' => Calm
    BY <1>2 DEF Calm, Asking, Starting, Waits, Joined
  <2> QED BY <1>3, <2>1 DEF QuietInv, Quiet
<1>7. AliveInv'
  BY <1>1, <1>2, <1>3 DEF AliveInv, Alive, Waits
<1>8. WorkerInv'
  BY <1>2 DEF WorkerInv, Asking, Starting, Waits
<1>9. ClientInv'
  BY <1>1, <1>2 DEF ClientInv, Closing, Destroying, Connects, Starting, Waits
<1>10. LinkInv'
  BY <1>1, <1>2 DEF LinkInv, Closing, Destroying, PhaseInv, Waits
<1> QED BY <1>4, <1>5, <1>6, <1>7, <1>8, <1>9, <1>10

LEMMA WorkerWaits ==
  ASSUME IInv, WaitForExit(Worker), UNCHANGED controllerVars
  PROVE  SafetyInv'
<1> USE DEF IInv, SafetyInv, TypeOK, controllerVars
<1>0. Worker \in Callers /\ Clients \subseteq Callers /\ Worker \notin Clients
  BY ControllerAssumption
<1>1. /\ UNCHANGED <<state, channel, reg, after, should_reconnect>>
      /\ pc[Worker] \in Waits /\ after[Worker] = "start"
      /\ reg[Worker] # 0 /\ reg[Worker] \in Channels
      /\ \A k \in Clients : pc'[k] = pc[k]
      /\ \/ pc'[Worker] \in Waits
         \/ pc'[Worker] = "start" /\ ~Alive(reg[Worker])
  BY <1>0, BornChannels, JoinedIsDead DEF WaitForExit, Step, Goto, PhaseInv, Waits
<1>2. Tame /\ SameStates
  BY <1>1, CallersTame DEF WaitForExit
<1>3. channel # 0 /\ channel \in Channels
  BY <1>1, BornChannels DEF WorkerInv
<1>4. PhaseInv'
  BY <1>1 DEF PhaseInv, WorkerPCs, Connects, Starting, Waits
<1>5. ThreadInv'
  BY <1>2, TameKeeps
<1>6. QuietInv'
  <2>1. Calm
    BY <1>1 DEF Calm, Starting
  <2> QED BY <1>2, <2>1, TameKeeps DEF QuietInv
<1>7. AliveInv'
  <2> SUFFICES ASSUME NEW c \in Channels, Alive(c)'
               PROVE  \/ c = channel'
                      \/ pc'[Worker] \in Waits /\ reg'[Worker] = c
                      \/ \E k \in Clients : pc'[k] \in Waits /\ after'[k] # "closeSocket"
                                              /\ reg'[k] = c
    BY DEF AliveInv
  <2>1. Alive(c)
    BY <1>2, TameKeeps
  <2> QED BY <1>1, <2>1 DEF AliveInv
<1>8. WorkerInv'
  <2>1. ch'[channel].open = ch[channel].open \/ Quiet(channel)
    BY <1>2, <1>3 DEF Tame
  <2>2. ch'[channel].open
    BY <1>1, <1>2, <1>3 DEF WorkerInv, WaitForExit, ClearRunning, LockToJoin, JoinInternal,
          ChannelTypeOK
  <2> QED BY <1>1, <1>2, <1>3, <2>2 DEF WorkerInv, Asking, Starting, Waits, Tame, SameStates
<1>9. ClientInv'
  BY <1>1 DEF ClientInv, Closing, Destroying, Connects, Starting, Waits
<1>10. LinkInv'
  BY <1>1, <1>2 DEF LinkInv, Closing, Destroying, PhaseInv, Waits
<1> QED BY <1>4, <1>5, <1>6, <1>7, <1>8, <1>9, <1>10

-----------------------------------------------------------------------------
\* The steps of a client keep the invariant while the others are idle.

LEMMA ClientControl ==
  ASSUME IInv, NEW k \in Clients,
         \/ Start(k) \/ Spawn(k) \/ ControllerDisconnect(k) \/ ResetProtocol(k) \/ Remove(k)
         \/ DisconnectBegin(k) /\ UNCHANGED controllerVars,
         Alone(k)
  PROVE  SafetyInv' /\ NoNullCall'
<1> USE DEF IInv, SafetyInv, TypeOK, controllerVars, Alone
<1>0. Worker \in Callers /\ k \in Callers /\ Worker # k /\ Clients \subseteq Callers
  BY ControllerAssumption
<1>1. /\ UNCHANGED <<ch, state, channel, reg, after>> /\ crashed' \in {crashed, "terminate"}
      /\ pc'[Worker] = pc[Worker] \/ (pc[Worker] = "none" /\ pc'[Worker] = "look")
      /\ \/ UNCHANGED should_reconnect /\ pc' = pc
         \/ /\ pc[k] \in {"idle", "spawn", "reset"}
            /\ pc'[k] \in {"idle", "spawn", "left", "joinWorker"}
         \/ pc[k] = "idle" /\ pc'[k] = "disconnect" /\ ~should_reconnect'
         \/ UNCHANGED should_reconnect /\ pc[k] = "disconnect" /\ pc'[k] = "reset"
         \/ /\ UNCHANGED should_reconnect
            /\ pc[k] = "disconnect" /\ pc'[k] = "close" /\ state = "Connected"
      /\ pc[k] = "spawn" \/ pc'[Worker] = pc[Worker]
      /\ pc'[Worker] = pc[Worker] \/ ~Destroying(k)'
      /\ \A j \in Clients : j # k => pc[j] = "idle" /\ pc'[j] = "idle"
  <2>1. CASE Start(k)
    BY <1>0, <2>1 DEF Start, Step, Goto
  <2>2. CASE Spawn(k)
    <3>1. CASE Crash("terminate") /\ UNCHANGED controllerVars
      BY <3>1 DEF Crash
    <3>2. CASE pc[Worker] = "none" /\ pc' = [pc EXCEPT ![k] = "idle", ![Worker] = "look"]
      <4>1. \A t \in Callers : pc'[t] = IF t = Worker THEN "look"
                                       ELSE IF t = k THEN "idle" ELSE pc[t]
        BY <1>0, <3>2
      <4>2. pc'[k] = "idle" /\ ~Destroying(k)'
        BY <1>0, <4>1 DEF Destroying, Waits
      <4> QED BY <1>0, <2>2, <3>2, <4>1, <4>2 DEF Spawn, Crash
    <3> QED BY <2>2, <3>1, <3>2 DEF Spawn
  <2>3. CASE ControllerDisconnect(k)
    BY <1>0, <2>3 DEF ControllerDisconnect, Step, Goto
  <2>4. CASE ResetProtocol(k)
    BY <1>0, <2>4 DEF ResetProtocol, Step, Goto
  <2>5. CASE Remove(k)
    BY <1>0, <2>5 DEF Remove, Goto
  <2>6. CASE DisconnectBegin(k) /\ UNCHANGED controllerVars
    BY <1>0, <2>6 DEF DisconnectBegin, Step, Goto
  <2> QED BY <2>1, <2>2, <2>3, <2>4, <2>5, <2>6
<1>2. pc[k] \notin Waits \/ pc' = pc
  BY <1>1 DEF Waits
<1>3. PhaseInv'
  BY <1>1 DEF PhaseInv, WorkerPCs, ClientPCs, Connects, Starting, Waits
<1>4. ThreadInv'
  BY <1>1 DEF ThreadInv, Alive, Quiet
<1>5. QuietInv'
  <2>1. Calm' => Calm
    BY <1>1 DEF Calm, Asking, Starting, Waits, Joined
  <2> QED BY <1>1, <2>1 DEF QuietInv, Quiet
<1>6. AliveInv'
  BY <1>1, <1>2 DEF AliveInv, Alive, Waits
<1>7. WorkerInv'
  BY <1>1 DEF WorkerInv, Asking, Starting, Waits
<1>8. ClientInv'
  <2>1. CASE UNCHANGED should_reconnect /\ pc' = pc
    BY <1>1, <2>1 DEF ClientInv, Closing, Destroying, Connects, Starting, Waits
  <2>2. CASE /\ UNCHANGED should_reconnect
             /\ pc[k] = "disconnect" /\ pc'[k] = "close" /\ state = "Connected"
    <3>1. pc[Worker] \notin Connects
      BY <1>1, <2>2 DEF WorkerInv, Connects, Asking, Starting, Clear, Closing, ClientInv
    <3>2. channel # 0
      BY <1>1, <2>2 DEF LinkInv, Closing, Destroying, Waits
    <3>3. \A j \in Clients : j # k => pc'[j] = "idle"
      BY <1>1
    <3>4. ~should_reconnect' /\ pc'[Worker] = pc[Worker]
      BY <1>1, <2>2 DEF ClientInv
    <3> QED BY <1>1, <2>2, <3>1, <3>2, <3>3, <3>4 DEF ClientInv, Closing, Destroying, Waits
  <2>3. CASE pc'[k] \in {"idle", "spawn", "left", "joinWorker", "disconnect", "reset"}
             /\ pc[k] \in {"idle", "spawn", "reset", "disconnect"}
    BY <1>1, <2>3 DEF ClientInv, Closing, Destroying, Waits
  <2> QED BY <1>1, <2>1, <2>2, <2>3
<1>9. LinkInv'
  BY <1>1 DEF LinkInv, Closing, Destroying, Waits, Alone
<1> QED BY <1>1, <1>3, <1>4, <1>5, <1>6, <1>7, <1>8, <1>9 DEF NoNullCall

LEMMA ClientCloses ==
  ASSUME IInv, NEW k \in Clients, CloseChannel(k), UNCHANGED controllerVars, Alone(k)
  PROVE  SafetyInv' /\ NoNullCall'
<1> USE DEF IInv, SafetyInv, TypeOK, controllerVars, Alone
<1>0. Worker \in Callers /\ k \in Callers /\ Worker # k /\ Clients \subseteq Callers
  BY ControllerAssumption
<1>1. /\ UNCHANGED <<ch, state, channel, crashed, should_reconnect>>
      /\ pc'[Worker] = pc[Worker] /\ reg'[Worker] = reg[Worker]
      /\ after'[Worker] = after[Worker]
      /\ pc[k] = "close" /\ pc'[k] = "wait" /\ channel # 0
      /\ reg'[k] = channel /\ after'[k] = "closeSocket"
      /\ \A j \in Clients : j # k => pc[j] = "idle" /\ pc'[j] = "idle"
  BY <1>0 DEF CloseChannel, Goto, ClientInv
<1>2. PhaseInv'
  BY <1>1 DEF PhaseInv, ClientPCs, Waits
<1>3. ThreadInv'
  BY <1>1 DEF ThreadInv, Alive, Quiet
<1>4. QuietInv'
  <2>1. Calm' => Calm
    BY <1>1 DEF Calm, Joined, Waits
  <2> QED BY <1>1, <2>1 DEF QuietInv, Quiet
<1>5. AliveInv'
  BY <1>1 DEF AliveInv, Alive, Waits
<1>6. WorkerInv'
  BY <1>1 DEF WorkerInv
<1>7. ClientInv'
  BY <1>1 DEF ClientInv, Closing, Destroying, Waits
<1>8. LinkInv'
  BY <1>1 DEF LinkInv, Closing, Destroying, Waits, Alone
<1> QED BY <1>1, <1>2, <1>3, <1>4, <1>5, <1>6, <1>7, <1>8 DEF NoNullCall

LEMMA ClientClosesSocket ==
  ASSUME IInv, NEW k \in Clients, CloseChannelSocket(k), UNCHANGED controllerVars,
         Alone(k)
  PROVE  SafetyInv'
<1> USE DEF IInv, SafetyInv, TypeOK, controllerVars, Alone
<1>0. Worker \in Callers /\ k \in Callers /\ Worker # k /\ Clients \subseteq Callers
  BY ControllerAssumption
<1>1. /\ UNCHANGED <<state, channel, reg, after, should_reconnect>>
      /\ pc'[Worker] = pc[Worker]
      /\ pc[k] = "closeSocket" /\ pc'[k] \in {"drop", "disconnected"}
      /\ reg[k] = channel /\ channel # 0 /\ channel \in Channels
      /\ \A j \in Clients : j # k => pc[j] = "idle" /\ pc'[j] = "idle"
  BY <1>0, BornChannels DEF CloseChannelSocket, Step, Goto, ClientInv
<1>2. Calm /\ Quiet(channel)
  BY <1>1 DEF QuietInv, Calm, Joined
<1>3. Tame /\ SameStates
  BY <1>1, <1>2, CallersTame DEF CloseChannelSocket
<1>4. pc[Worker] \notin Connects
  BY <1>1 DEF ClientInv, Closing
<1>5. PhaseInv'
  BY <1>1 DEF PhaseInv, ClientPCs, Waits
<1>6. ThreadInv'
  BY <1>3, TameKeeps
<1>7. QuietInv'
  BY <1>2, <1>3, TameKeeps DEF QuietInv
<1>8. AliveInv'
  <2>1. \A c \in Channels : Alive(c)' => Alive(c)
    BY <1>3, TameKeeps
  <2> QED BY <1>1, <2>1 DEF AliveInv, Waits
<1>9. WorkerInv'
  BY <1>1, <1>4 DEF WorkerInv, Connects, Starting
<1>10. ClientInv'
  BY <1>1 DEF ClientInv, Closing, Destroying, Waits
<1>11. LinkInv'
  BY <1>1 DEF LinkInv, Closing, Destroying, Waits, Alone
<1> QED BY <1>5, <1>6, <1>7, <1>8, <1>9, <1>10, <1>11

\* drop gives the channel up, disconnected reports it, and the destructors begin.
LEMMA ClientDrops ==
  ASSUME IInv, NEW k \in Clients, Alone(k),
         \/ DropChannel(k) /\ UNCHANGED controllerVars
         \/ Disconnected(k) /\ UNCHANGED controllerVars
         \/ JoinWorker(k)
  PROVE  SafetyInv'
<1> USE DEF IInv, SafetyInv, TypeOK, controllerVars, Alone
<1>0. Worker \in Callers /\ k \in Callers /\ Worker # k /\ Clients \subseteq Callers
  BY ControllerAssumption
<1>1. /\ UNCHANGED <<ch, should_reconnect>>
      /\ pc'[Worker] = pc[Worker] /\ reg'[Worker] = reg[Worker]
      /\ after'[Worker] = after[Worker]
      /\ pc[Worker] \notin Connects
      /\ \/ /\ pc[k] = "drop" /\ channel # 0
            /\ pc'[k] = "wait" /\ after'[k] = "disconnected"
            /\ reg'[k] = channel /\ channel' = 0 /\ state' = state
         \/ /\ pc[k] = "disconnected" /\ pc'[k] = "reset"
            /\ reg' = reg /\ after' = after /\ channel' = channel /\ state' = "Disconnected"
         \/ /\ pc[k] = "joinWorker" /\ pc[Worker] \in {"none", "exited"}
            /\ pc'[k] = IF channel = 0 THEN "gone" ELSE "wait"
            /\ reg'[k] = channel /\ channel' = 0 /\ after'[k] = "gone" /\ state' = state
         \/ /\ pc[k] = "joinWorker" /\ pc'[k] = "left"
            /\ UNCHANGED <<reg, after, channel, state>>
      /\ \A j \in Clients : j # k => pc[j] = "idle" /\ pc'[j] = "idle"
  <2>1. CASE DropChannel(k) /\ UNCHANGED controllerVars
    BY <1>0, <2>1 DEF DropChannel, Step, Goto, ClientInv, Closing
  <2>2. CASE Disconnected(k) /\ UNCHANGED controllerVars
    BY <1>0, <2>2 DEF Disconnected, Step, Goto, ClientInv, Closing
  <2>3. CASE JoinWorker(k)
    <3>1. pc[Worker] \in {"none", "exited"} /\ pc[Worker] \notin Connects
      BY <2>3 DEF JoinWorker, Connects, Starting, Waits
    <3> QED BY <1>0, <2>3, <3>1 DEF JoinWorker, DestroyMembers, Goto
  <2> QED BY <2>1, <2>2, <2>3
<1>2. PhaseInv'
  BY <1>1 DEF PhaseInv, ClientPCs, Waits
<1>3. ThreadInv'
  BY <1>1 DEF ThreadInv, Alive, Quiet
<1>4. QuietInv'
  <2>1. Calm' => Calm
    BY <1>1 DEF Calm, Joined, Waits
  <2> QED BY <1>1, <2>1 DEF QuietInv, Quiet
<1>5. AliveInv'
  <2>1. \A c \in Channels : Alive(c) => c = channel
    BY <1>1 DEF AliveInv, Connects, Starting, Waits
  <2>2. 0 \notin Channels
    BY DEF Channels
  <2> QED BY <1>1, <2>1, <2>2 DEF AliveInv, Alive, Waits
<1>6. WorkerInv'
  BY <1>1 DEF WorkerInv, Connects, Starting, Asking, Clear
<1>7. ClientInv'
  BY <1>1 DEF ClientInv, Closing, Destroying, Waits
<1>8. LinkInv'
  BY <1>1 DEF LinkInv, Closing, Destroying, Waits, Alone
<1> QED BY <1>2, <1>3, <1>4, <1>5, <1>6, <1>7, <1>8

LEMMA ClientWaits ==
  ASSUME IInv, NEW k \in Clients, WaitForExit(k), UNCHANGED controllerVars, Alone(k)
  PROVE  SafetyInv'
<1> USE DEF IInv, SafetyInv, TypeOK, controllerVars, Alone
<1>0. Worker \in Callers /\ k \in Callers /\ Worker # k /\ Clients \subseteq Callers
  BY ControllerAssumption
<1>1. /\ UNCHANGED <<state, channel, reg, after, should_reconnect>>
      /\ pc'[Worker] = pc[Worker]
      /\ pc[k] \in Waits /\ after[k] \in {"closeSocket", "disconnected", "gone"}
      /\ reg[k] # 0 /\ reg[k] \in Channels
      /\ pc'[k] \in Waits \/ (pc'[k] = after[k] /\ ~Alive(reg[k]))
      /\ \A j \in Clients : j # k => pc[j] = "idle" /\ pc'[j] = "idle"
  BY <1>0, BornChannels, JoinedIsDead DEF WaitForExit, Step, Goto, PhaseInv, Waits
<1>2. Tame /\ SameStates
  BY <1>1, CallersTame DEF WaitForExit
<1>3. pc[Worker] \notin Connects
  BY <1>1 DEF ClientInv, Closing, Destroying, Connects, Starting, Waits
<1>4. ThreadInv' /\ \A c \in Channels : (Quiet(c) => Quiet(c)') /\ (Alive(c)' => Alive(c))
  BY <1>2, TameKeeps
<1>5. PhaseInv'
  BY <1>1 DEF PhaseInv, ClientPCs, Waits
<1>6. QuietInv'
  <2>1. CASE pc'[k] = "closeSocket" /\ after[k] = "closeSocket"
    <3>1. \A c \in Channels : Alive(c) => c = channel
      BY <1>1, <1>3, <2>1 DEF AliveInv, Connects, Starting, Waits
    <3>2. reg[k] = channel /\ ~Alive(reg[k])
      BY <1>1, <2>1 DEF ClientInv, Waits
    <3>3. \A c \in Channels : ~Alive(c)
      BY <3>1, <3>2
    <3>4. \A c \in Channels : Quiet(c)
      BY <3>3 DEF ThreadInv, Alive, Quiet
    <3> QED BY <1>4, <3>4 DEF QuietInv
  <2>2. CASE ~(pc'[k] = "closeSocket" /\ after[k] = "closeSocket")
    <3>1. Calm' => Calm
      BY <1>1, <2>2 DEF Calm, Joined, Waits
    <3> QED BY <1>4, <3>1 DEF QuietInv
  <2> QED BY <2>1, <2>2
<1>7. AliveInv'
  BY <1>1, <1>4 DEF AliveInv
<1>8. WorkerInv'
  BY <1>1, <1>3 DEF WorkerInv, Connects, Starting
<1>9. ClientInv'
  BY <1>1 DEF ClientInv, Closing, Destroying, Waits
<1>10. LinkInv'
  BY <1>1 DEF LinkInv, Closing, Destroying, Waits, Alone
<1> QED BY <1>4, <1>5, <1>6, <1>7, <1>8, <1>9, <1>10

-----------------------------------------------------------------------------
\* The internal threads keep the invariant.

\* While nothing is Calm there is at most one thread awake.
LEMMA AwakeAlone ==
  ASSUME IInv, NEW c \in Channels, ~Quiet(c)
  PROVE  /\ ~Calm
         /\ \A d \in Channels : d # c => Quiet(d) /\ ~Alive(d)
         /\ c = channel \/ \E k \in Clients : Destroying(k)
<1> USE DEF IInv, SafetyInv
<1>1. ~Calm
  BY DEF QuietInv
<1>2. pc[Worker] \notin Waits /\ \A k \in Clients : ~Joined(k)
  BY <1>1 DEF Calm, Starting
<1>3. \A d \in Channels : ~Quiet(d) => Alive(d)
  BY DEF ThreadInv, Alive, Quiet
<1>4. \A d \in Channels : ~Alive(d) => Quiet(d)
  BY <1>3
<1>5. \A d \in Channels : Alive(d) =>
        \/ d = channel
        \/ \E k \in Clients : Destroying(k) /\ reg[k] = d
  BY <1>2 DEF AliveInv, PhaseInv, Destroying, Joined
<1>6. \A k \in Clients : Destroying(k) => channel = 0
  BY DEF ClientInv
<1>7. 0 \notin Channels
  BY DEF Channels
<1>10. \A j, k \in Clients : Destroying(j) /\ Destroying(k) => j = k
  BY DEF TurnInv, Alone, Destroying, Waits
<1>8. \A d \in Channels : d # c => ~Alive(d)
  BY <1>3, <1>5, <1>6, <1>7, <1>10
<1>9. c = channel \/ \E k \in Clients : Destroying(k)
  BY <1>3, <1>5
<1> QED BY <1>1, <1>4, <1>8, <1>9

LEMMA InternalKeeps ==
  ASSUME IInv, NEW c \in Channels, InternalStep(c), UNCHANGED controllerVars
  PROVE  SafetyInv'
<1> USE DEF IInv, SafetyInv
<1>1. UNCHANGED <<channel, pc, reg, after, should_reconnect>>
  BY DEF InternalStep, controllerVars
<1> DEFINE Connected == /\ ~Quiet(c) /\ ch[c].state = "Connecting"
                        /\ state = "Connecting" /\ state' = "Connected"
           Failed == ~Quiet(c) /\ Quiet(c)' /\ state' = "Errored"
<1>2. /\ \A d \in Channels : d # c => ch'[d] = ch[d]
      /\ Alive(c) /\ ThreadInv' /\ ch'[c].pc # "none"
      /\ Quiet(c) => Quiet(c)' /\ ch'[c].open = ch[c].open
      /\ state' = state \/ Connected \/ Failed
  BY InternalEffect
<1>3. ch[c].state \in {"Disconnected", "Errored"} => ch'[c].state \in {"Disconnected", "Errored"}
  <2>1. ChannelTypeOK /\ ChannelTypeOK'
    BY InternalTyped DEF TypeOK
  <2>2. ch[c].state \in ChannelStates /\ ch'[c].state \in ChannelStates
    BY <2>1 DEF ChannelTypeOK
  <2>3. /\ ch[c].state # "Connected" => ch'[c].state # "Connected" \/ ch[c].state = "Connecting"
        /\ ch'[c].state # "Connecting" \/ ch[c].state = "Connecting"
    BY InternalEffect
  <2> QED BY <2>2, <2>3 DEF ChannelStates
<1>4. ~Quiet(c) => /\ ~Calm
                   /\ \A d \in Channels : d # c => Quiet(d)
                   /\ c = channel \/ \E k \in Clients : Destroying(k)
  BY AwakeAlone
<1> HIDE DEF Connected, Failed
<1>5. PhaseInv'
  BY <1>1 DEF PhaseInv
<1>6. QuietInv'
  <2>1. CASE state' = state
    <3>1. Calm' = Calm
      BY <1>1, <2>1 DEF Calm, Joined
    <3> QED BY <1>2, <3>1 DEF QuietInv, Quiet
  <2>2. CASE Connected
    <3>1. ~Calm'
      BY <1>1, <1>4, <2>2 DEF Calm, Joined, Clear, Connected
    <3> QED BY <3>1 DEF QuietInv
  <2>3. CASE Failed
    BY <1>2, <1>4, <2>3 DEF QuietInv, Quiet, Failed
  <2> QED BY <1>2, <2>1, <2>2, <2>3
<1>7. AliveInv'
  BY <1>1, <1>2 DEF AliveInv, Alive
<1>8. WorkerInv'
  <2>1. pc[Worker] \in Asking \cup Starting => Quiet(c)
    BY <1>4 DEF Calm
  <2>2. pc[Worker] \in Asking \cup Starting => state' = state
    BY <1>2, <2>1 DEF Connected, Failed
  <2>3. CASE pc[Worker] = "running"
    <3>1. /\ ch[channel].state \in {"Disconnected", "Errored"} /\ channel # 0
          /\ reg[Worker] = channel /\ ch[channel].pc # "none" /\ state # "Connected"
      BY <2>3 DEF WorkerInv
    <3>2. \A k \in Clients : ~Destroying(k)
      BY <2>3 DEF ClientInv
    <3>3. state' # "Connected"
      BY <1>2, <1>4, <3>1, <3>2 DEF Connected, Failed
    <3>4. ch'[channel].state \in {"Disconnected", "Errored"} /\ ch'[channel].pc # "none"
      <4>1. channel \in Channels
        BY <3>1, BornChannels DEF TypeOK
      <4> QED BY <1>2, <1>3, <3>1, <4>1
    <3> QED BY <1>1, <2>3, <3>1, <3>3, <3>4 DEF WorkerInv, Asking, Starting, Waits
  <2>4. CASE pc[Worker] # "running"
    <3>1. channel # 0 => channel \in Channels
      BY BornChannels DEF TypeOK
    <3>2. pc[Worker] \in Waits \cup {"start"} => c # channel
      BY <1>2 DEF WorkerInv, Alive
    <3> QED BY <1>1, <1>2, <1>3, <2>1, <2>2, <2>4, <3>1, <3>2
            DEF WorkerInv, Asking, Starting, Waits
  <2> QED BY <2>3, <2>4
<1>9. ClientInv'
  BY <1>1 DEF ClientInv, Closing, Destroying
<1>10. LinkInv'
  <2> SUFFICES ASSUME state' = "Connected", \A k \in Clients : ~Closing(k) /\ ~Destroying(k)
               PROVE  channel # 0
    BY <1>1 DEF LinkInv, Closing, Destroying
  <2>1. CASE state' = state
    BY <2>1 DEF LinkInv
  <2>2. CASE Connected
    BY <1>4, <2>2 DEF Connected, Channels
  <2> QED BY <1>2, <2>1, <2>2 DEF Failed
<1> QED BY <1>2, <1>5, <1>6, <1>7, <1>8, <1>9, <1>10

-----------------------------------------------------------------------------
\* The invariant, and what follows from it.

LEMMA InitIInv == Init => IInv
<1> SUFFICES ASSUME Init PROVE IInv
  OBVIOUS
<1>1. TypeOK
  BY InitTypeOK
<1>2. pc[Worker] = "none" /\ \A k \in Clients : pc[k] = "idle"
  BY ControllerAssumption DEF Init
<1>3. \A c \in Channels : ch[c] = Unborn
  BY DEF Init, ConnectionInit, ChannelInit
<1>4. state = "Disconnected" /\ crashed = "no"
  BY DEF Init, ConnectionInit
<1>5. PhaseInv
  BY <1>2 DEF PhaseInv, WorkerPCs, ClientPCs, Connects, Starting, Waits
<1>6. ThreadInv /\ QuietInv /\ AliveInv
  BY <1>3 DEF Unborn, ThreadInv, QuietInv, AliveInv, Alive, Quiet
<1>7. WorkerInv
  BY <1>2 DEF WorkerInv, Asking, Starting, Waits
<1>8. ClientInv
  BY <1>2, <1>4 DEF ClientInv, Closing, Destroying, Connects, Starting, Waits
<1>9. LinkInv
  BY <1>4 DEF LinkInv
<1>10. TurnInv
  BY <1>2 DEF TurnInv
<1>11. OrderInv
  BY <1>3 DEF OrderInv, Init, ConnectionInit, Unborn
<1>12. StartInv
  BY <1>2 DEF StartInv, Init
<1> QED BY <1>1, <1>4, <1>5, <1>6, <1>7, <1>8, <1>9, <1>10, <1>11, <1>12
        DEF IInv, SafetyInv, NoNullCall, StartsOneWorker

\* Whoever is in a call is the only one, if calls do not overlap.
LEMMA ClientAlone ==
  ASSUME TypeOK, TurnInv, NEW k \in Clients,
         ClientStep(k) \/ (ClientCall(k) /\ Alone(k))
  PROVE  Alone(k) /\ TurnInv' /\ \A j \in Clients : j # k => pc'[j] = "idle"
<1>0. k \in Callers /\ Worker # k /\ Worker \notin Clients /\ Clients \subseteq Callers
  BY ControllerAssumption
<1>1. Alone(k)
  BY DEF TurnInv, ClientStep, Spawn, ResetProtocol, JoinWorker, DestroyMembers, Disconnect,
         DisconnectBegin, CloseChannel, CloseChannelSocket, DropChannel, Disconnected,
         WaitForExit, Step
<1>2. \A j \in Clients : j # k => pc'[j] = pc[j]
  BY <1>0 DEF TypeOK, ClientCall, ClientStep, Start, ControllerDisconnect, Remove, Spawn,
         ResetProtocol, JoinWorker, DestroyMembers, Disconnect, DisconnectBegin, CloseChannel,
         CloseChannelSocket, DropChannel, Disconnected, WaitForExit, Step, Goto, Crash
<1> QED BY <1>1, <1>2 DEF Alone, TurnInv

-----------------------------------------------------------------------------
\* The succession of the channels.

\* Nobody but the worker on its way to a new channel starts or wakes a thread.
LEMMA OrderCarried ==
  ASSUME OrderInv, channel' \in {0, channel}, born' = born,
         \A d \in Channels : /\ ch'[d].pc # "none" => ch[d].pc # "none"
                             /\ Quiet(d) => Quiet(d)'
  PROVE  OrderInv'
BY DEF OrderInv

LEMMA SameOrder ==
  ASSUME OrderInv, ch' = ch, channel' \in {0, channel}, born' = born
  PROVE  OrderInv'
BY OrderCarried DEF Quiet

\* close() and the destructors put no thread to work.
LEMMA CallersQuiet ==
  ASSUME TypeOK, ThreadInv, NEW t \in Callers,
         WaitForExit(t) \/ CloseChannelSocket(t) \/ ChannelConnects(t)
  PROVE  \A d \in Channels : /\ ch'[d].pc # "none" => ch[d].pc # "none"
                             /\ Quiet(d) => Quiet(d)'
<1>1. ChannelTypeOK /\ reg[t] \in 0..born
  BY DEF TypeOK
<1>2. CASE reg[t] \notin Channels
  BY <1>1, <1>2, ZeroTyped DEF WaitForExit, CloseChannelSocket, ChannelConnects, Quiet
<1>3. CASE reg[t] \in Channels /\ WaitForExit(t)
  <2>1. Tame
    BY <1>1, <1>3, CallersTame DEF WaitForExit
  <2> QED BY <2>1, TameKeeps DEF Tame
<1>4. CASE reg[t] \in Channels /\ CloseChannelSocket(t)
  BY <1>1, <1>4 DEF CloseChannelSocket, CloseSocket, ChannelTypeOK, Quiet
<1>5. CASE reg[t] \in Channels /\ ChannelConnects(t)
  BY <1>1, <1>5 DEF ChannelConnects, SetConnecting, ChannelTypeOK, Quiet
<1> QED BY <1>2, <1>3, <1>4, <1>5

LEMMA StepOrder == ASSUME IInv, Next PROVE OrderInv'
<1> USE DEF IInv, SafetyInv
<1>0. Worker \in Callers /\ Clients \subseteq Callers
  BY ControllerAssumption
<1>1. /\ TypeOK /\ OrderInv /\ ChannelTypeOK
      /\ born \in Nat /\ channel \in 0..born /\ (channel # 0 => channel \in Channels)
      /\ Channels \subseteq Nat
  BY ChannelAssumption, BornChannels DEF TypeOK, Channels
<1>2. CASE DialSucceeded(Worker)
  <2> DEFINE n == born + 1
  <2>1. n \in Channels /\ channel' = n /\ born' = n
    BY <1>1, <1>2, ChannelAssumption DEF DialSucceeded, Channels, TypeOK
  <2>2. /\ ch'[n].pc = "none"
        /\ \A d \in Channels : d # n => ch'[d] = ch[d]
    BY <1>1, <1>2, <2>1 DEF DialSucceeded, Construct, Unborn, ChannelTypeOK
  <2>3. \A d \in Channels : d > n => d > born
    BY <1>1
  <2>4. \A d \in Channels : ch'[d].pc # "none" => d < n /\ ch[d].pc # "none"
    <3> SUFFICES ASSUME NEW d \in Channels, ch'[d].pc # "none"
                 PROVE  d < n /\ ch[d].pc # "none"
      OBVIOUS
    <3>1. d \in Nat /\ ch[d].pc # "none"
      BY <1>1, <2>2
    <3>2. ~(d > born)
      BY <3>1 DEF OrderInv
    <3> QED BY <1>1, <3>1, <3>2
  <2>5. \A c, d \in Channels : c < d /\ d < n => c # n
    BY <1>1
  <2> QED BY <1>1, <2>1, <2>2, <2>3, <2>4, <2>5 DEF OrderInv, Quiet
<1>3. CASE StartChannel(Worker)
  <2>1. channel # 0 /\ channel = born /\ born' = born /\ channel' = channel
    BY <1>1, <1>3 DEF StartChannel, WorkerInv, OrderInv
  <2>2. \A c \in Channels : Quiet(c)
    BY <1>3 DEF StartChannel, QuietInv, Calm, Starting
  <2>3. \A d \in Channels : d # channel => ch'[d] = ch[d]
    BY <1>1, <1>3, <2>1 DEF StartChannel, StartInternalThread, ChannelTypeOK
  <2>4. \A d \in Channels : d > channel => ch'[d].pc = "none"
    <3> SUFFICES ASSUME NEW d \in Channels, d > channel PROVE ch'[d].pc = "none"
      OBVIOUS
    <3>1. d \in Nat /\ d # channel /\ d > born
      BY <1>1, <2>1
    <3> QED BY <2>3, <3>1 DEF OrderInv
  <2>5. \A c, d \in Channels : c < d /\ ch'[d].pc # "none" => c # channel
    BY <1>1, <2>4
  <2> QED BY <2>1, <2>2, <2>3, <2>4, <2>5 DEF OrderInv, Quiet
<1>4. CASE ChannelRuns(Worker)
  <2>1. reg[Worker] = channel /\ channel # 0 /\ channel = born
    BY <1>1, <1>4 DEF ChannelRuns, Step, WorkerInv, OrderInv
  <2>2. /\ \A d \in Channels : d # channel => ch'[d] = ch[d]
        /\ ch'[channel].pc = ch[channel].pc
        /\ born' = born /\ channel' = channel
    BY <1>1, <1>4, <2>1 DEF ChannelRuns, StoreRunning, ChannelTypeOK
  <2>3. \A d \in Channels : ch'[d].pc = ch[d].pc
    BY <2>2
  <2>4. \A c, d \in Channels : c < d /\ ch[d].pc # "none" => c # channel
    BY <1>1, <2>1 DEF OrderInv
  <2> QED BY <2>1, <2>2, <2>3, <2>4 DEF OrderInv, Quiet
<1>5. ASSUME NEW t \in Callers, WaitForExit(t) \/ CloseChannelSocket(t) \/ ChannelConnects(t)
      PROVE  OrderInv'
  <2>1. channel' = channel /\ born' = born
    BY <1>5 DEF WaitForExit, CloseChannelSocket, ChannelConnects
  <2> QED BY <1>1, <1>5, <2>1, CallersQuiet, OrderCarried
<1>6. CASE \/ Look \/ Decide \/ Rest \/ ConnectBegin(Worker) \/ DialFailed(Worker)
           \/ \E k \in Clients :
                \/ ClientCall(k) \/ Spawn(k) \/ ResetProtocol(k) \/ JoinWorker(k)
                \/ DisconnectBegin(k) \/ CloseChannel(k) \/ DropChannel(k) \/ Disconnected(k)
  <2>1. ch' = ch /\ channel' \in {0, channel} /\ born' = born
    BY <1>6 DEF Look, LookUnless, Decide, Rest, ConnectBegin, DialFailed, ClientCall, Start,
           ControllerDisconnect, Remove, Spawn, ResetProtocol, JoinWorker, DestroyMembers,
           DisconnectBegin, CloseChannel, DropChannel, Disconnected, Crash
  <2> QED BY <2>1, SameOrder
<1>7. ASSUME NEW c \in Channels, ChannelStep(c) PROVE OrderInv'
  <2>1. CASE Crash("itself")
    BY <2>1, SameOrder DEF Crash
  <2>2. CASE InternalStep(c)
    <3>1. \A d \in Channels : /\ ch'[d].pc # "none" => ch[d].pc # "none"
                              /\ Quiet(d) => Quiet(d)'
      BY <2>2, InternalEffect DEF Alive, Quiet
    <3>2. channel' = channel /\ born' = born
      BY <2>2 DEF InternalStep
    <3> QED BY <3>1, <3>2, OrderCarried
  <2> QED BY <1>7, <2>1, <2>2 DEF ChannelStep
<1> QED BY <1>0, <1>2, <1>3, <1>4, <1>5, <1>6, <1>7
        DEF Next, WorkerStep, ClientStep, Connect, Disconnect

-----------------------------------------------------------------------------
\* The worker is started once.

LEMMA StartCarried ==
  ASSUME StartInv, UNCHANGED controllerVars,
         pc'[Worker] = pc[Worker] \/ {pc[Worker], pc'[Worker]} \cap {"none", "exited"} = {},
         \A k \in Clients : /\ Removing(k) => Removing(k)'
                            /\ pc'[k] = "spawn" => pc[k] = "spawn"
  PROVE  StartInv'
BY DEF StartInv, controllerVars

LEMMA StepStart ==
  ASSUME IInv, Next, \A k \in Clients : ClientCall(k) => Alone(k)
  PROVE  StartInv' /\ StartsOneWorker'
<1> USE DEF IInv, TypeOK, SafetyInv
<1>0. Worker \in Callers /\ Clients \subseteq Callers /\ Worker \notin Clients
  BY ControllerAssumption
<1>1. crashed' = crashed \/ crashed' # "terminate" => StartsOneWorker'
  BY DEF StartsOneWorker
<1>2. CASE WorkerStep
  <2>1. \A k \in Clients : pc'[k] = pc[k] /\ after'[k] = after[k]
    BY <1>0, <1>2 DEF WorkerStep, Look, LookUnless, Decide, Rest, Connect, ConnectBegin,
           DialFailed, DialSucceeded, StartChannel, ChannelRuns, ChannelConnects, WaitForExit,
           Step, Goto, Crash
  <2>2. \A k \in Clients : (Removing(k) <=> Removing(k)') /\ (pc'[k] = "spawn" => pc[k] = "spawn")
    BY <2>1 DEF Removing, Destroying
  <2>3. crashed' = crashed \/ crashed' = "nullptr"
    BY <1>2 DEF WorkerStep, Look, LookUnless, Decide, Rest, Connect, ConnectBegin,
           DialFailed, DialSucceeded, StartChannel, ChannelRuns, ChannelConnects, WaitForExit,
           Crash
  <2>4. CASE Look
    BY <1>0, <1>1, <2>2, <2>3, <2>4 DEF Look, LookUnless, Goto, StartInv
  <2>5. CASE Decide \/ Rest
    <3>1. /\ UNCHANGED controllerVars
          /\ {pc[Worker], pc'[Worker]} \cap {"none", "exited"} = {}
      BY <1>0, <2>5 DEF Decide, Rest, Step, Goto
    <3> QED BY <1>1, <2>2, <2>3, <3>1, StartCarried
  <2>6. CASE (Connect(Worker) \/ WaitForExit(Worker)) /\ UNCHANGED controllerVars
    <3>1. /\ pc[Worker] \notin {"none", "exited"}
          /\ pc'[Worker] \notin {"none", "exited"}
      BY <1>0, <2>6 DEF Connect, ConnectBegin, DialFailed, DialSucceeded, StartChannel,
             ChannelRuns, ChannelConnects, WaitForExit, Step, Goto, Crash, PhaseInv, Waits
    <3> QED BY <1>1, <2>2, <2>3, <2>6, <3>1, StartCarried
  <2> QED BY <1>1, <1>2, <2>3, <2>4, <2>5, <2>6 DEF WorkerStep
<1>3. ASSUME NEW k \in Clients, ClientCall(k) \/ ClientStep(k)
      PROVE  StartInv' /\ StartsOneWorker'
  <2>1. /\ Alone(k) /\ \A j \in Clients : j # k => pc[j] = "idle" /\ pc'[j] = "idle"
        /\ k \in Callers /\ Worker \in Callers /\ Worker # k
    BY <1>0, <1>3, ClientAlone DEF Alone
  <2>2. \A j \in Clients : j # k => ~Removing(j) /\ ~Removing(j)' /\ pc'[j] # "spawn"
    BY <2>1 DEF Removing, Destroying, Waits
  <2>3. CASE Start(k)
    <3>1. /\ pc[k] = "idle" /\ pc'[k] \in {"idle", "spawn"} /\ pc'[Worker] = pc[Worker]
          /\ pc'[k] = "spawn" => ~worker_thread_active
          /\ UNCHANGED <<crashed, worker_stopping, worker_thread_active>>
      BY <2>1, <2>3 DEF Start, Step, Goto
    <3>2. ~worker_stopping
      BY <2>2, <3>1 DEF StartInv, Removing, Destroying, Waits
    <3> QED BY <1>1, <2>2, <3>1, <3>2 DEF StartInv
  <2>4. CASE Spawn(k)
    <3>1. /\ pc[Worker] = "none" /\ pc[k] = "spawn" /\ UNCHANGED worker_stopping
          /\ pc'[k] = "idle" /\ pc'[Worker] = "look" /\ worker_thread_active'
          /\ UNCHANGED crashed
      <4>1. pc[Worker] = "none" /\ pc' = [pc EXCEPT ![k] = "idle", ![Worker] = "look"]
        BY <2>4 DEF Spawn, StartInv
      <4>2. \A t \in Callers : pc'[t] = IF t = Worker THEN "look"
                                       ELSE IF t = k THEN "idle" ELSE pc[t]
        BY <2>1, <4>1
      <4> QED BY <2>1, <2>4, <4>1, <4>2 DEF Spawn
    <3>2. ~worker_stopping
      BY <2>2, <3>1 DEF StartInv, Removing, Destroying, Waits
    <3> QED BY <1>1, <2>2, <3>1, <3>2 DEF StartInv
  <2>5. CASE Remove(k)
    <3>1. /\ pc[k] = "idle" /\ pc'[k] \in {"left", "joinWorker"} /\ pc'[Worker] = pc[Worker]
          /\ UNCHANGED <<crashed, worker_thread_active>>
          /\ worker_stopping => worker_stopping'
      BY <2>1, <2>5 DEF Remove, Goto, controllerVars
    <3>2. Removing(k)'
      BY <3>1 DEF Removing
    <3> QED BY <1>1, <2>2, <3>1, <3>2 DEF StartInv
  <2>6. CASE JoinWorker(k)
    <3>1. /\ pc[Worker] \in {"none", "exited"} /\ pc'[Worker] = pc[Worker]
          /\ UNCHANGED <<crashed, worker_stopping>>
          /\ \/ pc'[k] = "left"
             \/ pc'[k] = "gone"
             \/ pc'[k] = "wait" /\ after'[k] = "gone"
      BY <2>1, <2>6 DEF JoinWorker, DestroyMembers, Goto
    <3>2. Removing(k)' /\ pc'[k] # "spawn"
      BY <3>1 DEF Removing, Destroying, Waits
    <3> QED BY <1>1, <2>2, <3>1, <3>2 DEF StartInv
  <2>7. CASE ControllerDisconnect(k) \/ ResetProtocol(k)
    <3>1. /\ pc[k] \in {"idle", "reset"} /\ pc'[k] \in {"disconnect", "idle"}
          /\ pc'[Worker] = pc[Worker]
          /\ UNCHANGED <<crashed, worker_stopping, worker_thread_active>>
      BY <2>1, <2>7 DEF ControllerDisconnect, ResetProtocol, Step, Goto, controllerVars
    <3>2. ~Removing(k)
      BY <3>1 DEF Removing, Destroying, Waits
    <3> QED BY <1>1, <2>2, <3>1, <3>2 DEF StartInv
  <2>8. CASE (Disconnect(k) \/ WaitForExit(k)) /\ UNCHANGED controllerVars
    <3>1. pc'[Worker] = pc[Worker] /\ (crashed' = crashed \/ crashed' = "nullptr")
      BY <2>1, <2>8 DEF Disconnect, DisconnectBegin, CloseChannel, CloseChannelSocket,
             DropChannel, Disconnected, WaitForExit, Step, Goto, Crash
    <3>2. Removing(k) => Removing(k)'
      BY <2>1, <2>8 DEF Disconnect, DisconnectBegin, CloseChannel, CloseChannelSocket,
             DropChannel, Disconnected, WaitForExit, Step, Goto, Crash, Removing, Destroying,
             Waits
    <3>3. pc'[k] # "spawn"
      BY <2>1, <2>8 DEF Disconnect, DisconnectBegin, CloseChannel, CloseChannelSocket,
             DropChannel, Disconnected, WaitForExit, Step, Goto, Crash, PhaseInv, Waits
    <3> QED BY <1>1, <2>2, <2>8, <3>1, <3>2, <3>3, StartCarried
  <2> QED BY <1>3, <2>3, <2>4, <2>5, <2>6, <2>7, <2>8 DEF ClientCall, ClientStep
<1>4. ASSUME NEW c \in Channels, ChannelStep(c) PROVE StartInv' /\ StartsOneWorker'
  <2>1. UNCHANGED <<pc, after, controllerVars>> /\ (crashed' = crashed \/ crashed' = "itself")
    BY <1>4 DEF ChannelStep, InternalStep, Crash
  <2> QED BY <1>1, <2>1, StartCarried DEF Removing, Destroying
<1> QED BY <1>2, <1>3, <1>4 DEF Next

-----------------------------------------------------------------------------
\* A step that leaves the controller and its connection as they are.
LEMMA SafetyKept ==
  ASSUME SafetyInv,
         UNCHANGED <<ch, state, channel, pc, reg, after, should_reconnect>>
  PROVE  SafetyInv'
BY DEF SafetyInv, PhaseInv, ThreadInv, QuietInv, AliveInv, WorkerInv, ClientInv, LinkInv, Calm,
       Joined, Closing, Destroying, Alive, Quiet

LEMMA NextIInv ==
  ASSUME IInv, [Next]_vars, [\A k \in Clients : ClientCall(k) => Alone(k)]_vars
  PROVE  IInv'
<1>1. TypeOK'
  BY NextTypeOK DEF IInv
<1>7. CASE UNCHANGED vars
  <2>1. UNCHANGED <<ch, state, channel, born, crashed, pc, reg, after, controllerVars>>
    BY <1>7 DEF vars, connectionVars
  <2>2. SafetyInv' /\ OrderInv'
    BY <2>1, SafetyKept, SameOrder DEF IInv, controllerVars
  <2>3. StartInv' /\ TurnInv'
    BY <2>1 DEF IInv, StartInv, Removing, Destroying, controllerVars, TurnInv, Alone
  <2> QED BY <1>1, <2>1, <2>2, <2>3 DEF IInv, NoNullCall, StartsOneWorker
<1> SUFFICES ASSUME Next, \A k \in Clients : ClientCall(k) => Alone(k)
             PROVE  TurnInv' /\ SafetyInv' /\ NoNullCall'
  BY <1>1, <1>7, StepOrder, StepStart DEF IInv
<1>8. ASSUME ~(\E k \in Clients : ClientCall(k) \/ ClientStep(k)) PROVE TurnInv'
  <2>1. \A k \in Clients : pc'[k] = pc[k]
    BY <1>8, ControllerAssumption
       DEF Next, WorkerStep, Look, LookUnless, Decide, Rest, Connect, ConnectBegin,
           DialFailed, DialSucceeded, StartChannel, ChannelRuns, ChannelConnects, WaitForExit,
           Step, Goto, Crash, ChannelStep, InternalStep, IInv, TypeOK
  <2> QED BY <2>1 DEF IInv, TurnInv, Alone
<1>9. TurnInv'
  BY <1>8, ClientAlone DEF IInv
<1> SUFFICES SafetyInv' /\ NoNullCall'
  BY <1>9
<1>2. crashed' = crashed => NoNullCall'
  BY DEF IInv, NoNullCall
<1>3. CASE WorkerStep
  <2>1. CASE Look \/ Decide \/ Rest
    <3>1. crashed' = crashed
      BY <2>1 DEF Look, LookUnless, Decide, Rest
    <3> QED BY <1>2, <2>1, <3>1, WorkerControl
  <2>2. CASE WaitForExit(Worker) /\ UNCHANGED controllerVars
    BY <1>2, <2>2, WorkerWaits DEF WaitForExit
  <2>3. CASE Connect(Worker) /\ UNCHANGED controllerVars
    <3>1. CASE ConnectBegin(Worker) \/ DialFailed(Worker)
      BY <1>2, <2>3, <3>1, WorkerDials DEF ConnectBegin, DialFailed
    <3>2. CASE DialSucceeded(Worker)
      BY <1>2, <2>3, <3>2, WorkerConstructs DEF DialSucceeded
    <3>3. CASE StartChannel(Worker)
      BY <2>3, <3>3, WorkerStarts
    <3>4. CASE ChannelRuns(Worker)
      BY <1>2, <2>3, <3>4, WorkerRuns DEF ChannelRuns
    <3>5. CASE ChannelConnects(Worker)
      BY <1>2, <2>3, <3>5, WorkerRests DEF ChannelConnects
    <3> QED BY <2>3, <3>1, <3>2, <3>3, <3>4, <3>5 DEF Connect
  <2> QED BY <1>3, <2>1, <2>2, <2>3 DEF WorkerStep
<1>4. ASSUME NEW k \in Clients, ClientCall(k) \/ ClientStep(k)
      PROVE  SafetyInv' /\ NoNullCall'
  <2> Alone(k)
    BY <1>4, ClientAlone DEF IInv
  <2>1. CASE Start(k) \/ Spawn(k) \/ ControllerDisconnect(k) \/ ResetProtocol(k) \/ Remove(k)
    BY <2>1, ClientControl
  <2>2. CASE JoinWorker(k)
    BY <1>2, <2>2, ClientDrops DEF JoinWorker, DestroyMembers
  <2>3. CASE WaitForExit(k) /\ UNCHANGED controllerVars
    BY <1>2, <2>3, ClientWaits DEF WaitForExit
  <2>4. CASE Disconnect(k) /\ UNCHANGED controllerVars
    <3>1. CASE DisconnectBegin(k)
      BY <2>4, <3>1, ClientControl
    <3>2. CASE CloseChannel(k)
      BY <2>4, <3>2, ClientCloses
    <3>3. CASE CloseChannelSocket(k)
      BY <1>2, <2>4, <3>3, ClientClosesSocket DEF CloseChannelSocket
    <3>4. CASE DropChannel(k)
      BY <1>2, <2>4, <3>4, ClientDrops DEF DropChannel
    <3>5. CASE Disconnected(k)
      BY <1>2, <2>4, <3>5, ClientDrops DEF Disconnected
    <3> QED BY <2>4, <3>1, <3>2, <3>3, <3>4, <3>5 DEF Disconnect
  <2> QED BY <1>4, <2>1, <2>2, <2>3, <2>4 DEF ClientCall, ClientStep
<1>5. ASSUME NEW c \in Channels, ChannelStep(c) PROVE SafetyInv' /\ NoNullCall'
  <2>1. CASE Crash("itself") /\ UNCHANGED controllerVars
    BY <2>1, SafetyKept DEF Crash, NoNullCall, controllerVars, IInv
  <2>2. CASE InternalStep(c) /\ UNCHANGED controllerVars
    BY <1>2, <2>2, InternalKeeps DEF InternalStep
  <2> QED BY <1>5, <2>1, <2>2 DEF ChannelStep
<1> QED BY <1>3, <1>4, <1>5 DEF Next

\* The inductive invariant holds of a controller whose clients take turns.
THEOREM Invariance == Spec /\ CallsTakeTurns => []IInv
BY InitIInv, NextIInv, PTL DEF Spec, CallsTakeTurns

\* A thread that receives is awake.
LEMMA ReceivingAwake ==
  ASSUME IInv, NEW c \in Channels, Receiving(c)
  PROVE  ~Quiet(c) /\ ch[c].pc # "errored"
BY DEF Receiving, Quiet

\* Data of two connections never mix, and none of a connection that was replaced come
\* after its successor was started (DeviceConnection.cpp:64).
THEOREM ReceivesAlone == Spec /\ CallsTakeTurns => []OneReceiver
<1>1. IInv => OneReceiver
  BY ReceivingAwake DEF OneReceiver, IInv, OrderInv
<1> QED BY <1>1, Invariance, PTL

\* Nobody closes the socket under a thread that receives (Channel.cpp:54-66, 131).
THEOREM SocketStaysOpen == Spec /\ CallsTakeTurns => []ReceivesFromOpenSocket
<1>1. IInv => ReceivesFromOpenSocket
  BY ReceivingAwake DEF ReceivesFromOpenSocket, IInv, SafetyInv, ThreadInv
<1> QED BY <1>1, Invariance, PTL

\* disconnect() and connect() never call through a null channel
\* (DeviceConnection.cpp:64-66, 79-85).
THEOREM NullNeverCalled == Spec /\ CallsTakeTurns => []NoNullCall
<1>1. IInv => NoNullCall
  BY DEF IInv
<1> QED BY <1>1, Invariance, PTL

\* What the run with two clients refutes holds as long as their calls do not overlap: the
\* worker is not started twice (DeviceApplicationConnectionController.cpp:54-61).
THEOREM WorkerStartedOnce == Spec /\ CallsTakeTurns => []StartsOneWorker
<1>1. IInv => StartsOneWorker
  BY DEF IInv
<1> QED BY <1>1, Invariance, PTL

\* When the controller is gone, so are its threads
\* (DeviceApplicationConnectionController.cpp:40-46, Channel.cpp:32-37).
THEOREM GoneIsQuiet == Spec /\ CallsTakeTurns => []RemovedIsQuiet
<1>1. IInv => RemovedIsQuiet
  <2> SUFFICES ASSUME IInv, NEW k \in Clients, pc[k] = "gone"
               PROVE  /\ pc[Worker] \in {"none", "exited"}
                      /\ \A c \in Channels : ~Alive(c)
    BY DEF RemovedIsQuiet, Alive
  <2>1. pc[Worker] \in {"none", "exited"} /\ channel = 0
    BY DEF IInv, SafetyInv, ClientInv, Destroying
  <2>2. 0 \notin Channels
    BY DEF Channels
  <2>3. \A j \in Clients : pc[j] \notin Waits
    BY DEF IInv, TurnInv, Alone, Waits
  <2> QED BY <2>1, <2>2, <2>3 DEF IInv, SafetyInv, AliveInv, Waits
<1> QED BY <1>1, Invariance, PTL

-----------------------------------------------------------------------------
\* The succession of links.

\* No step but the start of a channel gives a channel a thread, and none but those of
\* that thread move it.
LEMMA SamePCs ==
  ASSUME IInv, ~StartChannel(Worker),
         WorkerStep \/ \E k \in Clients : ClientCall(k) \/ ClientStep(k)
  PROVE  \A d \in Channels : ch'[d].pc = ch[d].pc
<1> USE DEF IInv, SafetyInv, TypeOK
<1>0. Worker \in Callers /\ Clients \subseteq Callers
  BY ControllerAssumption
<1>1. CASE DialSucceeded(Worker)
  <2>1. born + 1 \in Channels /\ born + 1 > born
    BY <1>1, ChannelAssumption DEF DialSucceeded, Channels
  <2>2. ch[born + 1].pc = "none"
    BY <2>1 DEF OrderInv
  <2> QED BY <1>1, <2>1, <2>2 DEF DialSucceeded, Construct, Unborn, ChannelTypeOK
<1>2. CASE ChannelRuns(Worker)
  <2>1. reg[Worker] \in Channels
    BY <1>2, BornChannels DEF ChannelRuns, Step, WorkerInv
  <2> QED BY <1>2, <2>1 DEF ChannelRuns, StoreRunning, ChannelTypeOK
<1>3. ASSUME NEW t \in Callers, WaitForExit(t) \/ CloseChannelSocket(t) \/ ChannelConnects(t)
      PROVE  \A d \in Channels : ch'[d].pc = ch[d].pc
  <2>1. CASE reg[t] \notin Channels
    BY <1>3, <2>1, ZeroTyped DEF WaitForExit, CloseChannelSocket, ChannelConnects
  <2>2. CASE reg[t] \in Channels /\ WaitForExit(t)
    BY <2>2, CallersTame DEF WaitForExit, Tame
  <2>3. CASE reg[t] \in Channels /\ CloseChannelSocket(t)
    BY <2>3 DEF CloseChannelSocket, CloseSocket, ChannelTypeOK
  <2>4. CASE reg[t] \in Channels /\ ChannelConnects(t)
    BY <2>4 DEF ChannelConnects, SetConnecting, ChannelTypeOK
  <2> QED BY <1>3, <2>1, <2>2, <2>3, <2>4
<1>4. CASE \/ Look \/ Decide \/ Rest \/ ConnectBegin(Worker) \/ DialFailed(Worker)
           \/ \E k \in Clients :
                \/ ClientCall(k) \/ Spawn(k) \/ ResetProtocol(k) \/ JoinWorker(k)
                \/ DisconnectBegin(k) \/ CloseChannel(k) \/ DropChannel(k) \/ Disconnected(k)
  BY <1>4 DEF Look, LookUnless, Decide, Rest, ConnectBegin, DialFailed, ClientCall, Start,
         ControllerDisconnect, Remove, Spawn, ResetProtocol, JoinWorker, DestroyMembers,
         DisconnectBegin, CloseChannel, DropChannel, Disconnected, Crash
<1> QED BY <1>0, <1>1, <1>2, <1>3, <1>4
        DEF WorkerStep, ClientStep, Connect, Disconnect

\* While the connection is Disconnected, and in the part of disconnect() after the join,
\* there is no internal thread, not even one that is about to end.
DeadInv ==
  state = "Disconnected" \/ (\E k \in Clients : Joined(k)) =>
    \A c \in Channels : ~Alive(c)

\* There is one internal thread at a time.
LEMMA AliveAlone ==
  ASSUME IInv, DeadInv, NEW c \in Channels, NEW d \in Channels, Alive(c), Alive(d)
  PROVE  c = d
<1> USE DEF IInv, SafetyInv
<1>1. \A k \in Clients : ~Joined(k)
  BY DEF DeadInv
<1>2. \A e \in Channels : Alive(e) =>
        \/ e = channel
        \/ pc[Worker] \in Waits /\ reg[Worker] = e
        \/ \E k \in Clients : Destroying(k) /\ reg[k] = e
  BY <1>1 DEF AliveInv, PhaseInv, Destroying, Joined
<1>3. 0 \notin Channels
  BY DEF Channels
<1>4. pc[Worker] \in Waits => ch[channel].pc = "none" /\ \A k \in Clients : ~Destroying(k)
  BY DEF WorkerInv, ClientInv, Waits
<1>5. \A j, k \in Clients : Destroying(j) /\ Destroying(k) => j = k /\ channel = 0
  BY DEF TurnInv, Alone, Destroying, Waits, ClientInv
<1> QED BY <1>2, <1>3, <1>4, <1>5 DEF Alive

\* Which steps disconnect the connection or join an internal thread.
LEMMA Disconnecting ==
  ASSUME IInv, Next,
         \A k \in Clients : ~Disconnected(k) /\ ~WaitForExit(k)
  PROVE  /\ state' = "Disconnected" => state = "Disconnected"
         /\ \A k \in Clients : Joined(k)' => Joined(k)
<1> USE DEF IInv, TypeOK
<1>0. Worker \in Callers /\ Clients \subseteq Callers /\ Worker \notin Clients
  BY ControllerAssumption
<1>1. CASE WorkerStep
  <2>1. state' \in {state, "Connecting", "FailedToConnect"}
    BY <1>1 DEF WorkerStep, Look, LookUnless, Decide, Rest, Connect, ConnectBegin, DialFailed,
           DialSucceeded, StartChannel, ChannelRuns, ChannelConnects, WaitForExit, Crash
  <2>2. \A k \in Clients : pc'[k] = pc[k] /\ after'[k] = after[k]
    BY <1>0, <1>1 DEF WorkerStep, Look, LookUnless, Decide, Rest, Connect, ConnectBegin,
           DialFailed, DialSucceeded, StartChannel, ChannelRuns, ChannelConnects, WaitForExit,
           Step, Goto, Crash
  <2> QED BY <2>1, <2>2 DEF Joined
<1>2. ASSUME NEW k \in Clients, ClientCall(k) \/ ClientStep(k)
      PROVE  /\ state' = "Disconnected" => state = "Disconnected"
             /\ \A j \in Clients : Joined(j)' => Joined(j)
  <2>1. state' = state
    BY <1>2 DEF ClientCall, ClientStep, Start, ControllerDisconnect, Remove, Spawn,
           ResetProtocol, JoinWorker, DestroyMembers, Disconnect, DisconnectBegin,
           CloseChannel, CloseChannelSocket, DropChannel, Crash
  <2>2. \A j \in Clients : j # k => pc'[j] = pc[j] /\ after'[j] = after[j]
    BY <1>0, <1>2 DEF ClientCall, ClientStep, Start, ControllerDisconnect, Remove, Spawn,
           ResetProtocol, JoinWorker, DestroyMembers, Disconnect, DisconnectBegin,
           CloseChannel, CloseChannelSocket, DropChannel, Step, Goto, Crash
  <2>3. Joined(k)' => Joined(k)
    <3>0. k \in Callers /\ k # Worker
      BY <1>0
    <3>1. CASE ClientCall(k) \/ Spawn(k) \/ ResetProtocol(k)
      BY <3>0, <3>1 DEF ClientCall, Start, ControllerDisconnect, Remove, Spawn, ResetProtocol,
             Step, Goto, Crash, Joined, Waits
    <3>2. CASE JoinWorker(k)
      BY <3>0, <3>2 DEF JoinWorker, DestroyMembers, Goto, Joined, Waits
    <3>3. CASE DisconnectBegin(k) \/ CloseChannel(k)
      BY <3>0, <3>3 DEF DisconnectBegin, CloseChannel, Step, Goto, Crash, Joined, Waits
    <3>4. CASE CloseChannelSocket(k) \/ DropChannel(k)
      BY <3>4 DEF CloseChannelSocket, DropChannel, Step, Joined
    <3> QED BY <1>2, <3>1, <3>2, <3>3, <3>4 DEF ClientStep, Disconnect
  <2> QED BY <2>1, <2>2, <2>3 DEF Joined
<1>3. ASSUME NEW c \in Channels, ChannelStep(c)
      PROVE  /\ state' = "Disconnected" => state = "Disconnected"
             /\ \A j \in Clients : Joined(j)' => Joined(j)
  <2>1. UNCHANGED <<pc, after>>
    BY <1>3 DEF ChannelStep, InternalStep, Crash
  <2>2. state' = "Disconnected" => state = "Disconnected"
    BY <1>3 DEF ChannelStep, InternalStep, DidConnect, DidError, Crash
  <2> QED BY <2>1, <2>2 DEF Joined
<1> QED BY <1>1, <1>2, <1>3 DEF Next

\* After the join in close() nobody is alive.
LEMMA JoinKills ==
  ASSUME IInv, NEW k \in Clients, WaitForExit(k), Joined(k)', ~Joined(k)
  PROVE  \A c \in Channels : ~Alive(c)
<1> USE DEF IInv, SafetyInv, TypeOK
<1>0. k \in Callers
  BY ControllerAssumption
<1>1. pc[k] \in Waits /\ after' = after /\ pc'[k] \in {"waitLock", "waitJoin", after[k]}
  BY <1>0 DEF WaitForExit, Step, Goto, Waits
<1>2. after[k] = "closeSocket"
  BY <1>1 DEF Joined, PhaseInv, Waits
<1>3. pc'[k] = after[k] /\ pc[k] = "waitJoin" /\ JoinInternal(k, reg[k])
  BY <1>0, <1>2 DEF WaitForExit, Step, Goto, Joined, Waits
<1>4. Closing(k) /\ reg[k] = channel /\ channel \in Channels
  BY <1>2, <1>3, BornChannels DEF Closing, Waits, ClientInv
<1>5. ~Alive(channel)
  BY <1>3, <1>4, JoinedIsDead
<1>6. pc[Worker] \notin Waits /\ \A j \in Clients : j # k => pc[j] \notin Waits
  BY <1>1, <1>4 DEF ClientInv, Connects, TurnInv, Alone, Waits
<1> QED BY <1>2, <1>5, <1>6 DEF AliveInv

LEMMA NextDeadInv == ASSUME IInv, DeadInv, [Next]_vars PROVE DeadInv'
<1> USE DEF IInv, SafetyInv
<1>1. CASE UNCHANGED vars
  BY <1>1 DEF vars, connectionVars, DeadInv, Joined, Alive
<1>2. CASE StartChannel(Worker)
  <2>1. pc[Worker] = "start" /\ state' = state /\ (\A k \in Clients : pc'[k] = pc[k] /\ after'[k] = after[k])
    BY <1>2, ControllerAssumption DEF StartChannel, Goto, Crash, TypeOK
  <2>2. state' # "Disconnected"
    BY <2>1 DEF WorkerInv, Starting
  <2>3. \A k \in Clients : ~Joined(k)'
    BY <2>1 DEF ClientInv, Closing, Joined, Connects
  <2> QED BY <2>2, <2>3 DEF DeadInv
<1>3. CASE Next /\ ~StartChannel(Worker)
  <2>1. \A d \in Channels : Alive(d)' => Alive(d)
    <3>1. CASE WorkerStep \/ \E k \in Clients : ClientCall(k) \/ ClientStep(k)
      BY <1>3, <3>1, SamePCs DEF Alive
    <3>2. ASSUME NEW c \in Channels, ChannelStep(c)
          PROVE  \A d \in Channels : Alive(d)' => Alive(d)
      BY <3>2, InternalEffect DEF ChannelStep, Crash, Alive
    <3> QED BY <1>3, <3>1, <3>2 DEF Next
  <2>2. CASE \A k \in Clients : ~Disconnected(k) /\ ~WaitForExit(k)
    BY <1>3, <2>1, <2>2, Disconnecting DEF DeadInv
  <2>3. ASSUME NEW k \in Clients, Disconnected(k) PROVE DeadInv'
    BY <2>1, <2>3 DEF DeadInv, Disconnected, Step, Joined
  <2>4. ASSUME NEW k \in Clients, WaitForExit(k) PROVE DeadInv'
    <3>1. state' = state /\ \A j \in Clients : j # k => pc'[j] = pc[j] /\ after'[j] = after[j]
      BY <2>4, ControllerAssumption DEF WaitForExit, Step, Goto, TypeOK
    <3>2. CASE Joined(k)' /\ ~Joined(k)
      BY <2>1, <2>4, <3>2, JoinKills DEF DeadInv
    <3>3. CASE Joined(k)' => Joined(k)
      BY <2>1, <3>1, <3>3 DEF DeadInv, Joined
    <3> QED BY <3>2, <3>3
  <2> QED BY <2>2, <2>3, <2>4
<1> QED BY <1>1, <1>2, <1>3

\* There is no internal thread while the connection is Disconnected, as disconnect() joins
\* the thread before it says so (DeviceConnection.cpp:83-88).
THEOREM DisconnectedIsDead == Spec /\ CallsTakeTurns => []DeadInv
<1>1. Init => DeadInv
  BY DEF Init, ConnectionInit, ChannelInit, Unborn, DeadInv, Alive
<1>2. IInv /\ DeadInv /\ [Next]_vars => DeadInv'
  BY NextDeadInv
<1> QED BY Invariance, <1>1, <1>2, PTL DEF Spec

-----------------------------------------------------------------------------
\* The refinement of PhoneLink.

SameLinks == Used' = Used /\ Opened' = Opened

\* What the source cannot see.
LEMMA Unseen ==
  ASSUME SameLinks, Cutting' = Cutting, Parted' = Parted, Gone' = Gone
  PROVE  UNCHANGED Link!linkVars
BY DEF Link!linkVars, SameLinks

\* A connection that is Disconnected has no link, so that it may be given up.
LEMMA Forgone ==
  ASSUME DeadInv, SameLinks, Cutting' = Cutting, Gone' = Gone, DeadInv', Parted => Parted'
  PROVE  [Link!LinkNext]_(Link!linkVars)
<1>1. CASE Parted' = Parted
  BY <1>1, Unseen
<1>2. CASE Parted' # Parted
  <2>1. Parted' = TRUE
    BY <1>2 DEF Parted
  <2>2. Opened' = {}
    BY <2>1 DEF Parted, DeadInv, Opened
  <2> QED BY <2>1, <2>2 DEF Link!LinkNext, Link!Forgo, SameLinks
<1> QED BY <1>1, <1>2

\* The worker.
LEMMA WorkerLinks ==
  ASSUME IInv, DeadInv, DeadInv', WorkerStep
  PROVE  [Link!LinkNext]_(Link!linkVars)
<1> USE DEF IInv, SafetyInv, TypeOK
<1>0. Worker \in Callers /\ Clients \subseteq Callers /\ Worker \notin Clients
  BY ControllerAssumption
<1>1. /\ \A k \in Clients : pc'[k] = pc[k] /\ after'[k] = after[k]
      /\ should_reconnect' = should_reconnect
  BY <1>0 DEF WorkerStep, Look, LookUnless, Decide, Rest, Connect, ConnectBegin, DialFailed,
         DialSucceeded, StartChannel, ChannelRuns, ChannelConnects, WaitForExit, Step, Goto,
         Crash, controllerVars
<1>2. Cutting' = Cutting /\ Gone' = Gone
  BY <1>1 DEF Cutting, Closing, Gone
<1>3. CASE ~StartChannel(Worker)
  <2>1. SameLinks
    BY <1>3, SamePCs DEF SameLinks, Used, Opened, Alive
  <2>2. Parted => Parted'
    <3>1. CASE Look \/ Decide \/ Rest
      BY <1>0, <1>1, <3>1 DEF Look, LookUnless, Decide, Rest, Step, Goto, Parted, Connects,
             Waits
    <3>2. CASE Connect(Worker) \/ WaitForExit(Worker)
      BY <3>2 DEF Connect, ConnectBegin, DialFailed, DialSucceeded, StartChannel, ChannelRuns,
             ChannelConnects, WaitForExit, Step, Parted, Connects, Waits
    <3> QED BY <3>1, <3>2 DEF WorkerStep
  <2> QED BY <1>2, <2>1, <2>2, Forgone
<1>4. CASE StartChannel(Worker)
  <2>1. channel # 0 /\ channel = born /\ channel \in Channels
    BY <1>4, BornChannels DEF StartChannel, WorkerInv, OrderInv
  <2>2. pc[Worker] = "start" /\ pc'[Worker] = "started"
    BY <1>0, <1>4, <2>1 DEF StartChannel, Goto
  <2>3. /\ ch[channel].pc = "none" /\ ch'[channel].pc = "loop"
        /\ \A d \in Channels : d # channel => ch'[d] = ch[d]
    BY <1>4, <2>1, <2>2 DEF StartChannel, StartInternalThread, ChannelTypeOK, WorkerInv
  <2>4. ~Parted /\ ~Parted'
    BY <2>2 DEF Parted, Connects
  <2>5. Cutting = {} /\ ~Gone
    BY <2>2 DEF Cutting, Gone, ClientInv, Connects, Destroying
  <2>6. Opened = {}
    BY <2>1, <2>2, <2>3, <2>5 DEF Opened, AliveInv, Alive, Cutting, Closing, ClientInv,
           Destroying, Waits
  <2>7. \A u \in Used : u < channel
    <3> SUFFICES ASSUME NEW u \in Channels, ch[u].pc # "none" PROVE u < channel
      BY DEF Used
    <3>1. u \in Nat /\ born \in Nat /\ u # channel /\ ~(u > born)
      BY <2>3, ChannelAssumption DEF Channels, OrderInv
    <3> QED BY <2>1, <3>1
  <2>8. Used' = Used \cup {channel} /\ Opened' = {channel}
    BY <2>1, <2>3, <2>6 DEF Used, Opened, Alive
  <2>9. Parted' = Parted
    BY <2>4 DEF Parted
  <2>10. ASSUME NEW l \in Channels, l = channel PROVE Link!Open(l)
    BY <1>2, <2>4, <2>5, <2>6, <2>7, <2>8, <2>9, <2>10 DEF Link!Open
  <2> QED BY <2>1, <2>10 DEF Link!LinkNext
<1> QED BY <1>3, <1>4

\* The internal threads: one that ends is a lost link.
LEMMA ChannelLinks ==
  ASSUME IInv, DeadInv, NEW c \in Channels, ChannelStep(c)
  PROVE  [Link!LinkNext]_(Link!linkVars)
<1> USE DEF IInv, SafetyInv
<1>1. UNCHANGED <<pc, after, should_reconnect>>
  BY DEF ChannelStep, InternalStep, Crash, controllerVars
<1>2. Cutting' = Cutting /\ Gone' = Gone
  BY <1>1 DEF Cutting, Closing, Gone
<1>3. CASE Crash("itself")
  BY <1>1, <1>2, <1>3, Unseen DEF Crash, SameLinks, Used, Opened, Alive, Parted
<1>4. CASE InternalStep(c)
  <2>1. /\ Alive(c) /\ ch'[c].pc # "none"
        /\ \A d \in Channels : d # c => ch'[d] = ch[d]
        /\ state' \in {state, "Connected", "Errored"}
    BY <1>4, InternalEffect
  <2>2. state # "Disconnected" /\ state' # "Disconnected"
    BY <2>1 DEF DeadInv
  <2>3. Parted' = Parted /\ Used' = Used
    BY <2>1, <2>2 DEF Parted, Used, Alive
  <2>4. Opened = {c}
    BY <2>1, AliveAlone DEF Opened
  <2>5. CASE Alive(c)'
    <3>1. Opened' = Opened
      BY <2>1, <2>5 DEF Opened, Alive
    <3> QED BY <1>2, <2>3, <3>1, Unseen DEF SameLinks
  <2>6. CASE ~Alive(c)'
    <3>1. Opened' = {}
      BY <2>1, <2>4, <2>6 DEF Opened, Alive
    <3> QED BY <1>2, <2>3, <2>4, <3>1 DEF Link!LinkNext, Link!Lose
  <2> QED BY <2>5, <2>6
<1> QED BY <1>3, <1>4 DEF ChannelStep

\* The clients: start() wants a link, disconnect() cuts the one it finds, the destructors
\* remove the controller.
LEMMA ClientLinks ==
  ASSUME IInv, DeadInv, DeadInv', RemovedIsQuiet',
         NEW k \in Clients, ClientStep(k) \/ (ClientCall(k) /\ Alone(k))
  PROVE  [Link!LinkNext]_(Link!linkVars)
<1> USE DEF IInv, SafetyInv, TypeOK
<1>0. k \in Callers /\ Worker \in Callers /\ Worker # k /\ Worker \notin Clients
  BY ControllerAssumption
<1>1. /\ Alone(k)
      /\ \A j \in Clients : j # k => pc[j] = "idle" /\ pc'[j] = "idle"
  BY ClientAlone DEF Alone
<1>2. SameLinks
  <2> SUFFICES ~StartChannel(Worker)
    BY SamePCs DEF SameLinks, Used, Opened, Alive
  <2> SUFFICES ASSUME StartChannel(Worker) PROVE FALSE
    OBVIOUS
  <2>1. pc[Worker] = "start" /\ channel # 0
    BY DEF StartChannel, WorkerInv
  <2>2. pc'[Worker] = "started"
    BY <1>0, <2>1 DEF StartChannel, Goto
  <2>3. CASE ClientCall(k) \/ ResetProtocol(k) \/ JoinWorker(k)
    BY <1>0, <2>1, <2>2, <2>3 DEF ClientCall, Start, ControllerDisconnect, Remove,
           ResetProtocol, JoinWorker, DestroyMembers, Step, Goto
  <2>4. CASE Spawn(k)
    <3>1. pc' = pc \/ pc[Worker] = "none"
      BY <2>4 DEF Spawn, Crash
    <3> QED BY <2>1, <2>2, <3>1
  <2>5. CASE Disconnect(k) \/ WaitForExit(k)
    BY <1>0, <2>1, <2>2, <2>5 DEF Disconnect, DisconnectBegin, CloseChannel,
           CloseChannelSocket, DropChannel, Disconnected, WaitForExit, Step, Goto, Crash
  <2> QED BY <2>3, <2>4, <2>5 DEF ClientStep
<1>3. /\ Cutting = IF Closing(k) THEN {k} ELSE {}
      /\ Cutting' = IF Closing(k)' THEN {k} ELSE {}
  BY <1>1 DEF Cutting, Closing, Waits
<1>4. (Gone <=> pc[k] = "gone") /\ (Gone' <=> pc'[k] = "gone")
  BY <1>1 DEF Gone
<1>5. ASSUME Closing(k)' <=> Closing(k), pc'[k] = "gone" <=> pc[k] = "gone", Parted => Parted'
      PROVE  [Link!LinkNext]_(Link!linkVars)
  <2>1. Cutting' = Cutting /\ Gone' = Gone
    BY <1>3, <1>4, <1>5 DEF Gone
  <2> QED BY <1>2, <1>5, <2>1, Forgone
<1>6. CASE Start(k)
  <2>1. pc[k] = "idle" /\ pc'[k] \in {"idle", "spawn"} /\ should_reconnect'
    BY <1>0, <1>6 DEF Start, Step, Goto
  <2>2. Parted' = FALSE /\ Cutting = {} /\ Cutting' = Cutting /\ ~Gone /\ Gone' = Gone
    BY <1>3, <1>4, <2>1 DEF Parted, Closing, Waits, Gone
  <2>3. Link!Want
    BY <1>2, <2>2 DEF Link!Want, SameLinks
  <2> QED BY <2>3 DEF Link!LinkNext
<1>7. CASE Spawn(k)
  <2>1. /\ pc[k] = "spawn" /\ (pc' = pc \/ pc' = [pc EXCEPT ![k] = "idle", ![Worker] = "look"])
        /\ UNCHANGED <<state, should_reconnect>>
    BY <1>7 DEF Spawn, Crash, controllerVars
  <2>2. /\ pc'[k] \in {"idle", "spawn"}
        /\ pc'[Worker] \in {"look", pc[Worker]}
    BY <1>0, <2>1
  <2> QED BY <1>5, <2>1, <2>2 DEF Closing, Parted, Waits, Connects
<1>8. CASE ControllerDisconnect(k) \/ ResetProtocol(k) \/ Remove(k)
  <2>1. /\ pc[k] \in {"idle", "reset"} /\ pc'[k] \in {"disconnect", "idle", "left", "joinWorker"}
        /\ pc'[Worker] = pc[Worker] /\ state' = state
        /\ ~should_reconnect => ~should_reconnect'
    BY <1>0, <1>8 DEF ControllerDisconnect, ResetProtocol, Remove, Step, Goto, controllerVars
  <2> QED BY <1>5, <2>1 DEF Closing, Parted, Waits
<1>9. ASSUME ~Closing(k), ~Closing(k)', pc[k] # "gone", pc'[k] = "gone", Parted' = Parted
      PROVE  [Link!LinkNext]_(Link!linkVars)
  <2>1. Opened' = {}
    BY <1>9 DEF RemovedIsQuiet, Opened, Alive
  <2>2. Link!Remove
    BY <1>2, <1>3, <1>4, <1>9, <2>1 DEF Link!Remove, SameLinks, Gone
  <2> QED BY <2>2 DEF Link!LinkNext
<1>10. CASE JoinWorker(k)
  <2>1. /\ pc[k] = "joinWorker" /\ pc'[Worker] = pc[Worker]
        /\ UNCHANGED <<state, should_reconnect>>
        /\ pc'[k] \in {"left", "gone"} \/ (pc'[k] = "wait" /\ after'[k] = "gone")
    BY <1>0, <1>10 DEF JoinWorker, DestroyMembers, Goto
  <2>2. ~Closing(k) /\ ~Closing(k)' /\ Parted' = Parted
    BY <2>1 DEF Closing, Parted, Waits
  <2> QED BY <1>5, <1>9, <2>1, <2>2
<1>11. CASE WaitForExit(k) /\ UNCHANGED controllerVars
  <2>1. /\ pc[k] \in Waits /\ after[k] \in {"closeSocket", "disconnected", "gone"}
        /\ pc'[k] \in Waits \cup {after[k]} /\ pc'[Worker] = pc[Worker]
        /\ UNCHANGED <<state, should_reconnect, after>>
    BY <1>0, <1>11 DEF WaitForExit, Step, Goto, Waits, PhaseInv, controllerVars
  <2>2. (Closing(k)' <=> Closing(k)) /\ Parted' = Parted /\ pc[k] # "gone"
    BY <2>1 DEF Closing, Parted, Waits
  <2>3. pc'[k] = "gone" => ~Closing(k) /\ ~Closing(k)'
    BY <2>1, <2>2 DEF Closing, Waits
  <2> QED BY <1>5, <1>9, <2>2, <2>3
<1>12. CASE Disconnect(k) /\ UNCHANGED controllerVars
  <2>1. pc'[Worker] = pc[Worker] /\ should_reconnect' = should_reconnect
    BY <1>0, <1>12 DEF Disconnect, DisconnectBegin, CloseChannel, CloseChannelSocket,
           DropChannel, Disconnected, Step, Goto, Crash, controllerVars
  <2>2. CASE DisconnectBegin(k)
    <3>1. /\ pc[k] = "disconnect" /\ pc'[k] \in {"close", "reset"} /\ state' = state
          /\ Parted' = Parted
      BY <1>0, <2>1, <2>2 DEF DisconnectBegin, Step, Goto, Parted
    <3>2. CASE pc'[k] = "reset"
      BY <1>5, <3>1, <3>2 DEF Closing, Waits
    <3>3. CASE pc'[k] = "close"
      <4>1. Cutting = {} /\ Cutting' = {k} /\ ~Gone /\ Gone' = Gone
        BY <1>3, <1>4, <3>1, <3>3 DEF Closing, Waits, Gone
      <4>2. Link!Cut(k)
        BY <1>2, <3>1, <4>1 DEF Link!Cut, SameLinks
      <4> QED BY <4>2 DEF Link!LinkNext
    <3> QED BY <3>1, <3>2, <3>3
  <2>3. CASE CloseChannel(k) \/ CloseChannelSocket(k) \/ DropChannel(k)
    <3>1. /\ state' = state /\ pc[k] \in {"close", "closeSocket", "drop"}
          /\ \/ pc'[k] \in {"close", "drop", "disconnected"}
             \/ pc'[k] = "wait" /\ after'[k] # "gone"
      BY <1>0, <2>3 DEF CloseChannel, CloseChannelSocket, DropChannel, Step, Goto, Crash
    <3> QED BY <1>5, <2>1, <3>1 DEF Closing, Parted, Waits
  <2>4. CASE Disconnected(k)
    <3>1. /\ pc[k] = "disconnected" /\ pc'[k] = "reset" /\ state' = "Disconnected"
      BY <1>0, <2>4 DEF Disconnected, Step, Goto
    <3>2. Closing(k) /\ ~Closing(k)' /\ ~Gone /\ Gone' = Gone
      BY <1>4, <3>1 DEF Closing, Waits, Gone
    <3>3. Parted' = TRUE
      BY <2>1, <3>1, <3>2 DEF Parted, ClientInv
    <3>4. Opened' = {}
      BY <3>1 DEF DeadInv, Opened
    <3>5. Link!Part(k)
      BY <1>2, <1>3, <3>2, <3>3, <3>4 DEF Link!Part, SameLinks
    <3> QED BY <3>5 DEF Link!LinkNext
  <2> QED BY <1>12, <2>2, <2>3, <2>4 DEF Disconnect
<1> QED BY <1>6, <1>7, <1>8, <1>10, <1>11, <1>12 DEF ClientCall, ClientStep

\* While the clients take turns a controller is a succession of links to the source: one at
\* a time, none that a disconnect() of a connected controller leaves behind or that comes
\* before the next start(), none of a controller that is gone.
THEOREM LinkRefinement == Spec /\ CallsTakeTurns => ImplementsLink
<1>1. Init => Link!LinkInit
  <2> SUFFICES ASSUME Init PROVE Link!LinkInit
    OBVIOUS
  <2>1. pc[Worker] = "none" /\ \A k \in Clients : pc[k] = "idle"
    BY ControllerAssumption DEF Init
  <2>2. Used = {} /\ Opened = {}
    BY DEF Init, ConnectionInit, ChannelInit, Unborn, Used, Opened, Alive
  <2>3. Cutting = {} /\ Gone = FALSE
    BY <2>1 DEF Cutting, Closing, Waits, Gone
  <2>4. Parted = FALSE
    BY DEF Init, Parted
  <2> QED BY <2>2, <2>3, <2>4 DEF Link!LinkInit
<1>2. ASSUME IInv, DeadInv, DeadInv', RemovedIsQuiet', [Next]_vars,
             [\A k \in Clients : ClientCall(k) => Alone(k)]_vars
      PROVE  [Link!LinkNext]_(Link!linkVars)
  <2>1. CASE UNCHANGED vars
    <3>1. SameLinks /\ Cutting' = Cutting /\ Gone' = Gone /\ Parted' = Parted
      BY <2>1 DEF vars, connectionVars, controllerVars, SameLinks, Used, Opened, Alive, Cutting,
             Closing, Gone, Parted
    <3> QED BY <3>1, Unseen
  <2>2. ASSUME Next, \A k \in Clients : ClientCall(k) => Alone(k)
        PROVE  [Link!LinkNext]_(Link!linkVars)
    BY <1>2, <2>2, WorkerLinks, ClientLinks, ChannelLinks DEF Next
  <2> QED BY <1>2, <2>1, <2>2
<1>3. IInv /\ DeadInv /\ DeadInv' /\ RemovedIsQuiet'
        /\ [Next]_vars /\ [\A k \in Clients : ClientCall(k) => Alone(k)]_vars
        => [Link!LinkNext]_(Link!linkVars)
  BY <1>2
<1> QED BY Invariance, DisconnectedIsDead, GoneIsQuiet, <1>1, <1>3,
           PTL DEF Spec, CallsTakeTurns, ImplementsLink, Link!LinkSpec
=============================================================================
