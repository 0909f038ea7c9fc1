-------------------------- MODULE ConnectionController --------------------------
(***************************************************************************)
(* DeviceApplicationConnectionController (src/src) with its connection and *)
(* the channels of that: the worker thread that keeps reconnecting, the    *)
(* threads of OBS that start and disconnect it, and the internal threads   *)
(* of the channels.  The phone may accept or refuse a connection, send     *)
(* data, fall silent or hang up at any time.                               *)
(*                                                                         *)
(* A client also removes the controller, when the phone was unplugged: the *)
(* reference of IOSCameraInput::connectionControllers is dropped and the   *)
(* destructors of controller, connection and channel run, unless data are  *)
(* being delivered.  The internal thread then holds the last reference,    *)
(* and the destructors run on it.  (A callback that only changes the state *)
(* is one step here and holds no reference in between.)                    *)
(***************************************************************************)
EXTENDS DeviceConnection

CONSTANTS
  Worker, \* the thread of worker_loop()
  Clients \* the threads that call start(), connect() and disconnect()

ASSUME ControllerAssumption ==
  /\ Callers = Clients \cup {Worker}
  /\ Worker \notin Clients

VARIABLES
  should_reconnect,
  worker_stopping,
  worker_thread_active

controllerVars == <<should_reconnect, worker_stopping, worker_thread_active>>
vars == <<connectionVars, controllerVars>>

\* "left": the last reference went to an internal thread; "gone": all is destroyed.
ControllerPCs == {"none", "look", "decide", "exited", "idle", "spawn", "joinWorker",
                  "left", "gone"}

Init ==
  /\ ConnectionInit
  /\ pc = [t \in Callers |-> IF t = Worker THEN "none" ELSE "idle"]
  /\ should_reconnect = TRUE
  /\ worker_stopping = FALSE
  /\ worker_thread_active = FALSE

-----------------------------------------------------------------------------
\* start(): the worker thread is created if worker_thread_active was found false.
\* connect() does what start() does when there is a worker.

Start(k) ==
  /\ Step(k, "idle", IF worker_thread_active THEN "idle" ELSE "spawn")
  /\ should_reconnect' = TRUE
  /\ UNCHANGED <<ch, state, channel, born, crashed, reg, after, worker_stopping,
                 worker_thread_active>>

\* The assignment to a std::thread that still runs calls std::terminate().
Spawn(k) ==
  /\ pc[k] = "spawn"
  /\ \/ pc[Worker] # "none" /\ Crash("terminate") /\ UNCHANGED controllerVars
     \/ /\ pc[Worker] = "none"
        /\ pc' = [pc EXCEPT ![k] = "idle", ![Worker] = "look"]
        /\ worker_thread_active' = TRUE
        /\ UNCHANGED <<ch, state, channel, born, crashed, reg, after, should_reconnect,
                       worker_stopping>>

\* disconnect(): should_reconnect is cleared before the connection is looked at.
ControllerDisconnect(k) ==
  /\ Step(k, "idle", "disconnect")
  /\ should_reconnect' = FALSE
  /\ UNCHANGED <<ch, state, channel, born, crashed, reg, after, worker_stopping,
                 worker_thread_active>>

ResetProtocol(k) ==
  /\ Step(k, "reset", "idle")
  /\ UNCHANGED <<ch, state, channel, born, crashed, reg, after, controllerVars>>

-----------------------------------------------------------------------------
\* ~DeviceApplicationConnectionController() joins the worker, then the members go:
\* the connection, and with it the channel, whose destructor joins the internal thread.

Delivering == \E c \in Channels : ch[c].pc = "deliver"

\* The reference is dropped; a call of another client is not in progress.
Remove(k) ==
  /\ \A j \in Clients : pc[j] = "idle"
  /\ \/ /\ Delivering
        /\ Goto(k, "left")
        /\ UNCHANGED controllerVars
     \/ /\ ~Delivering
        /\ Goto(k, "joinWorker")
        /\ should_reconnect' = FALSE
        /\ worker_stopping' = TRUE
        /\ UNCHANGED worker_thread_active
  /\ UNCHANGED <<ch, state, channel, born, crashed, reg, after>>

\* The channel is destroyed with its connection, which an internal thread that delivers
\* data holds, too.
DestroyMembers(k) ==
  /\ pc[k] = "joinWorker"
  /\ worker_thread_active' = FALSE
  /\ \/ Delivering /\ Goto(k, "left") /\ UNCHANGED <<channel, reg, after>>
     \/ /\ ~Delivering
        /\ Goto(k, IF channel = 0 THEN "gone" ELSE "wait")
        /\ channel' = 0
        /\ reg' = [reg EXCEPT ![k] = channel]
        /\ after' = [after EXCEPT ![k] = "gone"]
  /\ UNCHANGED <<ch, state, born, crashed, should_reconnect, worker_stopping>>

\* Mutant of JoinWorker: the worker is not waited for.
JoinNoWorker(k) == DestroyMembers(k)
JoinWorker(k) == pc[Worker] \in {"none", "exited"} /\ DestroyMembers(k)

\* The internal thread that drops the last reference when it has delivered its data
\* runs the destructors: ~Channel() locks the worker_mutex it holds and joins itself.
HoldsLastReference(c) ==
  /\ ch[c].pc = "deliver"
  /\ \E k \in Clients : pc[k] = "left"
  /\ \A d \in Channels : ch[d].pc = "deliver" => d = c

-----------------------------------------------------------------------------
\* worker_loop(): it looks at worker_stopping, at the state, then at should_reconnect,
\* connects, and rests until it is notified or a second has passed.

LookUnless(settled) ==
  /\ pc[Worker] = "look"
  /\ \/ worker_stopping /\ Goto(Worker, "exited") /\ worker_thread_active' = FALSE
     \/ /\ ~worker_stopping
        /\ Goto(Worker, IF state \in settled THEN "rest" ELSE "decide")
        /\ UNCHANGED worker_thread_active
  /\ UNCHANGED <<ch, state, channel, born, crashed, reg, after, should_reconnect,
                 worker_stopping>>

\* Mutant of Look: an errored connection is left alone.
LookNoErrors == LookUnless({"Connecting", "Connected", "Errored"})
Look == LookUnless({"Connecting", "Connected"})

\* Mutant of Decide: should_reconnect is not looked at.
DecideAlways ==
  /\ Step(Worker, "decide", "connect")
  /\ UNCHANGED <<ch, state, channel, born, crashed, reg, after, controllerVars>>

Decide ==
  /\ Step(Worker, "decide", IF should_reconnect THEN "connect" ELSE "rest")
  /\ UNCHANGED <<ch, state, channel, born, crashed, reg, after, controllerVars>>

Rest ==
  /\ Step(Worker, "rest", "look")
  /\ UNCHANGED <<ch, state, channel, born, crashed, reg, after, controllerVars>>

-----------------------------------------------------------------------------
WorkerStep ==
  /\ crashed = "no"
  /\ \/ Look \/ Decide \/ Rest
     \/ (Connect(Worker) \/ WaitForExit(Worker)) /\ UNCHANGED controllerVars

ClientStep(k) ==
  /\ crashed = "no"
  /\ \/ Spawn(k) \/ ResetProtocol(k) \/ JoinWorker(k)
     \/ (Disconnect(k) \/ WaitForExit(k)) /\ UNCHANGED controllerVars

ClientCall(k) == crashed = "no" /\ (Start(k) \/ ControllerDisconnect(k) \/ Remove(k))

ChannelStep(c) ==
  /\ crashed = "no"
  /\ IF HoldsLastReference(c) THEN Crash("itself") ELSE InternalStep(c)
  /\ UNCHANGED controllerVars

Next ==
  \/ WorkerStep
  \/ \E k \in Clients : ClientCall(k) \/ ClientStep(k)
  \/ \E c \in Channels : ChannelStep(c)

Spec == Init /\ [][Next]_vars

\* Threads are scheduled and get a mutex that is free again and again; nobody has to
\* call start() or disconnect(), the phone has to do nothing.
Fairness ==
  /\ WF_vars(WorkerStep) /\ SF_vars(WorkerStep /\ pc[Worker] = "waitLock")
  /\ \A k \in Clients : /\ WF_vars(ClientStep(k))
                        /\ SF_vars(ClientStep(k) /\ pc[k] = "waitLock")
  /\ \A c \in Channels : WF_vars(ChannelStep(c)) /\ SF_vars(ChannelStep(c) /\ LockInternal(c))

FairSpec == Spec /\ Fairness

-----------------------------------------------------------------------------
\* Every variable has its type.
TypeOK ==
  /\ ChannelTypeOK
  /\ state \in ConnectionStates
  /\ channel \in 0..born /\ born \in 0..MaxChannels
  /\ crashed \in {"no", "nullptr", "terminate", "itself"}
  /\ pc \in [Callers -> ConnectionPCs \cup ControllerPCs]
  /\ reg \in [Callers -> 0..born]
  /\ after \in [Callers -> ConnectionPCs \cup ControllerPCs]
  /\ should_reconnect \in BOOLEAN
  /\ worker_stopping \in BOOLEAN /\ worker_thread_active \in BOOLEAN

Receiving(c) == ch[c].pc \in {"recv", "data", "deliver"}

\* Data of two connections never mix, and none of a replaced connection come late: once
\* the thread of a channel was started, no channel before it receives again, because the
\* assignment at DeviceConnection.cpp:64 runs ~Channel() to its end before start() is
\* called.
OneReceiver ==
  \A c, d \in Channels : c < d /\ ch[d].pc # "none" => ~Receiving(c)

\* A receiving thread has an open socket: nobody else closes it under its feet
\* (Channel.cpp:54-66, 131).
ReceivesFromOpenSocket == \A c \in Channels : Receiving(c) => ch[c].open

\* Clearing should_reconnect before the state is read is enough to keep the worker
\* from replacing the channel that disconnect() is about to close: no call goes
\* through a null channel (DeviceApplicationConnectionController.cpp:74-75, 98-110,
\* DeviceConnection.cpp:64-66, 79-85).
NoNullCall == crashed # "nullptr"

\* When a removed controller is gone, no thread of it is left that could use it: the
\* worker is joined first, so that no channel is created after the last one was
\* destroyed (DeviceApplicationConnectionController.cpp:40-46, DeviceConnection.cpp:64,
\* Channel.cpp:32-37).
RemovedIsQuiet ==
  (\E k \in Clients : pc[k] = "gone") =>
    /\ pc[Worker] \in {"none", "exited"}
    /\ \A c \in Channels : ch[c].pc \in {"none", "exited"}

\* A connection that failed, errored or was closed is tried again as long as that is
\* wanted and the controller is there (DeviceApplicationConnectionController.cpp:95-112).
Retried ==
  (/\ state \in {"FailedToConnect", "Errored", "Disconnected"}
   /\ should_reconnect
   /\ worker_thread_active)
    ~> (state = "Connecting" \/ ~should_reconnect \/ \E k \in Clients : pc[k] = "left")

-----------------------------------------------------------------------------
\* What the source sees of all this.

\* The internal thread of c exists and has not ended.
Alive(c) == ch[c].pc \notin {"none", "exited"}

Waits == {"wait", "waitLock", "waitJoin"}

\* The worker in connect().
Connects == {"connect", "dial", "start", "started", "running"} \cup Waits

\* The client in disconnect(), past the test of the state.
Closing(k) ==
  \/ pc[k] \in {"close", "closeSocket", "drop", "disconnected"}
  \/ pc[k] \in Waits /\ after[k] # "gone"

\* Nobody wants a connection, and none is there or in the making.
Parted == ~should_reconnect /\ state = "Disconnected" /\ pc[Worker] \notin Connects

Used == {c \in Channels : ch[c].pc # "none"}
Opened == {c \in Channels : Alive(c)}
Cutting == {k \in Clients : Closing(k)}
Gone == \E k \in Clients : pc[k] = "gone"

Link == INSTANCE PhoneLink WITH
  Links <- Channels, Users <- Clients,
  used <- Used, open <- Opened, cutting <- Cutting, parted <- Parted, removed <- Gone

\* To the source a controller is a succession of links.  In particular a disconnect() that
\* finds the connection Connected leaves no internal thread, whatever the worker does at
\* that time, and nothing connects again before start() or connect() is called
\* (DeviceApplicationConnectionController.cpp:72-77, 95-112, DeviceConnection.cpp:77-91).
ImplementsLink == Link!LinkSpec

-----------------------------------------------------------------------------
\* What the code says of itself and does not keep.

\* disconnect() returns (Channel.cpp:157-158: "Unlock now as the `close()` function
\* also requires a lock").
DisconnectReturns == \A k \in Clients : pc[k] = "disconnect" ~> pc[k] = "idle"

\* After disconnect() the device is not connected, until start() is called again
\* (obs-ios-camera-source.cpp:249-250: "If there is no currently selected device,
\* disconnect from all connection controllers").
StaysDisconnected ==
  (\A k \in Clients : pc[k] = "idle") /\ ~should_reconnect => state # "Connected"

\* "only start the worker thread if it's not already started"
\* (DeviceApplicationConnectionController.cpp:54).
StartsOneWorker == crashed # "terminate"
=============================================================================
