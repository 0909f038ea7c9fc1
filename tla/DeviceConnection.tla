---------------------------- MODULE DeviceConnection ----------------------------
(***************************************************************************)
(* portal::DeviceConnection (src/deps/portal/src/DeviceConnection.cpp)     *)
(* with its channels: connect() and disconnect() step by step, on any      *)
(* thread t of Callers, and the callbacks that run on a channel's internal *)
(* thread.  pc[t] is where thread t is, reg[t] the channel it works on,    *)
(* after[t] where it goes on when WaitForInternalThreadToExit() returns.   *)
(*                                                                         *)
(* The module has no specification of its own: ConnectionController adds   *)
(* the threads that call these operations.                                 *)
(***************************************************************************)
EXTENDS Channel

VARIABLES
  state,   \* DeviceConnection::_state
  channel, \* the current channel, 0 for nullptr
  born,    \* how many channels were created
  crashed, \* "no", or why the program ended: "nullptr", "terminate" or "itself"
  pc, reg, after

connectionVars == <<ch, state, channel, born, crashed, pc, reg, after>>

ConnectionStates ==
  {"Disconnected", "Connecting", "Connected", "FailedToConnect", "Errored"}

ConnectionPCs == {"connect", "dial", "wait", "waitLock", "waitJoin", "start", "started",
                  "running", "rest", "disconnect", "close", "closeSocket", "drop",
                  "disconnected", "reset"}

ConnectionInit ==
  /\ ChannelInit
  /\ state = "Disconnected"
  /\ channel = 0
  /\ born = 0
  /\ crashed = "no"
  /\ reg = [t \in Callers |-> 0]
  /\ after = [t \in Callers |-> "rest"]

Goto(t, l) == pc' = [pc EXCEPT ![t] = l]
Step(t, from, to) == pc[t] = from /\ Goto(t, to)

\* A null pointer is dereferenced, or std::terminate() called.
Crash(why) ==
  /\ crashed' = why
  /\ UNCHANGED <<ch, state, channel, born, pc, reg, after>>

-----------------------------------------------------------------------------
\* connect(), from "connect" to "rest".

ConnectBegin(t) ==
  /\ pc[t] = "connect"
  /\ \/ state = "Connecting" /\ Goto(t, "rest") /\ UNCHANGED state
     \/ state # "Connecting" /\ state' = "Connecting" /\ Goto(t, "dial")
  /\ UNCHANGED <<ch, channel, born, crashed, reg, after>>

\* Mutant of DialFailed: the state becomes retval.
DialFailedRetval(t) ==
  /\ Step(t, "dial", "rest")
  /\ state' = "-1"
  /\ UNCHANGED <<ch, channel, born, crashed, reg, after>>

\* usbmuxd_connect() failed for 200 milliseconds.
DialFailed(t) ==
  /\ Step(t, "dial", "rest")
  /\ state' = "FailedToConnect"
  /\ UNCHANGED <<ch, channel, born, crashed, reg, after>>

\* The new channel replaces the old one, whose destructor runs right here.
DialSucceeded(t) ==
  /\ pc[t] = "dial"
  /\ born < MaxChannels
  /\ born' = born + 1
  /\ Construct(born + 1)
  /\ channel' = born + 1
  /\ reg' = [reg EXCEPT ![t] = channel]
  /\ after' = [after EXCEPT ![t] = "start"]
  /\ Goto(t, IF channel = 0 THEN "start" ELSE "wait")
  /\ UNCHANGED <<state, crashed>>

StartChannel(t) ==
  /\ pc[t] = "start"
  /\ \/ channel = 0 /\ Crash("nullptr")
     \/ /\ channel # 0
        /\ StartInternalThread(channel)
        /\ reg' = [reg EXCEPT ![t] = channel]
        /\ Goto(t, "started")
        /\ UNCHANGED <<state, channel, born, crashed, after>>

ChannelRuns(t) ==
  /\ Step(t, "started", "running")
  /\ StoreRunning(reg[t])
  /\ UNCHANGED <<state, channel, born, crashed, reg, after>>

\* The delegate ignores this change of the channel's state.
ChannelConnects(t) ==
  /\ Step(t, "running", "rest")
  /\ SetConnecting(reg[t])
  /\ UNCHANGED <<state, channel, born, crashed, reg, after>>

Connect(t) ==
  ConnectBegin(t) \/ DialFailed(t) \/ DialSucceeded(t) \/ StartChannel(t)
    \/ ChannelRuns(t) \/ ChannelConnects(t)

-----------------------------------------------------------------------------
\* WaitForInternalThreadToExit() of channel reg[t], for close() and ~Channel().

WaitForExit(t) ==
  /\ \/ Step(t, "wait", "waitLock") /\ ClearRunning(reg[t])
     \/ Step(t, "waitLock", "waitJoin") /\ LockToJoin(t, reg[t])
     \/ Step(t, "waitJoin", after[t]) /\ JoinInternal(t, reg[t])
  /\ UNCHANGED <<state, channel, born, crashed, reg, after>>

-----------------------------------------------------------------------------
\* disconnect(), from "disconnect" to "reset".

DisconnectBegin(t) ==
  /\ Step(t, "disconnect", IF state = "Connected" THEN "close" ELSE "reset")
  /\ UNCHANGED <<ch, state, channel, born, crashed, reg, after>>

CloseChannel(t) ==
  /\ pc[t] = "close"
  /\ \/ channel = 0 /\ Crash("nullptr")
     \/ /\ channel # 0
        /\ reg' = [reg EXCEPT ![t] = channel]
        /\ after' = [after EXCEPT ![t] = "closeSocket"]
        /\ Goto(t, "wait")
        /\ UNCHANGED <<ch, state, channel, born, crashed>>

\* The channel is given up only if usbmuxd_disconnect() returned 0.
CloseChannelSocket(t) ==
  /\ Step(t, "closeSocket", IF ch[reg[t]].open THEN "drop" ELSE "disconnected")
  /\ CloseSocket(reg[t])
  /\ UNCHANGED <<state, channel, born, crashed, reg, after>>

DropChannel(t) ==
  /\ Step(t, "drop", IF channel = 0 THEN "disconnected" ELSE "wait")
  /\ reg' = [reg EXCEPT ![t] = channel]
  /\ after' = [after EXCEPT ![t] = "disconnected"]
  /\ channel' = 0
  /\ UNCHANGED <<ch, state, born, crashed>>

Disconnected(t) ==
  /\ Step(t, "disconnected", "reset")
  /\ state' = "Disconnected"
  /\ UNCHANGED <<ch, channel, born, crashed, reg, after>>

Disconnect(t) ==
  DisconnectBegin(t) \/ CloseChannel(t) \/ CloseChannelSocket(t) \/ DropChannel(t)
    \/ Disconnected(t)

-----------------------------------------------------------------------------
\* The internal thread of channel c, with the callbacks it makes.

\* channelDidChangeState(Connected)
DidConnect(c) ==
  /\ NoteConnected(c)
  /\ state' = IF ch[c].state = "Connecting" /\ state = "Connecting"
                THEN "Connected" ELSE state

\* channelDidChangeState(Errored)
DidError(c) ==
  /\ NoteErrored(c)
  /\ state' = "Errored"

InternalStep(c) ==
  /\ \/ DidConnect(c) \/ DidError(c)
     \/ /\ \/ TestRunning(c) \/ LockInternal(c)
           \/ ReceiveData(c) \/ ReceiveTimeout(c) \/ ReceiveError(c)
           \/ Delivered(c) \/ CloseInternal(c)
        /\ UNCHANGED state
  /\ UNCHANGED <<channel, born, crashed, pc, reg, after>>
=============================================================================
