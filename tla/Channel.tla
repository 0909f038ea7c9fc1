-------------------------------- MODULE Channel --------------------------------
(***************************************************************************)
(* portal::Channel (src/deps/portal/src/Channel.cpp): a connected socket,  *)
(* the internal thread that receives from it, and start(), close() and the *)
(* destructor, which other threads call.                                   *)
(*                                                                         *)
(* The state of channel c is the record ch[c].  The internal thread of c   *)
(* goes by the name c too, so that it can be the holder of worker_mutex.   *)
(* The calls to the delegate, the DeviceConnection, are left to the module *)
(* that composes the two.                                                  *)
(***************************************************************************)
EXTENDS Naturals

CONSTANTS
  MaxChannels, \* bound: channels ever created
  Callers,     \* the other threads
  Nobody       \* nobody holds the mutex

Channels == 1..MaxChannels

ASSUME ChannelAssumption ==
  /\ MaxChannels \in Nat
  /\ Callers \cap Channels = {}
  /\ Nobody \notin Callers \cup Channels

VARIABLE ch

ChannelStates == {"Disconnected", "Connecting", "Connected", "Errored"}

\* Where the internal thread is: "loop" tests running, "lock" waits for worker_mutex,
\* "recv" is in usbmuxd_recv_timeout(), "data" has data, "deliver" hands them to the
\* delegate, "failing" closes the socket, "errored" says so to the delegate.
InternalPCs == {"none", "loop", "lock", "recv", "data", "deliver", "failing",
                "errored", "exited"}

ChannelTypeOK ==
  ch \in [Channels -> [running: BOOLEAN, state: ChannelStates, open: BOOLEAN,
                       pc: InternalPCs, joinable: BOOLEAN,
                       mutex: Callers \cup Channels \cup {Nobody}]]

Unborn == [running |-> FALSE, state |-> "Disconnected", open |-> FALSE,
           pc |-> "none", joinable |-> FALSE, mutex |-> Nobody]

ChannelInit == ch = [c \in Channels |-> Unborn]

\* The constructor, given a connected socket.
Construct(c) == ch' = [ch EXCEPT ![c] = [Unborn EXCEPT !.open = TRUE]]

-----------------------------------------------------------------------------
\* start(), up to the thread, the store of running, and the rest.

StartInternalThread(c) ==
  /\ ch[c].state # "Connected"
  /\ ch' = [ch EXCEPT ![c].pc = "loop", ![c].joinable = TRUE]

StoreRunning(c) == ch' = [ch EXCEPT ![c].running = TRUE]

SetConnecting(c) ==
  ch' = [ch EXCEPT ![c].state = IF ch[c].running THEN "Connecting" ELSE @]

-----------------------------------------------------------------------------
\* InternalThreadEntry().

TestRunning(c) ==
  /\ ch[c].pc = "loop"
  /\ ch' = [ch EXCEPT ![c].pc = IF ch[c].running THEN "lock" ELSE "exited"]

LockInternal(c) ==
  /\ ch[c].pc = "lock"
  /\ ch[c].mutex = Nobody
  /\ ch' = IF ch[c].state = "Errored"
             THEN [ch EXCEPT ![c].pc = "exited"]
             ELSE [ch EXCEPT ![c].pc = "recv", ![c].mutex = c]

\* usbmuxd_recv_timeout(): data, nothing for a second, or an error.
ReceiveData(c) ==
  /\ ch[c].pc = "recv"
  /\ ch[c].open
  /\ ch' = [ch EXCEPT ![c].pc = "data"]

ReceiveTimeout(c) ==
  /\ ch[c].pc = "recv"
  /\ ch[c].open
  /\ ch' = [ch EXCEPT ![c].pc = "loop", ![c].mutex = Nobody]

ReceiveError(c) ==
  /\ ch[c].pc = "recv"
  /\ ch' = [ch EXCEPT ![c].pc = "failing", ![c].mutex = Nobody]

\* The first data connect the channel.
NoteConnected(c) ==
  /\ ch[c].pc = "data"
  /\ ch' = [ch EXCEPT ![c].pc = "deliver",
                      ![c].state = IF @ = "Connecting" THEN "Connected" ELSE @]

\* channelDidReceiveData() returns.
Delivered(c) ==
  /\ ch[c].pc = "deliver"
  /\ ch' = [ch EXCEPT ![c].pc = "loop", ![c].mutex = Nobody]

\* close() on the internal thread does not wait for that thread.
CloseInternal(c) ==
  /\ ch[c].pc = "failing"
  /\ ch' = [ch EXCEPT ![c].pc = "errored", ![c].running = FALSE, ![c].open = FALSE]

NoteErrored(c) ==
  /\ ch[c].pc = "errored"
  /\ ch' = [ch EXCEPT ![c].pc = "loop", ![c].state = "Errored"]

-----------------------------------------------------------------------------
\* close() and ~Channel(), on another thread t: running is cleared, worker_mutex is
\* taken and held while the thread is joined (WaitForInternalThreadToExit).

ClearRunning(c) == ch' = [ch EXCEPT ![c].running = FALSE]

LockToJoin(t, c) ==
  /\ ch[c].mutex = Nobody
  /\ ch' = [ch EXCEPT ![c].mutex = t]

\* Mutant of JoinInternal: it does not wait for the thread.
JoinNobody(t, c) ==
  /\ ch[c].mutex = t
  /\ ch' = [ch EXCEPT ![c].joinable = FALSE, ![c].mutex = Nobody]

JoinInternal(t, c) ==
  /\ ch[c].mutex = t
  /\ ch[c].joinable => ch[c].pc = "exited"
  /\ ch' = [ch EXCEPT ![c].joinable = FALSE, ![c].mutex = Nobody]

\* usbmuxd_disconnect(): 0 if the descriptor was still open.
CloseSocket(c) == ch' = [ch EXCEPT ![c].open = FALSE]
=============================================================================
