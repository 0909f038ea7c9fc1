# Verification of the OBS iOS camera source

This directory holds TLA+ models of the plugin in `src/src` and of the `portal`
library in `src/deps/portal`, the TLC runs that check them on small instances and
the TLAPS proofs that hold for every instance. Every definition is written from
the code; the line numbers are in `PROJECT.json` under `map`.

## 1. The system

A phone sends camera frames over a USB tunnel. The plugin receives them, cuts the
byte stream into packets, queues them, decodes them on worker threads and hands
the pictures to OBS. The data flows

    phone -> usbmuxd -> Channel -> DeviceConnection -> SimpleDataPacketProtocol
          -> DeviceApplicationConnectionController -> decoder (WorkQueue + Thread) -> OBS

and control flows the other way: the settings of the OBS source decide which
device is connected, which decoder is used and when it is reset.

| component | source | state | operations | threads in it |
|---|---|---|---|---|
| `WorkQueue<T>` | `src/Queue.hpp` | list of packets, stop flag, mutex, condition variable | `add`, `remove`, `size`, `stop` | channel thread, decoder worker, OBS threads |
| `Thread` | `src/Thread.cpp` | started / detached flags, `std::atomic<bool>` stop flag | `start`, `join`, `shouldStop` | owner and worker |
| `FFMpegVideoDecoder` | `src/FFMpegVideoDecoder.cpp`, `src/VideoDecoder.h` | queue, codec, decoder mutex | `Init`, `Input`, `Flush`, `Shutdown`, worker `run` | channel thread, worker, OBS UI thread |
| `FFMpegAudioDecoder` | `src/FFMpegAudioDecoder.cpp` | queue, codec, decoder mutex | the same, without a `Flush` | the same |
| `VideoToolboxDecoder` | `src/VideoToolboxVideoDecoder.cpp` | queue, SPS/PPS, session | the same (macOS) | the same |
| ffmpeg glue | `src/ffmpeg-decode.c` | codec context, frame, packet buffer | `init`, `decode_video`, `decode_audio`, `free` | decoder worker, OBS UI thread |
| `Channel` | `deps/portal/src/Channel.cpp` | socket, state, `running`, worker thread | `start`, `close`, `send`, internal thread | creator, internal thread, closer |
| `SimpleDataPacketProtocol` | `deps/portal/src/Protocol.cpp` | receive buffer | `processData`, `reset` | internal thread, closer |
| `DeviceConnection` | `deps/portal/src/DeviceConnection.cpp` | state, channel | `connect`, `disconnect`, channel callbacks | all of the above |
| `DeviceApplicationConnectionController` | `src/DeviceApplicationConnectionController.cpp` | `should_reconnect`, `worker_stopping`, worker thread | `start`, `connect`, `disconnect`, `processPacket`, `worker_loop`, destructor | UI thread, its worker, internal thread |
| `DeviceManager` | `deps/portal/src/DeviceManager.cpp` | map of devices, worker thread | `start`, `stop`, `updateDevices`, destructor | its worker, UI thread |
| `IOSCameraInput` | `src/obs-ios-camera-source.cpp` | device UUIDs, controllers, decoders | OBS callbacks, device manager callbacks | OBS UI and graphics threads, manager thread |
| plugin registration | `src/obs-ios-camera-plugin.cpp` | none | `obs_module_load` | OBS |

Vendored code (`deps/libusbmuxd`, `libimobiledevice`, `libplist`, `dirent`) is used
as a black box: only what the plugin relies on is modelled, and marked external.

How the parts call each other:

- `IOSCameraInput` owns a controller per phone, the decoders and the device manager.
  OBS calls it on its UI and graphics threads (new settings, the reconnect button,
  activation), the device manager calls it on its own thread. No lock protects its
  fields.
- A controller owns a `DeviceConnection` and a protocol. Its worker thread connects
  again whenever the connection is lost; `start()` and `disconnect()` come from the
  source, on whichever thread runs it.
- A connection owns at most one `Channel` and replaces it at each `connect()`. The
  channel's internal thread receives, calls the delegates up to `IOSCameraInput`,
  and so runs `processData()` and the decoders' `Input()`.
- A decoder owns a `WorkQueue` and a worker thread, which calls OBS with pictures or
  sound. A change of the settings calls `Flush()` on the caller's thread.

### What is hard here, and what makes each part correct

| part | what is hard | what must hold |
|---|---|---|
| `WorkQueue` | `wait()` gives the mutex up in two steps; `stop()` and the first test of `add()` take no mutex | no consumer sleeps beside a packet; each packet comes out once and in order |
| video decoders | `Flush()` on another thread takes packets and frees the codec while the worker uses both, or holds the mutex the worker needs; `size()` and `remove()` are two critical sections; the parameter sets of the stream are packets that can be dropped; the codec keeps pictures back | the codec is not freed under the worker; a picture is decoded with a session that fits its parameter sets; an overload catches up; pictures in order; what was flushed is not shown; no packet is stuck; the worker exits; a reset that meets the shutdown leaves nothing behind |
| audio decoder | the loop that drops packets calls a `remove()` that may wait | it never waits; the newest packets are kept; sound in order |
| channel, connection, controller | three kinds of threads replace, close, join and destroy channels; a callback closes its own channel; no lock on the state of the connection | one receiver at a time, on an open socket; no null channel; a lost connection is tried again; no thread is left of a removed controller; `disconnect()` disconnects and returns |
| protocol | the stream is cut anywhere; a connection may break within a frame; a reset may fall into the stream | packets are the frames that were sent, each as soon as it is complete, never twice and never out of order |
| device manager, source | usbmuxd may list anything at any look; calls overlap without a lock; removed phones leave null controllers; the source is deleted while the manager is at work | the map follows the list; the selected phone's controller, and only that, is told to connect; the user's choice is kept |

Every hazard we know of is in `PROJECT.json` under `hazards`, at the line where it
bites, with the property that would show it or the reason why none does.

## 2. The modules

An action stands for the code between two points at which another thread can run:
a critical section that neither blocks nor calls out, or a read or write of an
unprotected variable. `pc[t]` is where thread `t` is. Data are abstract: a packet is
its number in the order of arrival, a picture is the packet it was decoded from,
bytes are positions in a stream. What ffmpeg, usbmuxd and the phone answer is a
nondeterministic choice. Memory is sequentially consistent in all modules.

### The queue

- `WorkQueue` has the state and the operations of `Queue.hpp`: `m_queue`,
  `m_shouldStop`, and `at[t]`, where each thread is inside an operation. A thread in
  `parking` has found the predicate of `wait()` false and still holds `mMutex`; in
  `asleep` it is on the list of waiters and the mutex is free. `StopSet` and
  `StopNotify` need no mutex and can fall between the two. It is extended by every
  module that has a queue.
- `WorkQueueClients` closes it with the most general client: any threads add, remove
  and stop, as often as they like (`MaxAdds` bounds the additions).
- `PacketFifo` is the abstract specification: a log, how much of it was taken, and
  what each taker was handed. `WorkQueueClients` implements it under the mapping
  written at its end (`ImplementsFifo`).

### The decoders

- `DecoderThread` is what the three decoders share: `Thread`, `Init()`, `Input()`,
  `Shutdown()` and the two loops of `run()`. `Overload` and `Keep` are the constants in
  the code (5 and 0 for video, 25 and 5 for audio). The history variable `obsolete` is the
  newest packet that the last overload condemned.
- `FFMpegDecode` is the codec of `ffmpeg-decode.c`: open or not (`valid`), and the packets
  whose picture or sound it has not given back yet (`held`, at most `Delay`). Each packet
  is refused, kept, or exchanged for the oldest one that is held; an empty audio packet is not
  sent, and only takes out what is held.
- `VideoDecoder` adds what the two video decoders share: `mMutex`, the picture OBS shows
  (`screen`), and the steps of `resetDecoder()` around what is the decoder's own. Three
  history variables: the last picture output (`shown`), the newest packet there was when a
  flush found the queue empty (`flushed`), and the packet the worker had in hand at that
  moment (`spared`).
- `FFMpegVideoDecoder` extends both: the worker holds `mMutex` while it decodes, a flush
  takes it only to free the codec.
- `VideoToolboxDecoder` extends `VideoDecoder`: SPS and PPS, the format made of the two and
  the session made for the format. `Flush()` and `Shutdown()` hold `mMutex` from beginning
  to end. The callback runs inside `VTDecompressionSessionDecodeFrame()`, as the flags the
  code passes ask for no asynchronous decoding.
- `VideoDecoding` composes the two into the decoder of a source: `videoDecoder` is the one
  in use, chosen when the source is created. It has the specification, the properties and
  the fairness.
- `PictureStream` is the abstract specification of a video decoder, with no queue, thread,
  mutex or codec: packets arrive, some are shown, in order and once each, and a reset goes
  through four phases (called, the line drawn below all packets so far, settled, picture
  cleared). `VideoDecoding` implements it (`ImplementsStream`): the line is drawn when
  `Flush()` finds the queue empty, the reset settles when the codec or the session was
  freed, and the decoder is closed when its destructor has run. That may be in any phase of a
  reset: the decoders are destroyed before the thread of the device manager, which calls
  `resetDecoder()`, is joined. After the end only the picture can still be cleared or, by the
  line of a reset, given up; none is shown.
- `FFMpegAudioDecoder` adds the decoding of sound to `DecoderThread` and `FFMpegDecode`:
  its `Flush()` is empty.

### The connection

- `Channel` has one record per channel: socket, state, `running`, the internal thread
  and the holder of `worker_mutex`. `start()` is split at the store of `running`, which
  comes after the thread was created.
- `DeviceConnection` composes it with `connect()`, `disconnect()` and the callbacks;
  `reg[t]` is the channel a thread works on.
- `ConnectionController` adds `worker_loop()`, the clients that start and disconnect the
  controller, and its removal: the client that drops the last reference runs the
  destructors (`Remove`, `JoinWorker`, then the wait for the internal thread) until the
  controller is `"gone"`. If the internal thread is delivering data it holds a reference
  itself and the client is done at once (`"left"`); the destructors then run on that
  thread, where `~Channel()` joins itself and the program ends (`HoldsLastReference`).
  A callback that only changes the state is one step and holds no reference in between.
  The phone accepts, refuses, sends, is silent or hangs up as it likes.
- `PhoneLink` is the abstract specification of a controller, with no thread, mutex, channel
  or socket: a succession of links, one at a time and each of them once. A user that
  disconnects a connected controller cuts the link; when that is done the parties are
  parted, and no link opens before somebody wants one again. `ConnectionController`
  implements it (`ImplementsLink`): a link is open while its internal thread exists, a
  client is cutting from the test of the state to the return of
  `DeviceConnection::disconnect()`, and the parties are parted when no connection is
  wanted, there or in the making.
- `Protocol` models the buffer by positions: which bytes of the present stream it holds,
  and how many bytes of former streams come before them. What a header says that is
  read from the wrong place is any value of `Garbage`. `disconnect()` of the controller is
  two things for the buffer. The connection may end, like one that breaks: then a new stream
  begins and the buffer stays (`Reconnect`). And the buffer is cleared (`Reset`), which may
  fall anywhere in a stream: `DeviceConnection::disconnect()` returns at once while the
  connection is `Connecting`, when the internal thread may already be delivering, and after
  it closed one connection the next may be made before line 76 is reached. `clean` says that
  the buffer was empty when the connection was made, or before its first byte, and that no
  reset took bytes of it since.

### The source and the device manager

- `DeviceManager` is `updateDevices()` with `addDevice()` and `removeDevice()`. Each look
  may find any phones under any handles; a failed look finds none. The first look runs
  on the thread that calls `start()`; the source can be used only afterwards. The loop
  ends at its head when the destructor asks for it (`Stopping`).
- `IOSCameraInput` adds the callbacks of the manager and what OBS calls. A call
  (`setDeviceUUID()`, `connectToDevice()`) is a walk of a thread through ten locations,
  one for each access to a shared field, and its local variables are in `loc[t]`.
  Two history variables state the properties: `tangled` becomes `"yes"` when two calls
  overlap and `"no"` again when a reconnect has run alone from its beginning to its end;
  `crashed` holds the threads that called through a null controller. `Delete` and
  `DestroyMembers` are the deletion of the source, which OBS begins when none of its
  threads is in a call: the manager is joined, wherever it was, before the map of
  controllers goes, because `deviceManager` is declared after it.
  A controller is `"started"` when it was told to connect and `"stopped"` when it was told to
  disconnect after that. The second does not mean that it is not connected:
  `DeviceConnection::disconnect()` returns at once while the connection is being made, which
  is then connected all the same (run `connection_stays`). What the properties of this module
  say is said of the calls.

`MC...` modules and `.cfg` files give the constants small values. `...Proofs` modules
hold the theorems. Operators called "mutant" in a comment are variants with a
plausible bug in them, each of which breaks a property of some run.

## 3. The runs

| run | bounds | why they are enough |
|---|---|---|
| `queue` | 2 producers, 2 consumers, 1 stopper, 3 additions of 2 packets | two additions race, a consumer overtakes another, `stop()` falls anywhere; the theorems hold for any number |
| `video` | both decoders, 1 feeder, 1 resetting thread, 4 packets, `Overload` 1, `Keep` 0, `Delay` 1 | two overloads, a reset inside each of them, SPS, PPS and two pictures, a picture kept back by the codec across a reset; the theorems hold for any numbers |
| `audio` | 1 feeder, 7 packets, `Overload` 2, `Keep` 1, `Delay` 2 | two overloads; the theorems hold for any numbers |
| `connection` | 1 client, 3 channels | a connection is replaced twice, by the worker and after a `disconnect()`, and the controller is removed at any point of it; the theorems hold for any number of channels |
| `protocol` | headers of 2 bytes, payloads 0, 1 and 3, 3 frames, 6 stale bytes | a header in two pieces, an empty frame, three frames in a piece, a reconnection or a reset in any of these; the theorems hold for all sizes |
| `camera` | 2 phones, 2 handles, 1 thread of OBS and the manager | switching, a phone that comes back under another handle, one overlapping pair of calls and its repair, deletion at any point of the manager's loop; the theorems hold for any numbers |
| `video_shutdown`, `video_reset`, `connection_disconnect`, `connection_stays`, `connection_two`, `protocol_mixed` | smaller instances of the same modules | each finds a behaviour that contradicts a sentence in the repository, see section 5 |

What the passing runs show:

- `queue`: no thread sleeps in `remove()` beside a packet (`NoSleeperBesideWork`), and
  the queue implements the ideal FIFO (`ImplementsFifo`): nothing lost, duplicated or
  overtaken, `NULL` only when stopped and empty.
- `video`: a reset does not free the codec while the worker decodes (`CodecStaysValid`);
  VideoToolbox decodes only with a format made of the parameter sets it has now and with
  no session or one that accepts that format (`SessionFits`); after an overload no packet
  of before it is decoded, although resets take packets away meanwhile (`CaughtUp`); after
  a reset cleared the picture OBS shows nothing that was queued or in the codec, except
  the one packet that was in the worker's hands (`FlushedIsGone`); pictures in order
  (`PicturesInOrder`); a destroyed decoder has freed its codec and its session, whatever
  resets ran into the shutdown (`EndsFreed`); both decoders are such a stream of pictures to
  the source, which may end at any point of a reset (`ImplementsStream`); every packet is
  taken unless the decoder is stopped (`QueuedIsTaken`); a worker that does not sleep exits
  when told to (`AwakeWorkerExits`), which for VideoToolbox excludes a worker that is about
  to take `mMutex`, because `Shutdown()` holds it.
- `audio`: the dropping loop never waits (`DroppingNeverWaits`) and leaves at least
  `Keep` packets (`NewestAreKept`), and the two properties of order (`CaughtUp`,
  `SoundInOrder`).
- `connection`: no channel receives again once the thread of its successor was started, so
  no two receive at once (`OneReceiver`), a receiver has an open socket
  (`ReceivesFromOpenSocket`), one client never makes the program call through a
  null channel (`NoNullCall`), a controller that is gone has neither a worker nor an
  internal thread left (`RemovedIsQuiet`), a lost connection is tried again (`Retried`);
  all this is a succession of links to the source (`ImplementsLink`). The last one says what
  of "disconnect" does hold, next to the run `connection_stays` that shows what does not: a
  connection found `Connected` has ended when `disconnect()` returns, and stays so.
- `protocol`: the packets of a connection that began with an empty buffer are the frames
  of the phone, in order, until a reset takes bytes of it, and even after that no frame
  is delivered twice or after a later one (`FramesInOrder`); until then each is delivered
  when it is complete (`NothingHeldBack`).
- `camera`: the reported map is the list (`MapFollowsList`), the manager never meets a
  null controller (`ManagerFindsController`); unless calls overlapped every controller that
  was told to connect was told to disconnect since, except that of the selected phone, which
  was not while the source is active (`OnlySelectedStarted`, `SelectedIsStarted`; whether the
  connection is closed then is another matter, see `connection_stays`); and the manager
  selects a phone only if none was selected (`KeepsChoice`).

### Fairness

Only the runs of liveness properties assume any. A started operation goes on, because
`std::thread`s are scheduled; a step that takes a mutex has strong fairness, because a
mutex that is free again and again is obtained in the end; other steps of a thread have
weak fairness. Nothing is assumed of users, of the phone, of usbmuxd or of spurious
wake-ups: nobody has to call `Input()`, to reset, to start or to disconnect. The
`camera`, `audio`, `queue` and `protocol` runs check safety only.

In the `video` run strong fairness is assumed of the worker only (whose steps that lock are
enabled whenever another thread has released `mMutex`) and weak fairness of the resetting
threads and of a shutdown that has begun; a feeder may stop inside `Input()` for ever. Packets
are finitely many there, so `QueuedIsTaken` says that the queue is empty again and again. The
runs `video_shutdown` and `video_reset`, which show that something never happens, assume more
(`StrongFairness`): every thread that wants a mutex gets it in the end. What they find is
therefore not a thread that was never let in.

`CHECK_DEADLOCK FALSE` is set where the system may really stop: a decoder or a source
that was destroyed, a worker and a `Shutdown()` of VideoToolbox that wait for each other,
a controller that is gone, whose phone is silent and whose clients do nothing or whose
channels are used up by the bound, and a program that has crashed.

## 4. The proofs

| module | theorems | argument |
|---|---|---|
| `WorkQueueProofs` | `TypeCorrect`, `AddWakes`, `Refinement` | `IInv` says that the queue is the part of the history of additions that was not taken, that a thread in `add()` holds its packet, and who may be inside `remove()`. The last one is needed because a producer that parked would keep `add()` out |
| `DecoderThreadProofs` | lemmas for both decoders | the steps both decoders share are proved once; `Moves` says what any step, of a flush too, does to the queue: a packet comes, a packet goes, or nothing |
| `FFMpegDecodeProofs` | lemmas about the codec | what a call returns and what stays in the codec is the queue of the held packets and the new one, in order, for any `Delay`; an empty audio packet takes out only what was there |
| `VideoDecodingProofs` | `TypeCorrect`, `MutualExclusion`, `CodecSafe`, `SessionAlwaysFits`, `CatchesUp`, `ShowsInOrder`, `FlushIsFinal`, `EndsClean`, `StreamRefinement` | `LockInv`: a thread is at a location at which the code has `mMutex` exactly when it holds it. `DecodeInv`: a worker that decodes found the codec open, or the parameter sets complete. `FormatInv`: the format is that of the present parameter sets whenever the decoder waits for none, and the session, if there is one, accepts it. `OrderInv`: what was shown is older than what the codec holds, that older than what the worker has, and that older than the queue; what an overload condemned is only among the packets to be dropped; what a flush found gone is nowhere but in the worker's hands. `EndInv`: the codec or session of the implementation not in use is never made; once `Shutdown()` has invalidated the session its hold of `mMutex` keeps the worker from making another; and when the decoder is destroyed the worker is gone and everything is freed, with a reset in progress or not. The refinement is described below |
| `FFMpegAudioDecoderProofs` | `TypeCorrect`, `NeverWaits`, `KeepsNewest`, `CatchesUp`, `PlaysInOrder` | `Kept`: when the worker is about to drop, more than `Keep` packets are queued, as nobody else takes any; `Ordered` and `Follows` as for video |
| `ConnectionControllerProofs` | `TypeCorrect`, `MutexInvariance`, `JoinedInPeace`; while clients take turns: `Invariance`, `ReceivesAlone`, `SocketStaysOpen`, `NullNeverCalled`, `WorkerStartedOnce`, `DisconnectedIsDead`, `LinkRefinement`, `GoneIsQuiet` | see below |
| `ProtocolProofs` | `TypeCorrect`, `Reassembly`, `Prompt` | on a clean connection the buffer begins where the next frame begins, and the packets are the frames before it. `TakenBefore`: a frame that was taken lies before the buffer, so one that is found at its front, after a reset and by whatever luck, is later than all of these. `Untouched`: a connection of which nothing was received has no packets, so a reset there takes nothing |
| `IOSCameraInputProofs` | `TypeCorrect`, `ManagerFinds`, `MapIsList`, `OnlySelected`, `SelectedStarts`, `ChoiceKept` | `Found`: every phone in the map has a controller, and only the manager makes one null. `Mapped`: how far `updateDevices()` has come. `Orderly`: as long as calls did not overlap at most one thread is in a call, and for each of its locations what is known of the controllers. `Pending` is why `SelectedStarts` holds: a phone that was added and whose controller was not yet told to connect has set `changed`, so the manager is about to report it. |

All eight modules are proved without unproved leaves, for every value of the constants
that satisfies the named assumptions. Those assumptions say who the threads are, that
`NULL` is no packet, `Keep <= Overload`, that a header is not empty; TLC evaluates them
on the runs.

In `ConnectionControllerProofs` a channel is quiet if its internal thread has exited, or
will at its next test of `running`. `QuietInv` says that all channels are quiet while the
worker is making one, while the connection is neither connecting nor connected, and in the
part of `disconnect()` after the join: hence a new thread is the only one that receives.
`AliveInv` says where a thread that is not finished can be found: it is that of the current
channel, or somebody in a destructor waits for it. `ThreadInv` ties the socket to the
thread: a closed one belongs to a quiet channel. `WorkerInv` and `ClientInv` relate the two
sides: the worker makes a channel only while the state is not connected, and a client that
found it connected has cleared `should_reconnect` before, so the worker is not about to
replace the channel the client closes; that is why none is null. In a destructor the worker
has ended. `LinkInv` says that a connected connection has a channel. `OrderInv` says that
channels are used in the order of their construction and that one with a successor stays
quiet, which is what the strong form of `OneReceiver` needs. `StartInv` says that the worker
ends only for a client that removes the controller, and that a client about to create a
worker has seen that there is none. `PhaseInv` lists the locations. `DeadInv` says that there
is no internal thread at all while the connection is `Disconnected` and after the join in
`disconnect()`.

`LinkRefinement` rests on these. `AliveAlone`: there is one internal thread at a time, so one
that ends is a lost link and leaves none. The start of a channel is `Open`, because the worker
is then not beside a client in `disconnect()` (`ClientInv`), nobody is alive (`AliveInv`) and
the state is `Connecting`. The last step of `disconnect()` is `Part` by `DeadInv`. Only
`start()` and `connect()` undo that, because a worker that is not yet on its way reads
`should_reconnect` first.

These theorems have the hypothesis `CallsTakeTurns`: a call of a client (`start()`,
`disconnect()`, the removal) begins when none is in progress on that controller. Any number
of clients may make the calls. `TurnInv` is what it gives. It is needed: with calls that
overlap the model does call through a null channel, see the hazard at
`DeviceConnection.cpp:83`, and starts two workers, see the run `connection_two`, which
`WorkerStartedOnce` shows to be a matter of overlap only. `TypeCorrect`, `MutexInvariance`
and `JoinedInPeace` do without it: `MutexInv` ties the holder of each `worker_mutex` to the
location of the thread that has it, in both directions, so whatever the clients do a
thread that waits in `close()` or `~Channel()` waits for one that is not receiving, and
nobody joins the same `std::thread` meanwhile.

`CatchesUp`, `ShowsInOrder`, `FlushIsFinal`, `PlaysInOrder` and `StreamRefinement` have the
hypothesis `FeedersTakeTurns`: no two threads are inside `add()` at once. Packets are
numbered when `Input()` is called and queued afterwards, so two feeders could overtake each
other there. That they do not is a fact about the connection: the feeders are the internal
threads of successive channels, and `ReceivesAlone` says that of two channels the older one
receives no more once the newer one was started. The two theorems are about different
modules and are not composed by the prover.

`StreamRefinement` proves that the initial states of `VideoDecoding` are those of
`PictureStream`, and goes through the kinds of steps. A feeder's push is `Arrive`: the
number of packets that arrived (`Pushed`) is `received` without the one inside `add()`. What
the worker outputs is `Show`: `OrderInv` gives that it is newer than what was shown, and
that a reset not yet settled is the only excuse for a packet below the line. The steps of a
reset are those of its phase or none (`ResetPhases`). The destructor is a `Close` in whatever
phase the resets are, and nothing is shown after it because the worker is gone by then
(`EndInv`). The rest changes nothing the stream can see.

Model-checked only: the liveness properties `QueuedIsTaken`, `AwakeWorkerExits` and
`Retried`, which are out of the prover's reach.

## 5. Where the code and its texts disagree

| run | the code | the text |
|---|---|---|
| `video_shutdown` | `stop()` (`Queue.hpp:112`) notifies without the mutex, so a worker between the test and the wait of `remove()` misses it and `join()` never returns | `Queue.hpp:66-68`: the flag is there because of such a deadlock |
| `video_reset` | `Flush()` calls `remove()` after `size()`; the worker takes the last packet in between and the resetting thread waits for the next one | `obs-ios-camera-source.cpp:237`: the frame is cleared when a setting changes |
| `connection_disconnect` | `close()` holds `worker_mutex` while it joins the internal thread, which may be about to take it | `Channel.cpp:157`: unlocks because `close()` needs the lock |
| `connection_stays` | `disconnect()` does nothing unless the state is `Connected`; one that is `Connecting` becomes connected after it | `obs-ios-camera-source.cpp:249-250`: disconnect from all |
| `connection_two` | two `start()` calls that overlap both find no worker and both create one | `DeviceApplicationConnectionController.cpp:54`: only if not already started |
| `protocol_mixed` | a reset that comes after the first bytes of a frame were received (`disconnect()` of the controller while the connection is being made, `DeviceConnection.cpp:79`) makes the rest of the frame the beginning of the buffer; so does the rest of a broken frame when the worker connects again, which it does without `reset()` | `Protocol.hpp:42-43`: a packet is a header and its payload |

The models reach more behaviours for which the repository has no sentence to hold against
them; they are listed as hazards: calls that overlap can leave two phones connected, or the
selected one unconnected; a phone that is deselected while its connection is being made is
connected all the same, next to the new one (`connection_stays` shows it of one controller); a thread of OBS can call a controller that the manager has set to
null since it was tested; ticking "disconnect when inactive" on an inactive source leaves
the phone connected until the next call; with the default setting `""` the only phone is
never selected by the manager; a controller that is removed while data are delivered is
destroyed on the internal thread, which then joins itself; and while a source is deleted
its manager may still reset decoders that are gone.

## 6. What is not modelled

- A change of the hardware decoder while pictures arrive: both decoders would have to run
  at once, which squares the states of the largest run. What is lost is listed as a hazard.
- The use of the decoders by threads that outlive them when a source is deleted: it is
  undefined, and a reset that finds its decoder destroyed stops there in the model. A reset
  that is overtaken by the shutdown is modelled.
- A `reset()` of the protocol inside a round of `processData()`: both write the vector of
  bytes without a lock, which is undefined too. A reset between two rounds is modelled.
- `DeviceManager::stop()`, which nothing calls, and the callback of usbmuxd, which is never
  registered.
- `Channel::send()`, which nothing in the plugin calls, and the numbers of descriptors: a
  second `usbmuxd_disconnect()` on one fails.
- The contents of pictures and sound: formats, timestamps, conversion of NAL units; the
  codecs themselves, of which `FFMpegDecode` and `VideoToolboxDecoder` say only what they may
  answer.
- The list of phones for the properties dialogue, the setting of the latency, and writing
  the chosen phone back into the settings: no property here is about them.
- Plugin registration, the `portal` command line, vendored libraries, build and
  installer: no logic of this program.

## 7. Plan

Done, in this order: queue and its refinement; the two ffmpeg decoders; channel,
connection and controller; protocol; device manager and source; VideoToolbox and the
composition of the video decoders with `resetDecoder()`; the codec; the removal of a
controller; the deletion of a source; the proofs of all of these; the stream of pictures and
the succession of links, with their refinements; the connection with any number of clients
that take turns, and its mutexes with any that do not.

Left, most important first:

1. Both decoders running at once, with the source changing between them: how many pictures
   of the old one can come after the first of the new one.
2. The deletion of a source with its decoders and one controller, in one model.
3. Runs of their own for what section 5 lists without one, in place of the smaller runs
   that show a single disagreement.
