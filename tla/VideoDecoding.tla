----------------------------- MODULE VideoDecoding -----------------------------
(***************************************************************************)
(* IOSCameraInput::videoDecoder (src/src/obs-ios-camera-source.cpp) with   *)
(* the threads that share it: the worker of run(), the threads that call   *)
(* Input(), the threads that call resetDecoder(), and the owner that shuts *)
(* the decoder down.  Which implementation a source uses is its setting    *)
(* "hardware decoder", on Apple systems; here it does not change while the *)
(* source lives.  resetDecoder() flushes both; the one that is not in use  *)
(* has an empty queue, so that nothing of it is seen.                      *)
(*                                                                         *)
(* The decoders are destroyed before the device manager is joined          *)
(* (src/src/obs-ios-camera-source.h:75, 83-88), so a reset may begin, and  *)
(* be anywhere, while the owner shuts the decoder down.  What it would do  *)
(* with a decoder that is destroyed is undefined and not modelled: it      *)
(* stops there, unless only OBS is left to be called.                      *)
(***************************************************************************)
EXTENDS FFMpegVideoDecoder, VideoToolboxDecoder

CONSTANT Decoders \* the implementations that the build has

ASSUME DecodersAssumption == Decoders \subseteq {"ffmpeg", "VideoToolbox"}

VARIABLE videoDecoder \* the one that the source uses

vars == <<threadVars, videoVars, codecVars, toolboxVars, videoDecoder>>

Init ==
  /\ VideoInit
  /\ CodecInit
  /\ ToolboxInit
  /\ videoDecoder \in Decoders

othersVars == <<videoVars, codecVars, toolboxVars, videoDecoder>>

\* A step is one of the decoder in use.
FFMpeg == videoDecoder = "ffmpeg" /\ UNCHANGED <<toolboxVars, videoDecoder>>
Toolbox == videoDecoder = "VideoToolbox" /\ UNCHANGED <<codecVars, videoDecoder>>

StartReset(u) ==
  \/ FFMpeg /\ Reset(u, "flushSize") /\ UNCHANGED codecVars
  \/ Toolbox /\ Reset(u, "lock") /\ UNCHANGED toolboxVars

FlushStep(u) ==
  /\ pc[Owner] # "destroyed" \/ pc[u] = "blank"
  /\ (FFMpeg /\ FFMpegFlush(u)) \/ (Toolbox /\ ToolboxFlush(u))

WorkerStep == (FFMpeg /\ FFMpegWorker) \/ (Toolbox /\ ToolboxWorker)
OwnerStep == (FFMpeg /\ FFMpegOwner) \/ (Toolbox /\ ToolboxOwner)

Next ==
  \/ WorkerStep \/ (Toolbox /\ ShortPacket)
  \/ OwnerStep
  \/ \E u \in Flushers : StartReset(u) \/ FlushStep(u)
  \/ /\ \/ \E f \in Feeders : FeederStep(f)
        \/ \E u \in Flushers : FlushSpuriousWake(u)
        \/ WorkerSpuriousWake
     /\ UNCHANGED othersVars

Spec == Init /\ [][Next]_vars

\* A started operation goes on: std::thread is scheduled, and a worker that waits for
\* a mutex which is free again and again gets it in the end.  Nobody has to call Input()
\* or to return from it, to reset or shut the decoder down, or to wake spuriously, and no
\* packet has to be short.
Fairness ==
  /\ SF_vars(WorkerStep)
  /\ \A u \in Flushers : WF_vars(FlushStep(u))
  /\ WF_vars(OwnerStep /\ pc[Owner] \notin {"constructed", "running"})

FairSpec == Spec /\ Fairness

\* What goes wrong below goes wrong even if every thread gets every mutex in the end.
StrongFairness ==
  /\ Fairness
  /\ \A f \in Feeders : SF_vars(InputPush(f) /\ UNCHANGED othersVars)
  /\ \A u \in Flushers : SF_vars(FlushStep(u))

StrongSpec == Spec /\ StrongFairness

-----------------------------------------------------------------------------
\* Every variable has its type.
TypeOK == VideoTypeOK /\ CodecTypeOK(Items) /\ ToolboxTypeOK /\ videoDecoder \in Decoders

\* The codec is never freed under the worker's feet: while the worker is between
\* its check of ffmpeg_decode_valid() and the end of ffmpeg_decode_video(), a reset
\* does not free the decoder (FFMpegVideoDecoder.cpp:47-50, 74-108).
CodecStaysValid == videoDecoder = "ffmpeg" /\ pc[Worker] = "decode" => valid

\* VideoToolbox decodes a picture only with a format made of the parameter sets it
\* has now, and with a session that accepts that format, whatever was lost, refused
\* or flushed between the SPS, the PPS and the picture
\* (VideoToolboxVideoDecoder.cpp:123-200).
SessionFits ==
  videoDecoder = "VideoToolbox" /\ pc[Worker] = "decode" =>
    /\ mFormat = <<spsData, ppsData>>
    /\ mSession = {} \/ mFormat \in mSession

\* An overload catches up: when the worker decodes again, the packet is newer than
\* all that were queued when the overload was noticed, even if resets take packets
\* out of the queue while the worker drops them (FFMpegVideoDecoder.cpp:124-135,
\* VideoToolboxVideoDecoder.cpp:88-99).
\* It is said of feeders that take turns, so that packets are numbered as they are queued.
CaughtUp == pc[Worker] \in {"process", "decode"} => item[Worker] > obsolete

\* What a reset flushed stays gone: after it cleared the picture OBS shows nothing
\* that was queued, or held back in the codec, when the queue was found empty, save
\* the one packet the worker had in hand (obs-ios-camera-source.cpp:229-239,
\* FFMpegVideoDecoder.cpp:40-51, VideoToolboxVideoDecoder.cpp:44-55).
FlushedIsGone ==
  (\A u \in Flushers : pc[u] \notin {"free", "blank"}) =>
    screen \in {Null, spared} \/ screen > flushed

\* Nothing is left of a destroyed decoder: codec and session are freed and nobody makes
\* them again, neither a worker that still takes packets during Shutdown() nor a reset
\* that runs into it (FFMpegVideoDecoder.cpp:33-38, VideoToolboxVideoDecoder.cpp:62-75).
EndsFreed == pc[Owner] = "destroyed" => ~valid /\ mSession = {}

\* Pictures reach OBS in the order of their packets, each packet once, however
\* resets and overloads thin the queue and however long the codec holds a picture
\* back (FFMpegVideoDecoder.cpp:103-106, ffmpeg-decode.c:249-261,
\* VideoToolboxVideoDecoder.cpp:285-286).
PicturesInOrder == [][shown' # shown => shown' > shown]_vars

\* No packet is stuck: it is taken out of the queue unless the decoder is stopped,
\* even while a flush of VideoToolbox waits for a packet with mMutex held
\* (FFMpegVideoDecoder.cpp:113-136, VideoToolboxVideoDecoder.cpp:46-51).  Packets are
\* finitely many here, so that the queue is empty again and again.
QueuedIsTaken == []<>(m_queue = <<>> \/ mShouldStop)

\* A worker that is not waiting in remove() when it is told to stop does exit, from
\* wherever it is in its loops (FFMpegVideoDecoder.cpp:58-62, 113, 128); that of
\* VideoToolbox, whose Shutdown() holds mMutex, unless it takes a packet to process
\* (VideoToolboxVideoDecoder.cpp:62-75, 119).
AwakeWorkerExits ==
  (/\ mShouldStop
   /\ at[Worker] \notin {"parking", "asleep"}
   /\ videoDecoder = "VideoToolbox" => pc[Worker] \notin {"remove", "process"})
    ~> pc[Worker] = "exited"

\* Where a reset is: Flush() has found the queue empty, it has freed the codec or the
\* session and so is done, and the picture is cleared.
Phase(u) ==
  CASE pc[u] \in {"lock", "flushSize", "flushRemove"} -> "called"
    [] pc[u] = "free" -> "drawn"
    [] pc[u] = "blank" -> "settled"
    [] OTHER -> "idle"

Stream == INSTANCE PictureStream WITH
  Callers <- Flushers,
  arrived <- Pushed,
  floor <- flushed,
  phase <- [u \in Flushers |-> Phase(u)],
  closed <- pc[Owner] = "destroyed"

\* To the source both decoders, with their queue, threads, mutex and codec, are a stream
\* of pictures which resets cut and the destructor ends, even in the middle of a reset
\* (VideoDecoder.h:30-41, obs-ios-camera-source.cpp:229-239).
ImplementsStream == Stream!StreamSpec

-----------------------------------------------------------------------------
\* What the code says of itself and does not keep.

\* stop() ends the wait of the worker, so Shutdown() returns (Queue.hpp:65-70:
\* m_shouldStop is there because of a "deadlock issue where trying to stop an
\* std::thread that is waiting on a std::condition_variable to return").
ShutdownReturns == pc[Owner] = "stop" ~> pc[Owner] = "destroyed"

\* A reset of a decoder that nobody shuts down gets to the point where it clears the
\* frame (obs-ios-camera-source.cpp:237: "Clear the video frame when a setting changes").
ResetClearsFrame ==
  \A u \in Flushers : pc[u] = "flushSize" ~> pc[u] = "idle" \/ pc[Owner] # "running"
=============================================================================
