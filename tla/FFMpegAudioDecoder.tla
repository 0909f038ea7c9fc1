-------------------------- MODULE FFMpegAudioDecoder --------------------------
(***************************************************************************)
(* FFMpegAudioDecoder (src/src/FFMpegAudioDecoder.cpp): the same thread    *)
(* without a flush.  Only the worker takes packets and only the worker     *)
(* touches the codec, so processPacketItem() needs no lock and is one      *)
(* step; an overload keeps the newest packets instead of dropping all.     *)
(***************************************************************************)
EXTENDS DecoderThread, FFMpegDecode

ASSUME AudioAssumption == Threads = {Worker, Owner} \cup Feeders

VARIABLE played \* the last packet whose sound was output, Null for none

vars == <<threadVars, codecVars, played>>

Init == ThreadInit /\ CodecInit /\ played = Null

\* processPacketItem(): the codec is opened if need be and given the packet.
ProcessPacketItem ==
  /\ pc[Worker] = "process"
  /\ OpenCodec
  /\ \/ ~valid' /\ UNCHANGED <<held, played>>
     \/ valid' /\ Returned(item[Worker], played')
     \/ valid' /\ ReturnedUnsent(played')
     \/ valid' /\ (NoOutput(item[Worker]) \/ UnconvertedUnsent) /\ UNCHANGED played
  /\ Goto(Worker, "size")
  /\ UNCHANGED <<queueVars, mShouldStop, received, obsolete>>

WorkerStep == (RunStep /\ UNCHANGED <<codecVars, played>>) \/ ProcessPacketItem

OwnerStep ==
  /\ \/ (StartThread \/ Shutdown \/ ShutdownNotify \/ Join) /\ UNCHANGED codecVars
     \/ Joined /\ FreeCodec
  /\ UNCHANGED played

Next ==
  \/ WorkerStep
  \/ OwnerStep
  \/ /\ WorkerSpuriousWake \/ \E f \in Feeders : FeederStep(f)
     /\ UNCHANGED <<codecVars, played>>

Spec == Init /\ [][Next]_vars

-----------------------------------------------------------------------------
\* Every variable has its type.
TypeOK ==
  /\ ThreadTypeOK
  /\ CodecTypeOK(Items)
  /\ played \in Items \cup {Null}

\* The dropping loop never waits: between its calls of size() and remove() nobody
\* else takes a packet, so remove() finds one (FFMpegAudioDecoder.cpp:118-119).
DroppingNeverWaits == pc[Worker] = "dropRemove" => m_queue # <<>>

\* An overload leaves the newest Keep packets, never fewer, whatever arrives
\* meanwhile (FFMpegAudioDecoder.cpp:117-124).
NewestAreKept == [][Drop => Len(m_queue') >= Keep]_vars

\* Once an overload was noticed no packet older than the Keep newest of that moment
\* is decoded any more (FFMpegAudioDecoder.cpp:114-125).
CaughtUp == pc[Worker] = "process" => item[Worker] > obsolete

\* Sound reaches OBS in the order of its packets, each packet once, even if the codec
\* holds some back (FFMpegAudioDecoder.cpp:92-96, ffmpeg-decode.c:186-199).
SoundInOrder == [][played' # played => played' > played]_vars
=============================================================================
