-------------------------- MODULE FFMpegVideoDecoder --------------------------
(***************************************************************************)
(* FFMpegVideoDecoder (src/src/FFMpegVideoDecoder.cpp): mMutex protects    *)
(* the codec only, so Flush() empties the queue without it.                *)
(***************************************************************************)
EXTENDS VideoDecoder, FFMpegDecode

\* processPacketItem(): mMutex is held from OpenDecoder to DecodePacket.

OpenDecoder ==
  /\ pc[Worker] = "process"
  /\ Free
  /\ OpenCodec
  /\ \/ valid' /\ mMutex' = {Worker} /\ Goto(Worker, "decode")
     \/ ~valid' /\ UNCHANGED mMutex /\ Goto(Worker, "size")
  /\ UNCHANGED <<queueVars, mShouldStop, received, obsolete, held, screen, shown, flushed,
                 spared>>

DecodePacket ==
  /\ pc[Worker] = "decode"
  /\ \/ \E p \in Items : Returned(item[Worker], p) /\ Show(p)
     \/ NoOutput(item[Worker]) /\ UNCHANGED <<screen, shown>>
  /\ mMutex' = {}
  /\ Goto(Worker, "size")
  /\ UNCHANGED <<queueVars, mShouldStop, received, obsolete, valid, flushed, spared>>

-----------------------------------------------------------------------------
\* The end of Flush(): the codec is freed, to be opened again for the next packet.
FreeStep(u) ==
  /\ pc[u] = "free"
  /\ FreeCodec
  /\ Goto(u, "blank")
  /\ UNCHANGED <<queueVars, mShouldStop, received, obsolete, videoVars>>

\* Mutant of FreeDecoder: mMutex is not taken.
FreeUnlocked(u) == FreeStep(u)
FreeDecoder(u) == Free /\ FreeStep(u)

FFMpegFlush(u) == (FlushLoop(u) /\ UNCHANGED codecVars) \/ FreeDecoder(u)

FFMpegWorker == (RunStep /\ UNCHANGED <<videoVars, codecVars>>) \/ OpenDecoder \/ DecodePacket

\* Shutdown() and the destructor, which frees the codec when the thread is gone.
FFMpegOwner ==
  /\ \/ (StartThread \/ Shutdown \/ ShutdownNotify \/ Join) /\ UNCHANGED codecVars
     \/ Joined /\ FreeCodec
  /\ UNCHANGED videoVars
=============================================================================
