-------------------------- MODULE VideoDecodingProofs --------------------------
(***************************************************************************)
(* Proofs about VideoDecoding, for both implementations, every Overload,   *)
(* Keep and Delay and every number of packets, feeding and flushing        *)
(* threads; what is said of the order of the packets is proved for feeding *)
(* threads that take turns.  In the end both are shown to implement the    *)
(* stream of pictures of PictureStream.                                    *)
(***************************************************************************)
EXTENDS VideoDecoding, FFMpegDecodeProofs

\* Types of what VideoDecoder adds.
VideoTyped ==
  /\ \A u \in Flushers : pc[u] \in FlusherPCs
  /\ mMutex \in {{}} \cup {{t} : t \in Threads}
  /\ {screen, shown, spared} \subseteq Items \cup {Null}
  /\ flushed \in 0..MaxItems

\* Where a thread holds mMutex: there it does, and nobody else, and nowhere else.
Lockers == {Worker, Owner} \cup Flushers
Places == IF videoDecoder = "ffmpeg" THEN {"decode"}
          ELSE {"decode", "flushSize", "flushRemove", "free", "stop", "join", "joining"}
LockInv ==
  /\ mMutex \in {{}} \cup {{t} : t \in Lockers}
  /\ \A t \in Lockers : pc[t] \in Places <=> mMutex = {t}

\* What the worker decodes with.
DecodeInv ==
  pc[Worker] = "decode" =>
    /\ videoDecoder = "ffmpeg" => valid
    /\ videoDecoder = "VideoToolbox" => CanDecode

\* The parameter sets, the format and the session of VideoToolbox.
FormatInv ==
  /\ ~waitingForSps => spsData \in Items
  /\ ~waitingForSps /\ ~waitingForPps /\ mFormat # <<>> =>
       mFormat = <<spsData, ppsData>> /\ (mSession = {} \/ mFormat \in mSession)

ToolboxInv == ToolboxTypeOK /\ FormatInv

\* The inductive invariant for any feeders.
IInv ==
  /\ Typed /\ PacketTyped /\ AddersCounted
  /\ VideoTyped
  /\ CodecTypeOK(Items)
  /\ ToolboxInv
  /\ videoDecoder \in Decoders
  /\ LockInv
  /\ DecodeInv

LEMMA LockerFacts ==
  /\ Worker \in Lockers /\ Owner \in Lockers /\ Lockers \subseteq Threads
  /\ \A u \in Flushers : /\ u \in Lockers /\ u \in Threads
                         /\ u # Worker /\ u # Owner /\ u \notin Feeders
BY FlushersAssumption, DecoderAssumption DEF Lockers

LEMMA InitIInv == Init => IInv
<1> SUFFICES ASSUME Init PROVE IInv
  OBVIOUS
<1>1. Typed /\ pc[Worker] = "none" /\ pc[Owner] = "constructed"
  BY InitTyped, ThreadFacts DEF Init, VideoInit, ThreadInit
<1>2. \A u \in Flushers : pc[u] = "idle"
  BY LockerFacts DEF Init, VideoInit, ThreadInit
<1>3. VideoTyped
  BY <1>2, CountFacts DEF Init, VideoInit, VideoTyped, FlusherPCs
<1>4. CodecTypeOK(Items)
  BY EmptySeq DEF Init, CodecInit, CodecTypeOK
<1>5. ToolboxInv
  BY DEF Init, ToolboxInit, ToolboxInv, ToolboxTypeOK, FormatInv
<1>6. PacketTyped /\ DecodeInv
  BY <1>1 DEF PacketTyped, Processing, DecodeInv
<1>7. LockInv
  BY <1>1, <1>2 DEF LockInv, Lockers, Places, Init, VideoInit
<1>8. AddersCounted
  BY ThreadFacts DEF Init, VideoInit, ThreadInit, QueueInit, AddersCounted, Adding
<1> QED BY <1>1, <1>3, <1>4, <1>5, <1>6, <1>7, <1>8 DEF Init, IInv

-----------------------------------------------------------------------------
\* The kinds of steps besides OwnerStep: those that only concern the thread and its
\* queue, those of processPacketItem(), and those of a reset.

SharedStep ==
  /\ RunStep \/ WorkerSpuriousWake \/ \E f \in Feeders : FeederStep(f)
  /\ UNCHANGED othersVars

ProcessStep ==
  \/ FFMpeg /\ (OpenDecoder \/ DecodePacket)
  \/ Toolbox /\ (TakePacket \/ ShortPacket \/ BeginPicture \/ DecodePicture)

ResetStep(u) ==
  StartReset(u) \/ FlushStep(u) \/ (FlushSpuriousWake(u) /\ UNCHANGED othersVars)

LEMMA StepKinds ==
  ASSUME [Next]_vars
  PROVE  \/ SharedStep \/ OwnerStep \/ ProcessStep
         \/ \E u \in Flushers : ResetStep(u)
         \/ UNCHANGED vars
<1>1. WorkerStep => SharedStep \/ ProcessStep
  BY DEF WorkerStep, FFMpegWorker, ToolboxWorker, FFMpeg, Toolbox, SharedStep, ProcessStep,
         othersVars
<1> QED BY <1>1 DEF Next, SharedStep, ProcessStep, ResetStep

\* The owner's steps and what they do to the rest.
LEMMA OwnerKinds ==
  ASSUME OwnerStep
  PROVE  /\ ThreadStep
         /\ UNCHANGED <<screen, shown, flushed, spared, mFormat, parameterVars, videoDecoder>>
         /\ UNCHANGED codecVars \/ (Joined /\ FreeCodec)
         /\ mSession' \in {mSession, {}}
         /\ \/ videoDecoder = "ffmpeg" /\ UNCHANGED mMutex
            \/ (StartThread \/ ShutdownNotify \/ Join) /\ UNCHANGED mMutex
            \/ videoDecoder # "ffmpeg" /\ Shutdown /\ Free /\ mMutex' = {Owner}
            \/ videoDecoder # "ffmpeg" /\ Joined /\ mMutex' = {}
BY DEF OwnerStep, FFMpegOwner, ToolboxOwner, FFMpeg, Toolbox, ThreadStep, videoVars, toolboxVars,
       parameterVars, codecVars

LEMMA SharedFacts == ASSUME SharedStep PROVE ThreadStep
BY DEF SharedStep, ThreadStep

\* Where the shared steps lead.
LEMMA SharedPCs ==
  ASSUME Typed, SharedStep
  PROVE  /\ \A t \in Threads \ {Worker} : pc'[t] = pc[t]
         /\ pc'[Worker] \in Places <=> pc[Worker] \in Places
         /\ pc'[Worker] \in Places => pc'[Worker] = pc[Worker]
<1> USE ThreadFacts
<1>1. \/ UNCHANGED pc
      \/ pc[Worker] # "decode" /\ \E l \in WorkerPCs \ {"decode"} : Goto(Worker, l)
  <2>1. CASE \E f \in Feeders : FeederStep(f)
    BY <2>1 DEF FeederStep, Input, InputPush
  <2>2. CASE TestStop \/ Drop \/ Remove \/ CheckOverload
    BY <2>2 DEF TestStop, Drop, Remove, CheckOverload, WorkerPCs
  <2>3. CASE DropSize
    BY <2>3 DEF DropSize, DropTo, WorkerPCs
  <2>4. CASE WorkerWait \/ WorkerSpuriousWake
    BY <2>4 DEF WorkerWait, WorkerSpuriousWake
  <2> QED BY <2>1, <2>2, <2>3, <2>4 DEF SharedStep, RunStep
<1>2. CASE UNCHANGED pc
  BY <1>2
<1>3. ASSUME NEW l \in WorkerPCs \ {"decode"}, Goto(Worker, l)
      PROVE  pc'[Worker] \notin Places /\ \A t \in Threads \ {Worker} : pc'[t] = pc[t]
  BY <1>3 DEF Goto, Typed, PCsTyped, Places, WorkerPCs
<1>4. pc[Worker] # "decode" => pc[Worker] \notin Places
  BY DEF Typed, PCsTyped, Places, WorkerPCs
<1> QED BY <1>1, <1>2, <1>3, <1>4

LEMMA OwnerPCsStep ==
  ASSUME Typed, OwnerStep
  PROVE  /\ \A t \in Threads \ {Worker, Owner} : pc'[t] = pc[t]
         /\ pc'[Worker] = pc[Worker] \/ (pc[Worker] = "none" /\ pc'[Worker] = "test")
         /\ Joined => pc'[Worker] = "exited"
         /\ StartThread \/ ShutdownNotify \/ Join =>
              (pc'[Owner] \in Places <=> pc[Owner] \in Places)
         /\ Shutdown => pc'[Owner] = "stop"
         /\ Joined => pc'[Owner] \notin Places
         /\ pc'[Owner] # "decode"
<1> USE ThreadFacts DEF Goto, Typed, PCsTyped, Places
<1>1. CASE StartThread
  BY <1>1 DEF StartThread, Shutdown, ShutdownNotify, Join, Joined
<1>2. CASE Shutdown
  BY <1>2 DEF StartThread, Shutdown, ShutdownNotify, Join, Joined
<1>3. CASE ShutdownNotify
  BY <1>3 DEF StartThread, Shutdown, ShutdownNotify, Join, Joined
<1>4. CASE Join
  BY <1>4 DEF StartThread, Shutdown, ShutdownNotify, Join, Joined
<1>5. CASE Joined
  BY <1>5 DEF StartThread, Shutdown, ShutdownNotify, Join, Joined
<1> QED BY <1>1, <1>2, <1>3, <1>4, <1>5 DEF OwnerStep, FFMpegOwner, ToolboxOwner

-----------------------------------------------------------------------------
\* What the steps of processPacketItem() keep.
LEMMA ProcessKeeps ==
  ASSUME Typed, ProcessStep
  PROVE  /\ Typed'
         /\ UNCHANGED <<queueVars, mShouldStop, received, obsolete, flushed, spared,
                        videoDecoder>>
         /\ Processing /\ ~Dropping /\ ~Dropping'
         /\ \A t \in Threads \ {Worker} : pc'[t] = pc[t]
         /\ pc'[Worker] \in {"decode", "size"}
<1>1. /\ UNCHANGED <<queueVars, mShouldStop, received, obsolete, flushed, spared,
                     videoDecoder>>
      /\ pc[Worker] \in {"process", "decode"}
  BY DEF ProcessStep, FFMpeg, Toolbox, OpenDecoder, DecodePacket, TakePacket, ShortPacket,
         BeginPicture, DecodePicture, videoVars
<1>2. \E l \in {"decode", "size"} : Goto(Worker, l)
  BY DEF ProcessStep, OpenDecoder, DecodePacket, TakePacket, ShortPacket, BeginPicture,
         DecodePicture
<1>3. PCsTyped'
  BY <1>1, <1>2, ThreadFacts, GotoTyped DEF Typed, WorkerPCs
<1>4. /\ \A t \in Threads \ {Worker} : pc'[t] = pc[t]
      /\ pc'[Worker] \in {"decode", "size"}
  BY <1>2, ThreadFacts DEF Goto, Typed, PCsTyped
<1>5. Typed'
  BY <1>1, <1>3, OtherStep
<1> QED BY <1>1, <1>4, <1>5 DEF Processing, Dropping

\* What a reset keeps: the types, the worker's place and packet, the counts.
LEMMA ResetKeeps ==
  ASSUME Typed, NEW u \in Flushers, ResetStep(u)
  PROVE  /\ Typed' /\ (AddersCounted => AddersCounted')
         /\ UNCHANGED <<mShouldStop, received, obsolete, shown, mFormat, parameterVars,
                        videoDecoder>>
         /\ item'[Worker] = item[Worker]
         /\ AddingNewest => AddingNewest' /\ Moves /\ Pushed' = Pushed
         /\ \A t \in Threads \ {u} : pc'[t] = pc[t]
         /\ pc'[u] = pc[u] \/ pc'[u] \in FlusherPCs
<1> USE LockerFacts, ThreadFacts
<1> DEFINE Loop == /\ FlushLoop(u) \/ FlushSpuriousWake(u)
                   /\ UNCHANGED codecVars /\ UNCHANGED toolboxVars
                   /\ UNCHANGED videoDecoder
           Own == \/ FFMpeg /\ (Reset(u, "flushSize") \/ FreeDecoder(u))
                  \/ Toolbox /\ (Reset(u, "lock") \/ LockToFlush(u) \/ InvalidateSession(u))
                               /\ UNCHANGED <<mFormat, parameterVars>>
<1>1. Loop \/ Own
  BY DEF ResetStep, StartReset, FlushStep, FFMpegFlush, ToolboxFlush, FFMpeg, Toolbox,
         othersVars, toolboxVars, parameterVars, InvalidateSession, LockToFlush
<1>2. /\ UNCHANGED <<mShouldStop, received, obsolete, shown, mFormat, parameterVars,
                     videoDecoder>>
      /\ UNCHANGED pc \/ \E l \in FlusherPCs : Goto(u, l)
      /\ UNCHANGED queueVars \/ RemoveStep(u)
  <2>1. CASE Loop
    <3>1. UNCHANGED <<mFormat, parameterVars, videoDecoder>>
      BY <2>1 DEF toolboxVars, parameterVars
    <3>2. CASE FlushSize(u)
      BY <3>1, <3>2 DEF FlushSize, Size, FlusherPCs
    <3>3. CASE FlushRemove(u)
      BY <3>1, <3>3 DEF FlushRemove, RemoveStep, FlusherPCs, videoVars
    <3>4. CASE FlushWait(u) \/ FlushSpuriousWake(u)
      BY <3>1, <3>4 DEF FlushWait, FlushSpuriousWake, RemoveStep, videoVars
    <3>5. CASE Blank(u)
      BY <3>1, <3>5 DEF Blank, FlusherPCs
    <3> QED BY <2>1, <3>2, <3>3, <3>4, <3>5 DEF FlushLoop
  <2>2. CASE Own
    BY <2>2 DEF FFMpeg, Toolbox, Reset, FreeDecoder, FreeStep, LockToFlush,
                InvalidateSession, FlusherPCs, videoVars, toolboxVars, parameterVars
  <2> QED BY <1>1, <2>1, <2>2
<1> HIDE DEF Loop, Own
<1>3. /\ PCsTyped'
      /\ \A t \in Threads \ {u} : pc'[t] = pc[t]
      /\ pc'[u] = pc[u] \/ pc'[u] \in FlusherPCs
  <2>1. CASE UNCHANGED pc
    BY <2>1 DEF Typed, PCsTyped
  <2>2. ASSUME NEW l \in FlusherPCs, Goto(u, l)
        PROVE  /\ PCsTyped' /\ pc'[u] = l
               /\ \A t \in Threads \ {u} : pc'[t] = pc[t]
    BY <2>2, GotoTyped DEF Typed, PCsTyped, Goto
  <2> QED BY <1>2, <2>1, <2>2
<1>4. CASE UNCHANGED queueVars
  <2>1. Typed' /\ (AddingNewest => AddingNewest' /\ Moves /\ Pushed' = Pushed)
    BY <1>2, <1>3, <1>4, OtherStep, QuietMoves DEF Rests
  <2> QED BY <1>2, <1>3, <1>4, <2>1 DEF queueVars, AddersCounted, Adding
<1>5. CASE RemoveStep(u)
  <2>1. QueueTyped'
    BY <1>5, RemoveTyped DEF Typed, QueueTyped
  <2>2. Typed'
    BY <1>2, <1>3, <2>1 DEF Typed, QueueTyped, CountsTyped
  <2>3. AddingNewest => AddingNewest' /\ Moves /\ Pushed' = Pushed
    BY <1>2, <1>5, RemoveMoves DEF Moves, Goes, Rests
  <2>4. /\ item'[Worker] = item[Worker]
        /\ \A f \in Feeders : at'[f] = at[f]
    BY <1>5 DEF RemoveStep, RemoveTake, RemoveForgotten, Take, RemoveNull, RemoveWait, Park,
                SpuriousWake, Typed, QueueTypeOK
  <2>5. AddersCounted => AddersCounted'
    BY <1>2, <2>4 DEF AddersCounted, Adding
  <2> QED BY <1>2, <1>3, <2>2, <2>3, <2>4, <2>5
<1> QED BY <1>2, <1>4, <1>5

-----------------------------------------------------------------------------
\* Who takes, keeps or leaves mMutex in a step that moves the threads of M only.
LEMMA LockStep ==
  ASSUME LockInv, NEW t \in Lockers, UNCHANGED videoDecoder,
         \A s \in Lockers \ {t} : pc'[s] \in Places <=> pc[s] \in Places,
         \/ mMutex' = mMutex /\ (pc'[t] \in Places <=> pc[t] \in Places)
         \/ Free /\ mMutex' = {t} /\ pc'[t] \in Places
         \/ pc[t] \in Places /\ pc'[t] \notin Places /\ mMutex' = {}
  PROVE  LockInv'
BY DEF LockInv, Places, Free

LEMMA SharedIInv == ASSUME IInv, SharedStep PROVE IInv'
<1> USE ThreadFacts, LockerFacts DEF IInv
<1>1. ThreadStep /\ UNCHANGED <<videoVars, codecVars, toolboxVars, videoDecoder>>
  BY SharedFacts DEF SharedStep, othersVars
<1>2. Typed' /\ PacketTyped' /\ AddersCounted'
  BY <1>1, StepTyped, StepPacketTyped, StepAddersCounted
<1>3. /\ \A t \in Threads \ {Worker} : pc'[t] = pc[t]
      /\ pc'[Worker] \in Places <=> pc[Worker] \in Places
      /\ pc'[Worker] \in Places => pc'[Worker] = pc[Worker]
  BY SharedPCs
<1>4. VideoTyped'
  BY <1>1, <1>3 DEF VideoTyped, videoVars
<1>5. CodecTypeOK(Items)' /\ ToolboxInv' /\ (videoDecoder \in Decoders)'
  BY <1>1 DEF CodecTypeOK, codecVars, ToolboxInv, ToolboxTypeOK, FormatInv, toolboxVars
<1>6. LockInv'
  <2>1. \A s \in Lockers \ {Worker} : pc'[s] \in Places <=> pc[s] \in Places
    BY <1>3
  <2> QED BY <1>1, <1>3, <2>1, LockStep DEF videoVars
<1>7. DecodeInv'
  BY <1>1, <1>3 DEF DecodeInv, CanDecode, Places, codecVars, toolboxVars
<1> QED BY <1>2, <1>4, <1>5, <1>6, <1>7

LEMMA OwnerIInv == ASSUME IInv, OwnerStep PROVE IInv'
<1> USE ThreadFacts, LockerFacts DEF IInv
<1>1. /\ ThreadStep
      /\ UNCHANGED <<screen, shown, flushed, spared, mFormat, parameterVars, videoDecoder>>
      /\ UNCHANGED codecVars \/ (Joined /\ FreeCodec)
      /\ mSession' \in {mSession, {}}
      /\ \/ videoDecoder = "ffmpeg" /\ UNCHANGED mMutex
         \/ (StartThread \/ ShutdownNotify \/ Join) /\ UNCHANGED mMutex
         \/ videoDecoder # "ffmpeg" /\ Shutdown /\ Free /\ mMutex' = {Owner}
         \/ videoDecoder # "ffmpeg" /\ Joined /\ mMutex' = {}
  BY OwnerKinds
<1>2. Typed' /\ PacketTyped' /\ AddersCounted'
  BY <1>1, StepTyped, StepPacketTyped, StepAddersCounted
<1>3. /\ \A t \in Threads \ {Worker, Owner} : pc'[t] = pc[t]
      /\ pc'[Worker] = pc[Worker] \/ (pc[Worker] = "none" /\ pc'[Worker] = "test")
      /\ Joined => pc'[Worker] = "exited"
      /\ StartThread \/ ShutdownNotify \/ Join =>
           (pc'[Owner] \in Places <=> pc[Owner] \in Places)
      /\ Shutdown => pc'[Owner] = "stop"
      /\ Joined => pc'[Owner] \notin Places
      /\ pc'[Owner] # "decode"
  BY OwnerPCsStep
<1>4. VideoTyped'
  BY <1>1, <1>3 DEF VideoTyped
<1>5. CodecTypeOK(Items)' /\ ToolboxInv' /\ (videoDecoder \in Decoders)'
  <2>1. CodecTypeOK(Items)'
    BY <1>1, EmptySeq DEF CodecTypeOK, codecVars, FreeCodec
  <2> QED BY <1>1, <2>1 DEF ToolboxInv, ToolboxTypeOK, FormatInv, parameterVars
<1>6. LockInv'
  <2>1. \A s \in Lockers \ {Owner} : pc'[s] \in Places <=> pc[s] \in Places
    BY <1>3 DEF Places
  <2>2. CASE videoDecoder = "ffmpeg" /\ UNCHANGED mMutex
    BY <1>1, <1>3, <2>1, <2>2, LockStep DEF Places, Typed, PCsTyped, OwnerPCs
  <2>3. CASE videoDecoder # "ffmpeg" /\ Joined /\ mMutex' = {}
    <3>1. pc[Owner] \in Places /\ pc'[Owner] \notin Places
      BY <1>3, <2>3 DEF Joined, Places
    <3> QED BY <1>1, <2>1, <2>3, <3>1, LockStep
  <2>4. CASE videoDecoder # "ffmpeg" /\ Shutdown /\ Free /\ mMutex' = {Owner}
    BY <1>1, <1>3, <2>1, <2>4, LockStep DEF Places
  <2>5. CASE (StartThread \/ ShutdownNotify \/ Join) /\ UNCHANGED mMutex
    BY <1>1, <1>3, <2>1, <2>5, LockStep
  <2> QED BY <1>1, <2>2, <2>3, <2>4, <2>5
<1>7. DecodeInv'
  BY <1>1, <1>3 DEF DecodeInv, CanDecode, codecVars, parameterVars
<1> QED BY <1>2, <1>4, <1>5, <1>6, <1>7

LEMMA ProcessIInv == ASSUME IInv, ProcessStep PROVE IInv'
<1> USE ThreadFacts, LockerFacts DEF IInv
<1>1. /\ Typed'
      /\ UNCHANGED <<queueVars, mShouldStop, received, obsolete, flushed, spared,
                     videoDecoder>>
      /\ Processing
      /\ \A t \in Threads \ {Worker} : pc'[t] = pc[t]
      /\ pc'[Worker] \in {"decode", "size"}
  BY ProcessKeeps
<1>2. item[Worker] \in Items
  BY <1>1 DEF PacketTyped
<1>3. PacketTyped' /\ AddersCounted'
  BY <1>1, <1>2 DEF PacketTyped, AddersCounted, Adding, queueVars
<1>4. /\ CodecTypeOK(Items)'
      /\ {screen', shown'} \subseteq Items \cup {Null}
  <2>1. CASE OpenDecoder
    BY <2>1 DEF OpenDecoder, OpenCodec, CodecTypeOK, VideoTyped
  <2>2. CASE DecodePacket
    BY <1>2, <2>2, CodecStepTyped DEF DecodePacket, Show, CodecTypeOK, VideoTyped
  <2>3. CASE Toolbox /\ (TakePacket \/ ShortPacket \/ BeginPicture)
    BY <2>3 DEF Toolbox, TakePacket, ShortPacket, BeginPicture, CodecTypeOK, VideoTyped,
                codecVars, videoVars
  <2>4. CASE Toolbox /\ DecodePicture
    BY <1>2, <2>4 DEF Toolbox, DecodePicture, Show, CodecTypeOK, VideoTyped, codecVars
  <2> QED BY <2>1, <2>2, <2>3, <2>4 DEF ProcessStep
<1>5. \/ pc[Worker] = "process" /\ Free /\ mMutex' = {Worker} /\ pc'[Worker] = "decode"
      \/ pc[Worker] = "process" /\ mMutex' = mMutex /\ pc'[Worker] = "size"
      \/ pc[Worker] = "decode" /\ mMutex' = {} /\ pc'[Worker] = "size"
  BY DEF ProcessStep, OpenDecoder, DecodePacket, TakePacket, ShortPacket, BeginPicture,
         DecodePicture, Goto, Typed, PCsTyped, videoVars
<1>6. VideoTyped'
  BY <1>1, <1>4, <1>5 DEF VideoTyped
<1>7. LockInv'
  <2>1. \A s \in Lockers \ {Worker} : pc'[s] \in Places <=> pc[s] \in Places
    BY <1>1
  <2> QED BY <1>1, <1>5, <2>1, LockStep DEF Places
<1>8. ToolboxInv'
  <2>1. CASE FFMpeg \/ (Toolbox /\ (ShortPacket \/ DecodePicture))
    BY <2>1 DEF ProcessStep, FFMpeg, ShortPacket, DecodePicture, toolboxVars, ToolboxInv,
                ToolboxTypeOK, FormatInv
  <2>2. CASE BeginPicture
    <3>1. UNCHANGED <<mFormat, parameterVars>> /\ CanDecode
          /\ mSession' \in {mSession, {}, {mFormat}}
      BY <2>2 DEF BeginPicture, CreateSession
    <3> QED BY <3>1 DEF ToolboxInv, ToolboxTypeOK, FormatInv, CanDecode, parameterVars
  <2>3. CASE TakePacket
    <3>1. CASE TakeSps
      BY <1>2, <3>1 DEF TakeSps, ToolboxInv, ToolboxTypeOK, FormatInv
    <3>2. CASE TakePps
      <4>1. CASE waitingForSps
        BY <1>2, <3>2, <4>1 DEF TakePps, ToolboxInv, ToolboxTypeOK, FormatInv
      <4>2. CASE ~waitingForSps
        <5>1. <<spsData, item[Worker]>> \in Formats
          BY <1>2, <4>2 DEF Formats, ToolboxInv, FormatInv
        <5>2. mFormat' = <<spsData, item[Worker]>> =>
                mSession' \in {{}, {mFormat'}, mSession \cup {mFormat'}}
          BY <3>2, <4>2, <5>1 DEF TakePps, AcceptFormat, CreateSession
        <5>3. mFormat' = <<>> \/ mFormat' = <<spsData, item[Worker]>>
          BY <3>2, <4>2 DEF TakePps
        <5>4. mFormat' = <<>> => mSession' = mSession
          BY <3>2, <4>2 DEF TakePps
        <5>5. ppsData' = item[Worker] /\ UNCHANGED <<spsData, waitingForSps>>
              /\ waitingForPps' = FALSE
          BY <3>2 DEF TakePps
        <5> QED BY <1>2, <5>1, <5>2, <5>3, <5>4, <5>5
                DEF ToolboxInv, ToolboxTypeOK, FormatInv
      <4> QED BY <4>1, <4>2
    <3>3. CASE SkipPacket
      BY <3>3 DEF SkipPacket, toolboxVars, ToolboxInv, ToolboxTypeOK, FormatInv
    <3> QED BY <2>3, <3>1, <3>2, <3>3 DEF TakePacket
  <2> QED BY <2>1, <2>2, <2>3 DEF ProcessStep
<1>9. DecodeInv'
  <2>1. CASE pc'[Worker] = "size"
    BY <2>1 DEF DecodeInv
  <2>2. CASE OpenDecoder /\ FFMpeg /\ pc'[Worker] # "size"
    BY <1>1, <2>2 DEF OpenDecoder, DecodeInv, Goto, Typed, PCsTyped, FFMpeg
  <2>3. CASE BeginPicture /\ Toolbox
    BY <1>1, <2>3 DEF BeginPicture, DecodeInv, CanDecode, Toolbox, parameterVars
  <2>4. pc'[Worker] = "size" \/ (OpenDecoder /\ FFMpeg) \/ (BeginPicture /\ Toolbox)
    BY DEF ProcessStep, DecodePacket, TakePacket, ShortPacket, DecodePicture, Goto,
           Typed, PCsTyped
  <2> QED BY <2>1, <2>2, <2>3, <2>4
<1> QED BY <1>1, <1>3, <1>4, <1>6, <1>7, <1>8, <1>9

LEMMA ResetIInv == ASSUME IInv, NEW u \in Flushers, ResetStep(u) PROVE IInv'
<1> USE ThreadFacts, LockerFacts DEF IInv
<1>1. /\ Typed' /\ AddersCounted'
      /\ UNCHANGED <<mShouldStop, received, obsolete, shown, mFormat, parameterVars,
                     videoDecoder>>
      /\ item'[Worker] = item[Worker]
      /\ \A t \in Threads \ {u} : pc'[t] = pc[t]
      /\ pc'[u] = pc[u] \/ pc'[u] \in FlusherPCs
  BY ResetKeeps
<1>2. Pushed \in 0..MaxItems
  <2>1. received \in 0..MaxItems /\ MaxItems \in Nat /\ (Adding => received # 0)
    BY CountFacts DEF Typed, CountsTyped, AddersCounted
  <2> QED BY <2>1 DEF Pushed
<1>3. /\ screen' \in {screen, Null}
      /\ \/ UNCHANGED <<flushed, spared>>
         \/ flushed' = Pushed /\ spared' = InHand
      /\ held' \in {held, <<>>}
      /\ valid' = valid \/ (valid' = FALSE /\ Free)
      /\ mSession' \in {mSession, {}}
  BY DEF ResetStep, StartReset, FlushStep, FFMpegFlush, ToolboxFlush, FFMpeg, Toolbox,
         FlushLoop, Reset, FlushSize, FlushRemove, FlushWait, FlushSpuriousWake, Blank,
         FreeDecoder, FreeStep, FreeCodec, LockToFlush, InvalidateSession,
         othersVars, videoVars, codecVars, toolboxVars
<1>4. \/ mMutex' = mMutex /\ (pc'[u] \in Places <=> pc[u] \in Places)
      \/ Free /\ mMutex' = {u} /\ pc'[u] \in Places
      \/ pc[u] \in Places /\ pc'[u] \notin Places /\ mMutex' = {}
  <2> USE DEF Places, Goto, Typed, PCsTyped
  <2>1. CASE FlushSize(u)
    BY <2>1, <1>1 DEF FlushSize, ResetStep
  <2>2. CASE FlushRemove(u) \/ Blank(u)
    BY <2>2 DEF FlushRemove, Blank, videoVars
  <2>3. CASE FlushWait(u) \/ FlushSpuriousWake(u)
    BY <2>3 DEF FlushWait, FlushSpuriousWake, videoVars
  <2>4. CASE FFMpeg /\ Reset(u, "flushSize")
    BY <2>4 DEF FFMpeg, Reset, videoVars
  <2>5. CASE Toolbox /\ Reset(u, "lock")
    BY <2>5 DEF Toolbox, Reset, videoVars
  <2>6. CASE FFMpeg /\ FreeDecoder(u)
    BY <2>6 DEF FFMpeg, FreeDecoder, FreeStep, videoVars
  <2>7. CASE Toolbox /\ LockToFlush(u)
    BY <2>7 DEF Toolbox, LockToFlush
  <2>8. CASE Toolbox /\ InvalidateSession(u)
    BY <2>8 DEF Toolbox, InvalidateSession
  <2> QED BY <2>1, <2>2, <2>3, <2>4, <2>5, <2>6, <2>7, <2>8
          DEF ResetStep, StartReset, FlushStep, FFMpegFlush, ToolboxFlush, FlushLoop
<1>5. pc'[Worker] = pc[Worker]
  BY <1>1
<1>6. PacketTyped'
  BY <1>1, <1>5 DEF PacketTyped, Processing
<1>7. VideoTyped'
  <2>1. \A v \in Flushers : pc'[v] \in FlusherPCs
    BY <1>1 DEF VideoTyped
  <2>2. InHand \in Items \cup {Null}
    BY DEF InHand, PacketTyped, Processing
  <2>3. mMutex' \in {{}} \cup {{t} : t \in Threads}
    BY <1>4 DEF VideoTyped
  <2> QED BY <1>1, <1>2, <1>3, <2>1, <2>2, <2>3 DEF VideoTyped
<1>8. CodecTypeOK(Items)'
  BY <1>3, EmptySeq DEF CodecTypeOK
<1>9. ToolboxInv'
  BY <1>1, <1>3 DEF ToolboxInv, ToolboxTypeOK, FormatInv, parameterVars
<1>10. LockInv'
  <2>1. \A s \in Lockers \ {u} : pc'[s] \in Places <=> pc[s] \in Places
    BY <1>1
  <2> QED BY <1>1, <1>4, <2>1, LockStep
<1>11. DecodeInv'
  <2>1. pc[Worker] = "decode" => ~Free
    BY DEF LockInv, Places, Free
  <2> QED BY <1>1, <1>3, <1>5, <2>1 DEF DecodeInv, CanDecode, parameterVars
<1> QED BY <1>1, <1>6, <1>7, <1>8, <1>9, <1>10, <1>11

LEMMA NextIInv == IInv /\ [Next]_vars => IInv'
<1> SUFFICES ASSUME IInv, [Next]_vars PROVE IInv'
  OBVIOUS
<1>1. CASE UNCHANGED vars
  <2>1. UNCHANGED <<queueVars, pc, mShouldStop, received, obsolete, mMutex, screen, shown,
                    flushed, spared, valid, held, mSession, mFormat, parameterVars, videoDecoder>>
    BY <1>1 DEF vars, threadVars, videoVars, codecVars, toolboxVars, parameterVars
  <2>2. Typed'
    BY <2>1, OtherStep DEF IInv, Typed, PCsTyped
  <2>3. PacketTyped' /\ AddersCounted'
    BY <2>1 DEF IInv, PacketTyped, Processing, AddersCounted, Adding, queueVars
  <2>4. VideoTyped' /\ CodecTypeOK(Items)' /\ ToolboxInv'
    BY <2>1 DEF IInv, VideoTyped, CodecTypeOK, ToolboxInv, ToolboxTypeOK, FormatInv,
                parameterVars
  <2>5. LockInv' /\ DecodeInv'
    BY <2>1 DEF IInv, LockInv, Places, DecodeInv, CanDecode, parameterVars
  <2> QED BY <2>1, <2>2, <2>3, <2>4, <2>5 DEF IInv
<1> QED BY <1>1, StepKinds, SharedIInv, OwnerIInv, ProcessIInv, ResetIInv

\* The inductive invariant holds in every reachable state.
THEOREM Invariance == Spec => []IInv
BY InitIInv, NextIInv, PTL DEF Spec

\* Every variable has its type, for any number of threads and packets.
THEOREM TypeCorrect == Spec => []TypeOK
<1>1. IInv => TypeOK
  BY TypedImpliesTypeOK DEF IInv, VideoTyped, ToolboxInv, VideoTypeOK, TypeOK
<1> QED BY Invariance, <1>1, PTL

\* mMutex is held by the thread that is where the decoder in use holds it, which is one
\* at most; no path through the code leaves that place with mMutex still held.
MutexHeldByOne ==
  /\ \A s, t \in Lockers : pc[s] \in Places /\ pc[t] \in Places => s = t
  /\ mMutex # {} => \E t \in Lockers : mMutex = {t} /\ pc[t] \in Places

THEOREM MutualExclusion == Spec => []MutexHeldByOne
<1>1. IInv => MutexHeldByOne
  BY DEF IInv, LockInv, MutexHeldByOne
<1> QED BY Invariance, <1>1, PTL

\* No reset frees the codec between the worker's check of it and the end of the decoding.
THEOREM CodecSafe == Spec => []CodecStaysValid
<1>1. IInv => CodecStaysValid
  BY DEF IInv, DecodeInv, CodecStaysValid
<1> QED BY Invariance, <1>1, PTL

\* VideoToolbox never decodes with a format or a session of other parameter sets.
THEOREM SessionAlwaysFits == Spec => []SessionFits
<1>1. IInv => SessionFits
  BY DEF IInv, DecodeInv, CanDecode, ToolboxInv, FormatInv, SessionFits
<1> QED BY Invariance, <1>1, PTL

-----------------------------------------------------------------------------
\* The end of a decoder.  The codec and the session of the implementation that is not in
\* use are never made; after Shutdown() has invalidated the session mMutex, which it
\* holds, keeps the worker from making another; and the worker is gone before the decoder.
EndInv ==
  /\ videoDecoder # "ffmpeg" => ~valid
  /\ videoDecoder # "VideoToolbox" => mSession = {}
  /\ pc[Owner] = "joining" => mSession = {}
  /\ pc[Owner] = "destroyed" => pc[Worker] = "exited" /\ ~valid /\ mSession = {}

\* The worker makes no session while Shutdown() waits for it.
LEMMA NoSessionMade ==
  ASSUME IInv, ProcessStep, pc[Owner] = "joining"
  PROVE  mSession' = mSession
<1> USE LockerFacts DEF IInv
<1>1. CASE FFMpeg
  BY <1>1 DEF FFMpeg, toolboxVars
<1>2. CASE Toolbox
  <2>1. mMutex = {Owner} /\ Worker # Owner
    BY <1>2, DecoderAssumption DEF Toolbox, LockInv, Places
  <2>2. ~Free /\ pc[Worker] # "decode"
    BY <1>2, <2>1 DEF Free, LockInv, Places, Toolbox
  <2> QED BY <1>2, <2>2 DEF ProcessStep, FFMpeg, Toolbox, TakePacket, ShortPacket, BeginPicture,
                            DecodePicture, toolboxVars
<1> QED BY <1>1, <1>2 DEF ProcessStep

LEMMA NextEndInv == ASSUME IInv, EndInv, [Next]_vars PROVE EndInv'
<1> USE ThreadFacts, LockerFacts DEF EndInv
<1>1. CASE SharedStep
  <2>1. pc[Worker] = "exited" => pc'[Worker] = "exited"
    BY <1>1 DEF SharedStep, RunStep, TestStop, Remove, WorkerWait, CheckOverload, DropSize,
                DropTo, Drop, WorkerSpuriousWake, FeederStep, Input, InputPush
  <2>2. pc'[Owner] = pc[Owner] /\ UNCHANGED <<valid, mSession, videoDecoder>>
    BY <1>1, SharedPCs DEF IInv, SharedStep, othersVars, codecVars, toolboxVars
  <2> QED BY <2>1, <2>2
<1>2. CASE OwnerStep
  <2> USE DEF Goto, IInv, Typed, PCsTyped
  <2>1. CASE FFMpeg
    <3>1. mSession' = {} /\ videoDecoder' = "ffmpeg"
      BY <2>1 DEF FFMpeg, toolboxVars
    <3>2. CASE Joined /\ FreeCodec
      BY <3>1, <3>2 DEF Joined, FreeCodec
    <3>3. CASE StartThread \/ Shutdown \/ ShutdownNotify \/ Join
      BY <3>1, <3>3 DEF StartThread, Shutdown, ShutdownNotify, Join
    <3> QED BY <1>2, <2>1, <3>2, <3>3 DEF OwnerStep, FFMpegOwner, FFMpeg, Toolbox
  <2>2. CASE Toolbox
    <3>1. ~valid' /\ videoDecoder' = "VideoToolbox"
      BY <2>2 DEF Toolbox, codecVars
    <3>2. CASE Joined /\ UNCHANGED mSession
      BY <3>1, <3>2 DEF Joined
    <3>3. CASE Join /\ mSession' = {}
      BY <3>1, <3>3 DEF Join
    <3>4. CASE StartThread \/ Shutdown \/ ShutdownNotify
      BY <3>1, <3>4 DEF StartThread, Shutdown, ShutdownNotify
    <3> QED BY <1>2, <2>2, <3>2, <3>3, <3>4 DEF OwnerStep, ToolboxOwner, FFMpeg, Toolbox
  <2> QED BY <1>2, <2>1, <2>2 DEF OwnerStep
<1>3. CASE ProcessStep
  <2>1. pc[Worker] # "exited" /\ pc'[Owner] = pc[Owner] /\ UNCHANGED videoDecoder
    BY <1>3, ProcessKeeps DEF IInv, Processing
  <2>2. videoDecoder # "ffmpeg" => UNCHANGED valid
    BY <1>3 DEF ProcessStep, FFMpeg, Toolbox, codecVars
  <2>3. videoDecoder # "VideoToolbox" => UNCHANGED mSession
    BY <1>3 DEF ProcessStep, FFMpeg, Toolbox, toolboxVars
  <2> QED BY <1>3, <2>1, <2>2, <2>3, NoSessionMade
<1>4. ASSUME NEW u \in Flushers, ResetStep(u) PROVE EndInv'
  <2>1. (\A t \in Threads \ {u} : pc'[t] = pc[t]) /\ UNCHANGED videoDecoder
    BY <1>4, ResetKeeps DEF IInv
  <2>2. (~valid => ~valid') /\ (mSession = {} => mSession' = {})
    BY <1>4 DEF ResetStep, StartReset, FlushStep, FFMpegFlush, ToolboxFlush, FFMpeg, Toolbox,
                FlushLoop, Reset, FlushSize, FlushRemove, FlushWait, FlushSpuriousWake, Blank,
                FreeDecoder, FreeStep, FreeCodec, LockToFlush, InvalidateSession,
                othersVars, codecVars, toolboxVars
  <2>3. pc'[Owner] = pc[Owner] /\ pc'[Worker] = pc[Worker]
    BY <2>1
  <2> QED BY <2>1, <2>2, <2>3
<1>5. CASE UNCHANGED vars
  BY <1>5 DEF vars, threadVars, codecVars, toolboxVars
<1> QED BY <1>1, <1>2, <1>3, <1>4, <1>5, StepKinds

LEMMA EndInvariance == Spec => []EndInv
<1>1. Init => EndInv
  BY ThreadFacts DEF Init, VideoInit, ThreadInit, CodecInit, ToolboxInit, EndInv
<1> QED BY Invariance, NextEndInv, <1>1, PTL DEF Spec

\* However many resets run into the shutdown, codec and session of a destroyed decoder
\* are freed.
THEOREM EndsClean == Spec => []EndsFreed
<1>1. EndInv => EndsFreed
  BY DEF EndInv, EndsFreed
<1> QED BY EndInvariance, <1>1, PTL

-----------------------------------------------------------------------------
\* The order of the packets, for feeders that take turns.

\* What may be shown after the flush.
Fresh(x) == x > flushed \/ x = spared

FlushInv ==
  /\ flushed <= Pushed /\ AllAbove(m_queue, flushed)
  /\ Processing => Fresh(item[Worker])
  /\ (\A u \in Flushers : pc[u] # "free") => \A x \in Elements(held) : Fresh(x)
  /\ FlushedIsGone

\* The codec of ffmpeg is not used by VideoToolbox.
Unused == videoDecoder # "ffmpeg" => held = <<>>

OrderInv ==
  /\ IInv /\ AddingNewest /\ Ordered
  /\ shown \in Nat /\ Follows(shown) /\ CodecOrdered(shown)
  /\ Unused /\ FlushInv

LEMMA InitOrderInv == Init => OrderInv
<1> SUFFICES ASSUME Init PROVE OrderInv
  OBVIOUS
<1>1. ThreadInit /\ shown = 0 /\ screen = Null /\ flushed = 0 /\ held = <<>>
  BY CountFacts DEF Init, VideoInit, CodecInit
<1>2. m_queue = <<>> /\ Len(m_queue) = 0
  BY <1>1, EmptySeq DEF ThreadInit, QueueInit
<1>3. ~Adding /\ received = 0 /\ ~Processing
  BY <1>1, ThreadFacts DEF ThreadInit, QueueInit, Adding, Processing
<1>4. Follows(shown) /\ CodecOrdered(shown)
  BY <1>1, <1>2, <1>3, EmptyCodecOrdered DEF Follows, Pushed, AllAbove
<1>5. FlushInv
  <2>1. Elements(held) = {}
    BY <1>1, <1>2 DEF Elements
  <2> QED BY <1>1, <1>2, <1>3, <2>1 DEF FlushInv, Pushed, AllAbove, FlushedIsGone
<1> QED BY <1>1, <1>4, <1>5, InitIInv, InitOrdered DEF OrderInv, Unused

LEMMA OrderFacts ==
  ASSUME OrderInv
  PROVE  /\ Typed /\ shown \in Nat /\ flushed \in Nat /\ obsolete \in Nat
         /\ Pushed \in Nat /\ m_queue \in Seq(Nat)
         /\ Elements(held) \subseteq Nat
         /\ Processing => item[Worker] \in Nat
<1>1. Typed /\ AddingNewest /\ CountsTyped /\ VideoTyped /\ PacketTyped /\ shown \in Nat
  BY DEF OrderInv, IInv, Typed
<1>2. Pushed \in Nat /\ m_queue \in Seq(Nat)
  BY <1>1, PushedType
<1>3. Elements(held) \subseteq Nat
  BY ElementFacts DEF OrderInv, CodecOrdered
<1> QED BY <1>1, <1>2, <1>3, CountFacts DEF CountsTyped, VideoTyped, PacketTyped

\* A step of the thread, or of its owner, that gives the codec nothing.
LEMMA ThreadOrderInv ==
  ASSUME TakingTurns, OrderInv, IInv', ThreadStep,
         UNCHANGED <<screen, shown, flushed, spared, videoDecoder>>,
         held' = held \/ held' = <<>>,
         \A u \in Flushers : pc'[u] = pc[u]
  PROVE  OrderInv'
<1>1. PICK n \in Nat : shown = n
  BY DEF OrderInv
<1>2. Typed /\ AddingNewest' /\ Ordered' /\ Moves
  BY StepMoves, StepOrdered DEF OrderInv, IInv, Moves
<1>3. \A x \in Nat : Follows(x) => Follows(x)'
  BY StepFollows DEF OrderInv, IInv
<1>4. (Follows(shown) /\ CodecOrdered(shown))'
  <2>1. Follows(n)' /\ CodecOrdered(n)'
    BY <1>1, <1>3, CodecRests DEF OrderInv
  <2> QED BY <1>1, <2>1 DEF Follows, CodecOrdered
<1>5. Unused'
  BY DEF OrderInv, Unused
<1>6. Elements(held') \subseteq Elements(held)
  BY DEF Elements
<1>7. FlushInv'
  <2>1. flushed' <= Pushed' /\ AllAbove(m_queue', flushed')
    <3>1. PICK k \in Nat : flushed = k
      BY OrderFacts
    <3>2. k <= Pushed' /\ AllAbove(m_queue', k)
      BY <1>2, <3>1, MovesAbove, CountFacts DEF OrderInv, FlushInv
    <3> QED BY <3>1, <3>2
  <2>2. Processing' => Fresh(item[Worker])'
    <3>1. m_queue # <<>> => flushed < Head(m_queue)
      BY OrderFacts, CountFacts, TailAbove DEF OrderInv, FlushInv
    <3>2. CASE Processing /\ item'[Worker] = item[Worker]
      BY <3>2 DEF OrderInv, FlushInv, Fresh
    <3>3. CASE m_queue # <<>> /\ item'[Worker] = Head(m_queue)
      <4>1. Head(m_queue) \in Nat
        BY <3>3, OrderFacts
      <4> QED BY <3>1, <3>3, <4>1, OrderFacts DEF Fresh
    <3> QED BY <1>2, <3>2, <3>3, WorkerPacket
  <2>3. ((\A u \in Flushers : pc[u] # "free") => \A x \in Elements(held) : Fresh(x))'
    BY <1>6 DEF OrderInv, FlushInv, Fresh
  <2>4. FlushedIsGone'
    BY DEF OrderInv, FlushInv, FlushedIsGone
  <2> QED BY <2>1, <2>2, <2>3, <2>4 DEF FlushInv
<1> QED BY <1>1, <1>2, <1>4, <1>5, <1>7 DEF OrderInv

LEMMA SharedOrderInv ==
  ASSUME TakingTurns, OrderInv, SharedStep PROVE OrderInv' /\ shown' = shown
<1>1. IInv' /\ ThreadStep
  BY SharedIInv, SharedFacts DEF OrderInv
<1>2. \A u \in Flushers : pc'[u] = pc[u]
  BY SharedPCs, LockerFacts DEF OrderInv, IInv
<1> QED BY <1>1, <1>2, ThreadOrderInv DEF SharedStep, othersVars, videoVars, codecVars

LEMMA OwnerOrderInv ==
  ASSUME TakingTurns, OrderInv, OwnerStep PROVE OrderInv' /\ shown' = shown
<1>1. IInv'
  BY OwnerIInv DEF OrderInv
<1>2. \A u \in Flushers : pc'[u] = pc[u]
  BY OwnerPCsStep, LockerFacts DEF OrderInv, IInv
<1> QED BY <1>1, <1>2, OwnerKinds, ThreadOrderInv DEF codecVars, FreeCodec

\* A picture is output that follows the last one; if no reset is about to free the codec
\* it is none of those that a reset flushed.
NewPicture ==
  /\ shown' > shown /\ screen' = shown'
  /\ (\A u \in Flushers : pc[u] # "free") => Fresh(shown')

LEMMA ProcessOrderInv ==
  ASSUME OrderInv, ProcessStep PROVE OrderInv' /\ (UNCHANGED <<screen, shown>> \/ NewPicture)
<1>1. PICK n \in Nat : shown = n
  BY DEF OrderInv
<1> DEFINE i == item[Worker]
<1>2. /\ Typed'
      /\ UNCHANGED <<queueVars, mShouldStop, received, obsolete, flushed, spared,
                     videoDecoder>>
      /\ Processing /\ ~Dropping /\ ~Dropping'
      /\ \A t \in Threads \ {Worker} : pc'[t] = pc[t]
      /\ pc'[Worker] \in {"decode", "size"}
  BY ProcessKeeps DEF OrderInv, IInv
<1>3. IInv'
  BY ProcessIInv DEF OrderInv
<1>4. AddingNewest' /\ Ordered' /\ m_queue' = m_queue /\ Pushed' = Pushed /\ item' = item
  BY <1>2, OtherStep, QuietMoves DEF OrderInv, IInv, Typed, Rests, queueVars
<1>5. i \in Nat /\ Fresh(i)
  BY <1>2, OrderFacts DEF OrderInv, FlushInv
<1>6. \A x \in Nat : Follows(x) => Follows(x)'
  BY <1>2, <1>4 DEF Follows
<1>7. \A u \in Flushers : pc'[u] = pc[u]
  BY <1>2, LockerFacts
<1>8. \A x : Fresh(x)' <=> Fresh(x)
  BY <1>2 DEF Fresh
<1> HIDE DEF i
\* What is left to show of FlushInv.
<1>9. ASSUME (\A u \in Flushers : pc[u] # "free") =>
               \A x \in Elements(held') \cup ({screen'} \ {screen}) : Fresh(x)
      PROVE  FlushInv'
  <2>1. Processing' => Fresh(item[Worker])'
    BY <1>4, <1>5, <1>8 DEF i
  <2>2. ((\A u \in Flushers : pc[u] # "free") => \A x \in Elements(held) : Fresh(x))'
    BY <1>7, <1>8, <1>9 DEF Elements
  <2>3. FlushedIsGone'
    <3>1. CASE screen' = screen
      BY <1>2, <1>7, <3>1 DEF OrderInv, FlushInv, FlushedIsGone
    <3>2. CASE screen' # screen
      BY <1>2, <1>7, <1>9, <3>2 DEF FlushedIsGone, Fresh
    <3> QED BY <3>1, <3>2
  <2> QED BY <1>2, <1>4, <2>1, <2>2, <2>3 DEF OrderInv, FlushInv
<1>10. Unused'
  BY <1>2 DEF ProcessStep, FFMpeg, Toolbox, codecVars, OrderInv, Unused
<1>11. CASE UNCHANGED <<held, shown, screen>>
  <2>1. Follows(n)' /\ CodecOrdered(n)'
    BY <1>1, <1>6, <1>11, CodecRests DEF OrderInv
  <2>2. (Follows(shown) /\ CodecOrdered(shown))'
    BY <1>1, <1>11, <2>1 DEF Follows, CodecOrdered
  <2>3. FlushInv'
    BY <1>9, <1>11 DEF OrderInv, FlushInv
  <2> QED BY <1>3, <1>4, <1>10, <1>11, <2>2, <2>3 DEF OrderInv
<1>12. ASSUME DecodePacket, held' # held \/ shown' # shown \/ screen' # screen
       PROVE  OrderInv' /\ (UNCHANGED <<screen, shown>> \/ NewPicture)
  <2>1. ~Processing'
    BY <1>12, ThreadFacts DEF DecodePacket, Goto, Processing, OrderInv, IInv, Typed, PCsTyped
  <2>2. /\ Follows(n)'
        /\ NoOutput(i) => CodecOrdered(n)' /\ Elements(held') \subseteq Elements(held) \cup {i}
        /\ \A p : Returned(i, p) =>
             /\ p \in Nat /\ n < p /\ Follows(p)' /\ CodecOrdered(p)'
             /\ {p} \cup Elements(held') \subseteq Elements(held) \cup {i}
    BY <1>1, <1>2, <2>1, CodecTakes DEF OrderInv, IInv, i
  <2>3. (\A u \in Flushers : pc[u] # "free") => \A x \in Elements(held) \cup {i} : Fresh(x)
    BY <1>5 DEF OrderInv, FlushInv
  <2>4. CASE NoOutput(i) /\ UNCHANGED <<screen, shown>>
    <3>1. (Follows(shown) /\ CodecOrdered(shown))'
      BY <1>1, <2>2, <2>4 DEF Follows, CodecOrdered
    <3>2. FlushInv'
      BY <1>9, <2>2, <2>3, <2>4
    <3> QED BY <1>1, <1>3, <1>4, <1>10, <2>4, <3>1, <3>2 DEF OrderInv
  <2>5. ASSUME NEW p \in Items, Returned(i, p), Show(p)
        PROVE  OrderInv' /\ NewPicture
    <3>1. p \in Nat /\ n < p /\ shown' = p /\ screen' = p
      BY <2>2, <2>5 DEF Show
    <3>2. (Follows(shown) /\ CodecOrdered(shown))'
      BY <2>2, <2>5, <3>1 DEF Follows, CodecOrdered
    <3>3. FlushInv'
      BY <1>9, <2>2, <2>3, <2>5, <3>1
    <3>4. NewPicture
      BY <1>1, <2>2, <2>3, <2>5, <3>1 DEF NewPicture
    <3> QED BY <1>3, <1>4, <1>10, <3>1, <3>2, <3>3, <3>4 DEF OrderInv
  <2> QED BY <1>12, <2>4, <2>5 DEF DecodePacket, i
<1>13. ASSUME Toolbox, DecodePicture, Show(i)
       PROVE  OrderInv' /\ NewPicture
  <2>1. held = <<>> /\ held' = held /\ ~Processing'
    BY <1>13, ThreadFacts DEF Toolbox, codecVars, OrderInv, Unused, DecodePicture, Goto,
                              Processing, IInv, Typed, PCsTyped
  <2>2. PICK j \in Nat : i = j
    BY <1>5
  <2>3. n < j /\ Follows(j)'
    BY <1>1, <1>2, <1>4, <2>1, <2>2 DEF OrderInv, Ordered, Follows, i
  <2>4. CodecOrdered(j)'
    <3>1. held' \in Seq(Nat) /\ Len(held') = 0
      BY <2>1, EmptySeq
    <3> QED BY <3>1 DEF CodecOrdered, Increasing, AllAbove, Elements
  <2>5. (Follows(shown) /\ CodecOrdered(shown))'
    BY <1>13, <2>2, <2>3, <2>4 DEF Show, Follows, CodecOrdered
  <2>6. Elements(held') = {}
    BY <2>1, EmptySeq DEF Elements
  <2>7. FlushInv'
    BY <1>5, <1>9, <1>13, <2>6 DEF Show
  <2>8. NewPicture
    <3>1. screen' = i /\ shown' = i /\ shown < i
      BY <1>1, <1>13, <2>2, <2>3 DEF Show
    <3>2. Fresh(shown')
      BY <1>5, <3>1
    <3> QED BY <3>1, <3>2 DEF NewPicture
  <2> QED BY <1>3, <1>4, <1>5, <1>10, <1>13, <2>5, <2>7, <2>8 DEF OrderInv, Show
<1>14. \/ UNCHANGED <<held, shown, screen>>
       \/ DecodePacket
       \/ Toolbox /\ DecodePicture /\ Show(i)
  BY DEF ProcessStep, Toolbox, OpenDecoder, TakePacket, ShortPacket, BeginPicture,
         DecodePicture, codecVars, videoVars, i
<1> QED BY <1>11, <1>12, <1>13, <1>14

\* What a reset does to the picture, the codec and the history.
LEMMA ResetKinds ==
  ASSUME OrderInv, NEW u \in Flushers, ResetStep(u)
  PROVE  \/ /\ UNCHANGED <<flushed, spared, screen>>
            /\ held' = held \/ held' = <<>>
            /\ pc[u] \in {"free", "blank"} => pc'[u] \in {"free", "blank"}
            /\ pc[u] = "free" => pc'[u] = "free" \/ held' = <<>>
         \/ UNCHANGED <<flushed, spared, held>> /\ pc[u] = "blank" /\ screen' = Null
         \/ /\ flushed' = Pushed /\ spared' = InHand /\ UNCHANGED <<screen, held>>
            /\ m_queue = <<>> /\ m_queue' = m_queue /\ Pushed' = Pushed
            /\ pc'[u] = "free"
<1> USE LockerFacts
<1>1. CASE FlushSize(u)
  <2>1. UNCHANGED <<screen, held>> /\ pc[u] = "flushSize"
    BY <1>1 DEF ResetStep, StartReset, FlushStep, FFMpegFlush, ToolboxFlush, Toolbox,
                FlushSize, Reset, FreeDecoder, FreeStep, LockToFlush, InvalidateSession,
                FlushSpuriousWake, othersVars, codecVars
  <2>2. CASE UNCHANGED <<flushed, spared>>
    BY <2>1, <2>2
  <2>3. CASE /\ Size(u, 0) /\ Goto(u, "free")
             /\ flushed' = Pushed /\ spared' = InHand
    <3>1. m_queue = <<>> /\ UNCHANGED queueVars
      BY <2>3, EmptySeq DEF Size, OrderInv, IInv, Typed, QueueTypeOK
    <3>2. Pushed' = Pushed
      BY <3>1, <1>1 DEF FlushSize, Pushed, Adding, queueVars
    <3>3. pc'[u] = "free"
      BY <2>3 DEF Goto, OrderInv, IInv, Typed, PCsTyped
    <3> QED BY <2>1, <2>3, <3>1, <3>2, <3>3 DEF queueVars
  <2> QED BY <1>1, <2>2, <2>3 DEF FlushSize
<1>2. CASE ~FlushSize(u)
  BY <1>2 DEF ResetStep, StartReset, FlushStep, FFMpegFlush, ToolboxFlush, FFMpeg, Toolbox,
         FlushLoop, Reset, FlushRemove, FlushWait, FlushSpuriousWake, Blank,
         FreeDecoder, FreeStep, FreeCodec, LockToFlush, InvalidateSession, Goto,
         othersVars, videoVars, codecVars, OrderInv, Unused, IInv, Typed, PCsTyped
<1> QED BY <1>1, <1>2

LEMMA ResetOrderInv ==
  ASSUME OrderInv, NEW u \in Flushers, ResetStep(u)
  PROVE  OrderInv' /\ shown' = shown
<1>1. PICK n \in Nat : shown = n
  BY DEF OrderInv
<1>2. /\ Typed'
      /\ UNCHANGED <<mShouldStop, received, obsolete, shown, videoDecoder>>
      /\ item'[Worker] = item[Worker]
      /\ AddingNewest' /\ Moves
      /\ \A t \in Threads \ {u} : pc'[t] = pc[t]
  BY ResetKeeps DEF OrderInv, IInv
<1>3. IInv'
  BY ResetIInv DEF OrderInv
<1>4. /\ pc'[Worker] = pc[Worker]
      /\ \A v \in Flushers \ {u} : pc'[v] = pc[v]
  BY <1>2, ThreadFacts, LockerFacts
<1>5. (Processing' <=> Processing) /\ (Dropping' <=> Dropping)
  BY <1>4 DEF Processing, Dropping
<1>6. Ordered'
  BY <1>2, <1>5, CarryOrdered DEF OrderInv, IInv
<1>7. ASSUME NEW x \in Nat, Follows(x) PROVE Follows(x)'
  BY <1>2, <1>5, <1>7, CarryFollows DEF OrderInv, IInv, Follows
<1>8. held' = held \/ held' = <<>>
  BY ResetKinds
<1>9. (Follows(shown) /\ CodecOrdered(shown))'
  <2>1. Follows(n)' /\ CodecOrdered(n)'
    BY <1>1, <1>7, <1>8, CodecRests DEF OrderInv
  <2> QED BY <1>1, <1>2, <2>1 DEF Follows, CodecOrdered
<1>10. Unused'
  BY <1>2, <1>8 DEF OrderInv, Unused
<1>11. FlushInv'
  <2>1. Elements(held') \subseteq Elements(held) /\ (held' = <<>> => Elements(held') = {})
    BY <1>8, EmptySeq DEF Elements
  <2>2. CASE UNCHANGED <<flushed, spared>>
    <3>1. PICK k \in Nat : flushed = k
      BY OrderFacts
    <3>2. k <= Pushed' /\ AllAbove(m_queue', k)
      BY <1>2, <3>1, MovesAbove, CountFacts DEF OrderInv, IInv, FlushInv
    <3>3. flushed' <= Pushed' /\ AllAbove(m_queue', flushed')
      BY <2>2, <3>1, <3>2
    <3>4. Processing' => Fresh(item[Worker])'
      BY <1>2, <1>5, <2>2 DEF OrderInv, FlushInv, Fresh
    <3>5. CASE /\ screen' = screen
               /\ pc[u] \in {"free", "blank"} => pc'[u] \in {"free", "blank"}
               /\ pc[u] = "free" => pc'[u] = "free" \/ held' = <<>>
      <4>1. ((\A v \in Flushers : pc[v] # "free") => \A x \in Elements(held) : Fresh(x))'
        BY <1>4, <2>1, <2>2, <3>5 DEF OrderInv, FlushInv, Fresh
      <4>2. FlushedIsGone'
        BY <1>4, <2>2, <3>5 DEF OrderInv, FlushInv, FlushedIsGone
      <4> QED BY <3>3, <3>4, <4>1, <4>2 DEF FlushInv
    <3>6. CASE screen' = Null /\ held' = held /\ pc[u] = "blank"
      <4>1. ((\A v \in Flushers : pc[v] # "free") => \A x \in Elements(held) : Fresh(x))'
        BY <1>4, <2>1, <2>2, <3>6 DEF OrderInv, FlushInv, Fresh
      <4>2. FlushedIsGone'
        BY <3>6 DEF FlushedIsGone
      <4> QED BY <3>3, <3>4, <4>1, <4>2 DEF FlushInv
    <3>7. CASE flushed' = Pushed /\ spared' = InHand /\ pc'[u] = "free"
      BY <3>3, <3>4, <3>7 DEF FlushInv, FlushedIsGone
    <3> QED BY <3>5, <3>6, <3>7, ResetKinds
  <2>3. CASE /\ flushed' = Pushed /\ spared' = InHand
             /\ m_queue = <<>> /\ m_queue' = m_queue /\ Pushed' = Pushed
             /\ pc'[u] = "free"
    <3>1. flushed' <= Pushed' /\ AllAbove(m_queue', flushed')
      BY <2>3, OrderFacts, EmptySeq DEF AllAbove
    <3>2. Processing' => Fresh(item[Worker])'
      BY <1>2, <1>5, <2>3 DEF Fresh, InHand, Processing
    <3> QED BY <2>3, <3>1, <3>2 DEF FlushInv, FlushedIsGone
  <2> QED BY <2>2, <2>3, ResetKinds
<1> QED BY <1>2, <1>3, <1>6, <1>9, <1>10, <1>11 DEF OrderInv

LEMMA NextOrderInv ==
  ASSUME TakingTurns, OrderInv, [Next]_vars
  PROVE  OrderInv' /\ (shown' # shown => shown' > shown)
<1>1. CASE UNCHANGED vars
  <2>1. UNCHANGED <<queueVars, pc, mShouldStop, received, obsolete, screen, shown,
                    flushed, spared, held, videoDecoder>>
    BY <1>1 DEF vars, threadVars, videoVars, codecVars
  <2>2. PCsTyped' /\ (Processing' <=> Processing) /\ (Dropping' <=> Dropping)
    BY <2>1 DEF OrderInv, IInv, Typed, PCsTyped, Processing, Dropping
  <2>3. AddingNewest' /\ Ordered' /\ m_queue' = m_queue /\ Pushed' = Pushed /\ item' = item
    BY <2>1, <2>2, OtherStep, QuietMoves DEF OrderInv, IInv, Rests, queueVars
  <2>4. IInv'
    BY <1>1, NextIInv DEF OrderInv
  <2>5. (Follows(shown) /\ CodecOrdered(shown))'
    BY <2>1, <2>2, <2>3 DEF OrderInv, Follows, CodecOrdered
  <2>6. Unused' /\ FlushInv'
    BY <2>1, <2>2, <2>3 DEF OrderInv, Unused, FlushInv, FlushedIsGone, Fresh
  <2> QED BY <2>1, <2>3, <2>4, <2>5, <2>6 DEF OrderInv
<1> QED BY <1>1, StepKinds, SharedOrderInv, OwnerOrderInv, ProcessOrderInv, ResetOrderInv
        DEF NewPicture

\* While the feeders take turns, the invariant of the order holds.
THEOREM OrderInvariance == Spec /\ []FeedersTakeTurns => []OrderInv
<1>1. FeedersTakeTurns /\ FeedersTakeTurns' /\ OrderInv /\ [Next]_vars => OrderInv'
  BY NextOrderInv DEF TakingTurns
<1> QED BY InitOrderInv, <1>1, PTL DEF Spec

\* After an overload no packet is decoded that was queued when it was noticed, whatever
\* resets take out of the queue meanwhile.
THEOREM CatchesUp == Spec /\ []FeedersTakeTurns => []CaughtUp
<1>1. OrderInv => CaughtUp
  <2> SUFFICES ASSUME OrderInv, Processing PROVE item[Worker] > obsolete
    BY DEF CaughtUp, Processing
  <2> QED BY OrderFacts DEF OrderInv, Ordered
<1> QED BY OrderInvariance, <1>1, PTL

\* Pictures are output in the order of the packets.
THEOREM ShowsInOrder == Spec /\ []FeedersTakeTurns => PicturesInOrder
<1>1. FeedersTakeTurns /\ FeedersTakeTurns' /\ OrderInv /\ [Next]_vars
        => [shown' # shown => shown' > shown]_vars
  BY NextOrderInv DEF TakingTurns
<1> QED BY OrderInvariance, <1>1, PTL DEF Spec, PicturesInOrder

\* However many resets run at once, what the last of them flushed is not shown after it
\* cleared the picture, but for the packet the worker had in hand.
THEOREM FlushIsFinal == Spec /\ []FeedersTakeTurns => []FlushedIsGone
<1>1. OrderInv => FlushedIsGone
  BY DEF OrderInv, FlushInv
<1> QED BY OrderInvariance, <1>1, PTL

-----------------------------------------------------------------------------
\* The stream of pictures.

\* A step of a reset moves it through the phases of the stream, or leaves it alone.
LEMMA ResetPhases ==
  ASSUME OrderInv, NEW u \in Flushers, ResetStep(u)
  PROVE  \/ Phase(u)' = Phase(u) /\ UNCHANGED <<screen, flushed, spared>>
         \/ /\ Phase(u) = "idle" /\ Phase(u)' = "called"
            /\ UNCHANGED <<screen, flushed, spared>>
         \/ /\ Phase(u) = "called" /\ Phase(u)' = "drawn"
            /\ flushed' = Pushed /\ spared' = InHand /\ UNCHANGED screen
         \/ /\ Phase(u) = "drawn" /\ Phase(u)' = "settled"
            /\ UNCHANGED <<screen, flushed, spared>>
         \/ /\ Phase(u) = "settled" /\ Phase(u)' = "idle"
            /\ screen' = Null /\ UNCHANGED <<flushed, spared>>
<1> USE LockerFacts DEF Phase
<1>1. ASSUME NEW l, Goto(u, l) PROVE pc'[u] = l
  BY <1>1 DEF Goto, OrderInv, IInv, Typed, PCsTyped
<1>2. CASE StartReset(u)
  BY <1>1, <1>2 DEF StartReset, Reset, videoVars
<1>3. CASE FlushSize(u)
  <2>1. UNCHANGED screen /\ pc[u] = "flushSize"
    BY <1>3 DEF FlushSize
  <2> QED BY <1>1, <1>3, <2>1 DEF FlushSize
<1>4. CASE FlushRemove(u) \/ FlushWait(u) \/ FlushSpuriousWake(u)
  BY <1>1, <1>4 DEF FlushRemove, FlushWait, FlushSpuriousWake, videoVars
<1>5. CASE Blank(u)
  BY <1>1, <1>5 DEF Blank
<1>6. CASE FreeDecoder(u) \/ LockToFlush(u) \/ InvalidateSession(u)
  BY <1>1, <1>6 DEF FreeDecoder, FreeStep, LockToFlush, InvalidateSession, videoVars
<1> QED BY <1>2, <1>3, <1>4, <1>5, <1>6
        DEF ResetStep, FlushStep, FFMpegFlush, ToolboxFlush, FlushLoop

\* Nothing arrives in a step of the owner.
LEMMA SameCount == ASSUME Typed, OwnerStep PROVE Pushed' = Pushed
<1>1. UNCHANGED received
  BY DEF OwnerStep, FFMpegOwner, ToolboxOwner, StartThread, Shutdown, ShutdownNotify, Join,
         Joined
<1>2. UNCHANGED <<at, item>> \/ StopSet(Owner) \/ StopNotify(Owner)
  BY DEF OwnerStep, FFMpegOwner, ToolboxOwner, StartThread, Shutdown, ShutdownNotify, Join,
         Joined, queueVars
<1>3. \A f \in Feeders : (at'[f] = "adding" <=> at[f] = "adding") /\ item'[f] = item[f]
  BY <1>2, ThreadFacts DEF StopSet, StopNotify, NotifyAll, Typed, QueueTypeOK
<1> QED BY <1>1, <1>3, SameAdders

\* The steps of the threads are steps of the stream, or leave it alone.
LEMMA StreamStep ==
  ASSUME TakingTurns, OrderInv, EndInv, [Next]_vars
  PROVE  [Stream!StreamNext]_(Stream!streamVars)
<1> USE ThreadFacts, LockerFacts
<1> DEFINE phase == [u \in Flushers |-> Phase(u)]
           closed == pc[Owner] = "destroyed"
<1>1. ASSUME \A u \in Flushers : pc'[u] = pc[u] PROVE phase' = phase
  BY <1>1 DEF Phase
<1>2. CASE SharedStep
  <2>1. /\ (Comes /\ pc[Owner] # "destroyed") \/ Goes \/ Rests
        /\ UNCHANGED <<screen, shown, flushed, spared>>
    BY <1>2, SharedFacts, StepMoves DEF OrderInv, IInv, SharedStep, othersVars, videoVars
  <2>2. phase' = phase /\ closed' = closed
    BY <1>1, <1>2, SharedPCs DEF OrderInv, IInv
  <2>3. CASE Comes /\ pc[Owner] # "destroyed"
    <3>1. Stream!Arrive
      BY <2>1, <2>2, <2>3 DEF Comes, Stream!Arrive
    <3> QED BY <3>1 DEF Stream!StreamNext
  <2>4. CASE Goes \/ Rests
    BY <2>1, <2>2, <2>4 DEF Goes, Rests, Stream!streamVars
  <2> QED BY <2>1, <2>3, <2>4
<1>3. CASE OwnerStep
  <2>1. Pushed' = Pushed /\ UNCHANGED <<screen, shown, flushed, spared>>
    BY <1>3, OwnerKinds, SameCount DEF OrderInv, IInv
  <2>2. phase' = phase
    BY <1>1, <1>3, OwnerPCsStep DEF OrderInv, IInv
  <2>3. CASE closed'
    <3>1. Stream!Close
      BY <2>1, <2>2, <2>3 DEF Stream!Close
    <3> QED BY <3>1 DEF Stream!StreamNext
  <2>4. CASE ~closed'
    <3>1. ~closed
      BY <1>3, <2>4 DEF OwnerStep, FFMpegOwner, ToolboxOwner, StartThread, Shutdown,
                        ShutdownNotify, Join, Joined, Goto, OrderInv, IInv, Typed, PCsTyped
    <3> QED BY <2>1, <2>2, <2>4, <3>1 DEF Stream!streamVars
  <2> QED BY <2>3, <2>4
<1>4. CASE ProcessStep
  <2>1. /\ Processing /\ UNCHANGED <<queueVars, received, flushed, spared>>
        /\ \A t \in Threads \ {Worker} : pc'[t] = pc[t]
    BY <1>4, ProcessKeeps DEF OrderInv, IInv
  <2>2. Pushed' = Pushed /\ phase' = phase /\ closed' = closed /\ ~closed
    BY <1>1, <2>1, QuietMoves DEF OrderInv, Rests, EndInv, Processing
  <2>3. CASE UNCHANGED <<screen, shown>>
    BY <2>1, <2>2, <2>3 DEF Stream!streamVars
  <2>4. CASE NewPicture
    <3>1. shown \in Nat /\ shown' \in Nat /\ shown' <= Pushed
      BY <1>4, <2>2, ProcessOrderInv DEF OrderInv, Follows
    <3>2. shown' \in 1..Pushed
      BY <2>4, <3>1, OrderFacts DEF NewPicture
    <3>3. \/ flushed < shown' \/ shown' = spared
          \/ \E u \in Flushers : phase[u] = "drawn"
      BY <2>4 DEF NewPicture, Fresh, Phase
    <3>4. Stream!Show(shown')
      BY <2>1, <2>2, <2>4, <3>1, <3>3 DEF NewPicture, Stream!Show
    <3> QED BY <3>2, <3>4 DEF Stream!StreamNext
  <2> QED BY <1>4, <2>3, <2>4, ProcessOrderInv
<1>5. ASSUME NEW u \in Flushers, ResetStep(u) PROVE [Stream!StreamNext]_(Stream!streamVars)
  <2>1. /\ Pushed' = Pushed /\ UNCHANGED shown
        /\ \A t \in Threads \ {u} : pc'[t] = pc[t]
    BY <1>5, ResetKeeps DEF OrderInv, IInv
  <2>2. phase' = [phase EXCEPT ![u] = Phase(u)'] /\ closed' = closed
    BY <2>1 DEF Phase
  <2>3. CASE Phase(u)' = Phase(u) /\ UNCHANGED <<screen, flushed, spared>>
    <3>1. phase' = phase
      BY <2>2, <2>3
    <3> QED BY <2>1, <2>2, <2>3, <3>1 DEF Stream!streamVars
  <2>4. ASSUME Phase(u)' # Phase(u)
        PROVE  Stream!Call(u) \/ Stream!DrawLine(u) \/ Stream!Settle(u) \/ Stream!Clear(u)
    <3>1. InHand \in 0..Pushed
      BY OrderFacts, CountFacts DEF InHand, Processing, OrderInv, Ordered
    <3>2. phase[u] = Phase(u)
      OBVIOUS
    <3> QED BY <1>5, <2>1, <2>2, <2>4, <3>1, <3>2, ResetPhases, CountFacts
            DEF Stream!Call, Stream!DrawLine, Stream!Settle, Stream!Clear, Stream!Advance
  <2> QED BY <1>5, <2>3, <2>4, ResetPhases DEF Stream!StreamNext
<1>6. CASE UNCHANGED vars
  <2>1. UNCHANGED <<queueVars, pc, received, screen, shown, flushed, spared>>
    BY <1>6 DEF vars, threadVars, videoVars
  <2>2. Pushed' = Pushed /\ phase' = phase /\ closed' = closed
    BY <2>1, QuietMoves DEF OrderInv, Rests, Phase
  <2> QED BY <2>1, <2>2 DEF Stream!streamVars
<1> QED BY <1>2, <1>3, <1>4, <1>5, <1>6, StepKinds

\* With its queue, its threads, its mutex and its codec either decoder is a stream of
\* pictures that resets cut and the destructor ends, at any point of a reset, while the
\* feeders take turns.
THEOREM StreamRefinement == Spec /\ []FeedersTakeTurns => ImplementsStream
<1>1. Init => Stream!StreamInit
  <2> SUFFICES ASSUME Init PROVE Stream!StreamInit
    OBVIOUS
  <2>1. Pushed = 0
    BY ThreadFacts DEF Init, VideoInit, ThreadInit, QueueInit, Pushed, Adding
  <2>2. pc[Owner] # "destroyed" /\ \A u \in Flushers : pc[u] = "idle"
    BY ThreadFacts, LockerFacts DEF Init, VideoInit, ThreadInit
  <2> QED BY <2>1, <2>2, CountFacts DEF Init, VideoInit, Stream!StreamInit, Phase
<1>2. FeedersTakeTurns /\ FeedersTakeTurns' /\ OrderInv /\ EndInv /\ [Next]_vars
        => [Stream!StreamNext]_(Stream!streamVars)
  BY StreamStep DEF TakingTurns
<1> QED BY OrderInvariance, EndInvariance, <1>1, <1>2,
           PTL DEF Spec, ImplementsStream, Stream!StreamSpec
=============================================================================
