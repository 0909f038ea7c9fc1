-------------------------- MODULE VideoToolboxDecoder --------------------------
(***************************************************************************)
(* VideoToolboxDecoder (src/src/VideoToolboxVideoDecoder.cpp).  Flush()    *)
(* and Shutdown() hold mMutex from beginning to end, while they empty the  *)
(* queue and while they join the worker.  A picture is decoded with a      *)
(* session made for a format, and the format is made of the two parameter  *)
(* sets, SPS and PPS, that the phone sends as packets of their own.        *)
(*                                                                         *)
(* VideoToolbox is not in src/: making a format or a session may fail, and *)
(* the session may or may not accept another format.  With flags 0 the     *)
(* picture is decoded, and the callback made, before                       *)
(* VTDecompressionSessionDecodeFrame() returns.                            *)
(***************************************************************************)
EXTENDS VideoDecoder

VARIABLES
  mSession,      \* the formats it accepts, the empty set for NULL
  mFormat,       \* its <<SPS, PPS>>, the empty tuple for NULL
  spsData,       \* the packet it was taken from, Null for none
  ppsData,
  waitingForSps,
  waitingForPps

toolboxVars == <<mSession, mFormat, spsData, ppsData, waitingForSps, waitingForPps>>
parameterVars == <<spsData, ppsData, waitingForSps, waitingForPps>>

Formats == Items \X Items

ToolboxTypeOK ==
  /\ mSession \in SUBSET Formats
  /\ mFormat \in Formats \cup {<<>>}
  /\ {spsData, ppsData} \subseteq Items \cup {Null}
  /\ waitingForSps \in BOOLEAN /\ waitingForPps \in BOOLEAN

ToolboxInit ==
  /\ mSession = {}
  /\ mFormat = <<>>
  /\ spsData = Null /\ ppsData = Null
  /\ waitingForSps = TRUE /\ waitingForPps = TRUE

-----------------------------------------------------------------------------
\* processPacketItem(): what is done with the packet depends on its NAL unit type,
\* which the phone chooses.

\* Mutant of TakeSps: the decoder does not wait for the PPS that follows.
TakeSpsAlone ==
  /\ spsData' = item[Worker]
  /\ waitingForSps' = FALSE
  /\ UNCHANGED <<waitingForPps, ppsData, mFormat, mSession>>

\* Type 7.
TakeSps ==
  /\ spsData' = item[Worker]
  /\ waitingForSps' = FALSE
  /\ waitingForPps' = TRUE
  /\ UNCHANGED <<ppsData, mFormat, mSession>>

\* createDecompressionSession()
CreateSession(format) == mSession' \in {{}, {format}}

\* VTDecompressionSessionCanAcceptFormatDescription()
AcceptFormat(format) == mSession # {} /\ mSession' = mSession \cup {format}

\* Type 8: with an SPS at hand a format is made of the two.
TakePps ==
  /\ ppsData' = item[Worker]
  /\ waitingForPps' = FALSE
  /\ IF waitingForSps
       THEN UNCHANGED <<mFormat, mSession>>
       ELSE \/ mFormat' = <<>> /\ UNCHANGED mSession
            \/ /\ mFormat' = <<spsData, item[Worker]>>
               /\ AcceptFormat(mFormat') \/ CreateSession(mFormat')
  /\ UNCHANGED <<spsData, waitingForSps>>

\* Any other type, and a picture that cannot be decoded.
SkipPacket == UNCHANGED toolboxVars

TakePacket ==
  /\ pc[Worker] = "process"
  /\ Free
  /\ TakeSps \/ TakePps \/ SkipPacket
  /\ Goto(Worker, "size")
  /\ UNCHANGED <<queueVars, mShouldStop, received, obsolete, videoVars>>

\* A packet of less than three bytes is given up before mMutex is taken.
ShortPacket ==
  /\ pc[Worker] = "process"
  /\ Goto(Worker, "size")
  /\ UNCHANGED <<queueVars, mShouldStop, received, obsolete, videoVars, toolboxVars>>

CanDecode ==
  /\ spsData # Null /\ ppsData # Null
  /\ ~waitingForSps /\ ~waitingForPps
  /\ mFormat # <<>>

\* Types 1 and 5.
BeginPicture ==
  /\ pc[Worker] = "process"
  /\ Free
  /\ CanDecode
  /\ IF mSession = {} THEN CreateSession(mFormat) ELSE UNCHANGED mSession
  /\ mMutex' = {Worker}
  /\ Goto(Worker, "decode")
  /\ UNCHANGED <<queueVars, mShouldStop, received, obsolete, screen, shown, flushed, spared,
                 mFormat, parameterVars>>

\* The callback outputs a frame even for a picture that could not be decoded; there is
\* none without a sample buffer or a session.
DecodePicture ==
  /\ pc[Worker] = "decode"
  /\ (mSession # {} /\ Show(item[Worker])) \/ UNCHANGED <<screen, shown>>
  /\ mMutex' = {}
  /\ Goto(Worker, "size")
  /\ UNCHANGED <<queueVars, mShouldStop, received, obsolete, flushed, spared, toolboxVars>>

-----------------------------------------------------------------------------
\* Flush(), whose loop runs with mMutex held; the parameter sets are kept.

LockToFlush(u) ==
  /\ pc[u] = "lock"
  /\ Free
  /\ mMutex' = {u}
  /\ Goto(u, "flushSize")
  /\ UNCHANGED <<queueVars, mShouldStop, received, obsolete, screen, shown, flushed, spared,
                 toolboxVars>>

InvalidateSession(u) ==
  /\ pc[u] = "free"
  /\ mSession' = {}
  /\ mMutex' = {}
  /\ Goto(u, "blank")
  /\ UNCHANGED <<queueVars, mShouldStop, received, obsolete, screen, shown, flushed, spared,
                 mFormat, parameterVars>>

ToolboxFlush(u) ==
  (FlushLoop(u) /\ UNCHANGED toolboxVars) \/ LockToFlush(u) \/ InvalidateSession(u)

ToolboxWorker ==
  (RunStep /\ UNCHANGED <<videoVars, toolboxVars>>) \/ TakePacket \/ BeginPicture
    \/ DecodePicture

\* Mutant of ToolboxOwner: Shutdown() gives mMutex up before it joins the worker, so that
\* a worker about to take it can go on and exit.
ToolboxOwnerUnlocked ==
  /\ \/ (StartThread \/ Shutdown \/ ShutdownNotify \/ Joined) /\ UNCHANGED mSession
     \/ Free /\ Join /\ mSession' = {}
  /\ UNCHANGED <<mMutex, screen, shown, flushed, spared, mFormat, parameterVars>>

\* Shutdown() holds mMutex until the worker is joined.
ToolboxOwner ==
  /\ \/ (StartThread \/ ShutdownNotify) /\ UNCHANGED <<mMutex, mSession>>
     \/ Free /\ Shutdown /\ mMutex' = {Owner} /\ UNCHANGED mSession
     \/ Join /\ mSession' = {} /\ UNCHANGED mMutex
     \/ Joined /\ mMutex' = {} /\ UNCHANGED mSession
  /\ UNCHANGED <<screen, shown, flushed, spared, mFormat, parameterVars>>
=============================================================================
