----------------------------- MODULE VideoDecoder -----------------------------
(***************************************************************************)
(* What the two implementations of VideoDecoder (src/src/VideoDecoder.h)   *)
(* share beyond the thread of DecoderThread: the mutex, the picture OBS    *)
(* shows, and the loop with which Flush() empties the queue for            *)
(* IOSCameraInput::resetDecoder(), which then clears the picture.          *)
(*                                                                         *)
(* FFMpegVideoDecoder and VideoToolboxDecoder add the rest of Flush(), of  *)
(* Shutdown() and processPacketItem(); VideoDecoding is the specification. *)
(***************************************************************************)
EXTENDS DecoderThread

CONSTANT Flushers \* the threads that call resetDecoder()

ASSUME FlushersAssumption ==
  /\ Threads = {Worker, Owner} \cup Feeders \cup Flushers
  /\ Flushers \cap ({Worker, Owner} \cup Feeders) = {}

VARIABLES
  mMutex,  \* who holds the decoder's mMutex: the empty set, or one thread
  screen,  \* the packet whose picture OBS shows, Null for none
  shown,   \* history: the last packet whose picture was output
  flushed, \* history: newest packet queued before a flush found the queue empty
  spared   \* history: the packet that the worker had in hand at that moment

videoVars == <<mMutex, screen, shown, flushed, spared>>

FlusherPCs == {"idle", "lock", "flushSize", "flushRemove", "free", "blank"}

VideoTypeOK ==
  /\ ThreadTypeOK
  /\ \A u \in Flushers : pc[u] \in FlusherPCs
  /\ mMutex \in {{}} \cup {{t} : t \in Threads}
  /\ {screen, shown, spared} \subseteq Items \cup {Null}
  /\ flushed \in 0..MaxItems

VideoInit ==
  /\ ThreadInit
  /\ mMutex = {}
  /\ screen = Null /\ shown = Null
  /\ flushed = 0 /\ spared = Null

Free == mMutex = {}

\* obs_source_output_video(): on the worker's thread, with mMutex held.
Show(i) == screen' = i /\ shown' = i

\* The packet in the worker's hands, from remove() to the end of processPacketItem().
InHand == IF pc[Worker] \in {"process", "decode"} THEN item[Worker] ELSE Null

-----------------------------------------------------------------------------
\* The steps of resetDecoder() around what is the decoder's own.  It may come while the
\* decoder is shut down: the device manager's thread outlives the decoders.

Reset(u, first) ==
  /\ pc[u] = "idle"
  /\ pc[Owner] \notin {"constructed", "destroyed"}
  /\ Goto(u, first)
  /\ UNCHANGED <<queueVars, mShouldStop, received, obsolete, videoVars>>

FlushSize(u) ==
  /\ pc[u] = "flushSize"
  /\ \/ /\ \E n \in 1..MaxItems : Size(u, n)
        /\ Goto(u, "flushRemove")
        /\ UNCHANGED <<flushed, spared>>
     \/ /\ Size(u, 0)
        /\ Goto(u, "free")
        /\ flushed' = Pushed /\ spared' = InHand
  /\ UNCHANGED <<mShouldStop, received, obsolete, mMutex, screen, shown>>

FlushRemove(u) ==
  /\ pc[u] = "flushRemove"
  /\ RemoveForgotten(u)
  /\ Goto(u, "flushSize")
  /\ UNCHANGED <<mShouldStop, received, obsolete, videoVars>>

FlushWait(u) ==
  /\ pc[u] = "flushRemove"
  /\ RemoveWait(u) \/ Park(u)
  /\ UNCHANGED <<pc, mShouldStop, received, obsolete, videoVars>>

FlushSpuriousWake(u) ==
  /\ SpuriousWake(u)
  /\ UNCHANGED <<pc, mShouldStop, received, obsolete, videoVars>>

\* obs_source_output_video(source, NULL): without mMutex.
Blank(u) ==
  /\ pc[u] = "blank"
  /\ screen' = Null
  /\ Goto(u, "idle")
  /\ UNCHANGED <<queueVars, mShouldStop, received, obsolete, mMutex, shown, flushed, spared>>

FlushLoop(u) == FlushSize(u) \/ FlushRemove(u) \/ FlushWait(u) \/ Blank(u)
=============================================================================
