-------------------------------- MODULE Protocol --------------------------------
(***************************************************************************)
(* portal::SimpleDataPacketProtocol (src/deps/portal/src/Protocol.cpp) in  *)
(* the life of its connection: the phone sends frames, the bytes arrive in *)
(* pieces of any size, processData() cuts them into packets, the           *)
(* connection ends and is made again, and disconnect() of the controller   *)
(* resets the buffer at whatever moment that falls.                        *)
(*                                                                         *)
(* Bytes are not modelled, positions are: the stream of the current        *)
(* connection is given by where its frames end, and the buffer holds its   *)
(* bytes from lo to hi, after `stale` bytes left over by connections that  *)
(* are gone.                                                               *)
(***************************************************************************)
EXTENDS Integers, Sequences

CONSTANTS
  HeaderLength, \* sizeof(_PortalFrame), 16
  PayloadSizes, \* the payload sizes of the frames the phone sends
  Garbage,      \* what a header may say that was read from the wrong place
  MaxFrames,    \* bound: frames sent on one connection
  MaxStale      \* bound: bytes a connection may leave behind

ASSUME ProtocolAssumption ==
  /\ HeaderLength \in Nat \ {0}
  /\ PayloadSizes \subseteq Nat
  /\ Garbage \subseteq Nat
  /\ MaxFrames \in Nat /\ MaxStale \in Nat

VARIABLES
  ends,      \* where the frames sent on this connection end in its stream
  lo, hi,    \* the bytes of this stream in the buffer: from lo to hi
  stale,     \* how many bytes of former streams precede them in the buffer
  staleSize, \* the payload size those begin with, Unknown if it is not known
  packets,   \* the packets of this connection: the frame's number, Mixed if it is none
  parsing,   \* is processData() running
  clean      \* history: the buffer was empty when the connection was made, or was
             \* emptied before its first byte, and no reset took bytes of it since

vars == <<ends, lo, hi, stale, staleSize, packets, parsing, clean>>

Unknown == -1
Mixed == 0

Frames == 1..Len(ends)
StartOf(k) == IF k = 1 THEN 0 ELSE ends[k - 1]
SizeOf(k) == ends[k] - StartOf(k) - HeaderLength
Sent == StartOf(Len(ends) + 1)

Init ==
  /\ ends = <<>>
  /\ lo = 0 /\ hi = 0
  /\ stale = 0
  /\ staleSize = Unknown
  /\ packets = <<>>
  /\ parsing = FALSE
  /\ clean = TRUE

\* buffer.size()
Buffered == stale + hi - lo

\* The buffer begins with frame k of this connection.
AtFrame(k) == stale = 0 /\ lo = StartOf(k)

\* What payloadSize the first bytes of the buffer may hold.
HeaderSays(p) ==
  \/ \E k \in Frames : AtFrame(k) /\ p = SizeOf(k)
  \/ stale >= HeaderLength /\ p = staleSize
  \/ /\ p \in Garbage
     /\ IF stale = 0 THEN \A k \in Frames : lo # StartOf(k)
                     ELSE stale < HeaderLength \/ staleSize = Unknown

-----------------------------------------------------------------------------
\* The phone.
SendFrame ==
  /\ Len(ends) < MaxFrames
  /\ \E p \in PayloadSizes : ends' = Append(ends, Sent + HeaderLength + p)
  /\ UNCHANGED <<lo, hi, stale, staleSize, packets, parsing, clean>>

\* processData() is called with the next n bytes.
Receive ==
  /\ ~parsing
  /\ \E n \in (hi + 1)..Sent : hi' = n
  /\ parsing' = TRUE
  /\ UNCHANGED <<ends, lo, stale, staleSize, packets, clean>>

\* Mutant of TakePacket: the size of the payload is not checked.
TakePacketUnchecked(p) ==
  /\ parsing
  /\ Buffered >= HeaderLength
  /\ stale' = 0
  /\ lo' = lo + HeaderLength + p - stale
  /\ staleSize' = Unknown
  /\ packets' = Append(packets, Mixed)
  /\ UNCHANGED <<ends, hi, parsing, clean>>

\* One round of the loop that takes a packet out.
TakePacket(p) ==
  /\ parsing
  /\ Buffered >= HeaderLength
  /\ HeaderLength + p <= Buffered
  /\ LET used == HeaderLength + p IN
       /\ stale' = IF used < stale THEN stale - used ELSE 0
       /\ lo' = IF used < stale THEN lo ELSE lo + used - stale
  /\ staleSize' = Unknown
  /\ \/ \E k \in Frames : AtFrame(k) /\ packets' = Append(packets, k)
     \/ (\A k \in Frames : ~AtFrame(k)) /\ packets' = Append(packets, Mixed)
  /\ UNCHANGED <<ends, hi, parsing, clean>>

\* Mutant of Return: the loop stops after a packet or at the end of the data.
ReturnEarly ==
  /\ parsing
  /\ parsing' = FALSE
  /\ UNCHANGED <<ends, lo, hi, stale, staleSize, packets, clean>>

\* The loop ends: less than a header, or less than the payload, is there.
Return ==
  /\ parsing
  /\ \/ Buffered < HeaderLength
     \/ \E p \in PayloadSizes \cup Garbage :
          HeaderSays(p) /\ HeaderLength + p > Buffered
  /\ parsing' = FALSE
  /\ UNCHANGED <<ends, lo, hi, stale, staleSize, packets, clean>>

-----------------------------------------------------------------------------
\* The payload size that the buffer begins with, if a whole header of a frame of this
\* or a former connection is there.
FrontSize ==
  IF stale >= HeaderLength THEN staleSize
  ELSE IF stale = 0 /\ Buffered >= HeaderLength /\ \E k \in Frames : AtFrame(k)
       THEN SizeOf(CHOOSE k \in Frames : AtFrame(k))
       ELSE Unknown

\* A new connection, a new stream.
NewStream ==
  /\ ends' = <<>>
  /\ lo' = 0 /\ hi' = 0
  /\ packets' = <<>>
  /\ UNCHANGED parsing

\* The connection breaks and the worker connects again, or disconnect() closes it and a
\* start() makes another; the buffer stays as it is.
Reconnect ==
  /\ ~parsing
  /\ Buffered <= MaxStale
  /\ NewStream
  /\ stale' = Buffered
  /\ staleSize' = FrontSize
  /\ clean' = (Buffered = 0)

\* Mutant of Reset: the buffer is not cleared.
ResetNothing ==
  /\ clean' = (hi = 0 \/ (clean /\ lo = hi))
  /\ UNCHANGED <<ends, lo, hi, stale, staleSize, packets, parsing>>

\* disconnect() of the controller resets the protocol whatever became of the connection:
\* DeviceConnection::disconnect() returned at once because the connection was still being
\* made, while the internal thread delivers its first bytes; or it closed one connection
\* and the next is there by now.  Nothing keeps the reset away from a processData() that
\* is running; here it comes between two rounds of its loop.
Reset ==
  /\ lo' = hi
  /\ stale' = 0
  /\ staleSize' = Unknown
  /\ clean' = (hi = 0 \/ (clean /\ lo = hi))
  /\ UNCHANGED <<ends, hi, packets, parsing>>

Next ==
  \/ SendFrame
  \/ Receive
  \/ \E p \in PayloadSizes \cup Garbage : HeaderSays(p) /\ TakePacket(p)
  \/ Return
  \/ Reconnect
  \/ Reset

Spec == Init /\ [][Next]_vars
-----------------------------------------------------------------------------
\* Every variable has its type, and the buffer is a part of the stream.
TypeOK ==
  /\ ends \in Seq(Nat) /\ Len(ends) <= MaxFrames
  /\ lo \in Nat /\ hi \in Nat /\ lo <= hi /\ hi <= Sent
  /\ stale \in Nat
  /\ staleSize \in Nat \cup {Unknown}
  /\ packets \in Seq(Frames \cup {Mixed})
  /\ parsing \in BOOLEAN /\ clean \in BOOLEAN

\* However the bytes are cut: as long as no reset took bytes of a connection that found
\* the buffer empty, its packets are the frames the phone sent, in order, none missing;
\* and whatever resets and former connections did to the buffer, no frame is delivered
\* twice or after a later one (Protocol.cpp:56-93, 98-101).
FramesInOrder ==
  /\ clean => \A j \in 1..Len(packets) : packets[j] = j
  /\ \A i, j \in 1..Len(packets) :
       i < j /\ packets[i] # Mixed /\ packets[j] # Mixed => packets[i] < packets[j]

\* As long as no reset took bytes of a connection that found the buffer empty, no complete
\* frame is left in the buffer when processData() returns: it is never kept waiting for
\* the next one (Protocol.cpp:56, 69-72).
NothingHeldBack ==
  clean /\ ~parsing => \A k \in Frames : ends[k] <= hi => k <= Len(packets)

-----------------------------------------------------------------------------
\* What the code says of itself and does not keep.

\* Every packet is a frame the phone sent (Protocol.hpp:42-44: "*payloadSize* number of
\* bytes are following, constituting application-specific data").  A reset in mid-stream
\* and a connection made again without a reset both leave the buffer between two headers.
PacketsAreFrames == \A j \in 1..Len(packets) : packets[j] # Mixed
=============================================================================
