----------------------------- MODULE ProtocolProofs -----------------------------
(***************************************************************************)
(* Proofs about Protocol, for every header length, all payload sizes, any  *)
(* number of frames, any way to cut the stream into pieces, and resets and *)
(* new connections at any moment.                                          *)
(***************************************************************************)
EXTENDS Protocol, SequenceTheorems, TLAPS

\* The frames follow one another, each at least a header long.
FramesApart ==
  \A k \in Frames : ends[k] \in Nat /\ StartOf(k) + HeaderLength <= ends[k]

FramesGrow == \A j, k \in Frames : j < k => ends[j] <= StartOf(k)

\* On a clean connection the buffer begins with the first frame not yet taken.
Aligned ==
  clean => /\ stale = 0
           /\ Len(packets) <= Len(ends)
           /\ lo = StartOf(Len(packets) + 1)

\* A connection of which nothing was received has no packets.
Untouched == hi = 0 => packets = <<>> /\ ~parsing

\* A frame that was taken lies before what is in the buffer.
TakenBefore == \A j \in 1..Len(packets) : packets[j] \in Frames => ends[packets[j]] <= lo

\* The inductive invariant.
IInv ==
  /\ TypeOK
  /\ FramesApart /\ FramesGrow /\ Untouched /\ TakenBefore
  /\ Aligned /\ FramesInOrder /\ NothingHeldBack

\* Where a frame starts and where the stream ends are natural numbers.
LEMMA Positions ==
  ASSUME TypeOK
  PROVE  /\ Len(ends) \in Nat
         /\ \A k \in 1..(Len(ends) + 1) : StartOf(k) \in Nat
         /\ Sent \in Nat
BY LenProperties, ElementOfSeq DEF TypeOK, StartOf, Sent

\* The beginnings of two frames differ, and differ from the end of the stream.
LEMMA StartsDiffer ==
  ASSUME IInv
  PROVE  \A j, k \in 1..(Len(ends) + 1) : j < k => StartOf(j) < StartOf(k)
<1> SUFFICES ASSUME NEW j \in 1..(Len(ends) + 1), NEW k \in 1..(Len(ends) + 1), j < k
             PROVE  StartOf(j) < StartOf(k)
  OBVIOUS
<1> USE ProtocolAssumption
<1>1. Len(ends) \in Nat /\ StartOf(j) \in Nat /\ StartOf(k) \in Nat
  BY Positions DEF IInv
<1>2. j \in Frames /\ k - 1 \in Frames
  BY <1>1 DEF Frames
<1>3. StartOf(j) + HeaderLength <= ends[j] /\ ends[j] \in Nat
  BY <1>2 DEF IInv, FramesApart
<1>4. StartOf(k) = ends[k - 1]
  BY <1>1 DEF StartOf
<1>5. CASE j = k - 1
  BY <1>1, <1>3, <1>4, <1>5
<1>6. CASE j < k - 1
  <2>1. ends[j] <= StartOf(k - 1)
    BY <1>2, <1>6 DEF IInv, FramesGrow
  <2>2. StartOf(k - 1) + HeaderLength <= ends[k - 1] /\ ends[k - 1] \in Nat
    BY <1>2 DEF IInv, FramesApart
  <2>3. StartOf(k - 1) \in Nat
    BY <1>1, Positions DEF IInv
  <2> QED BY <1>1, <1>3, <1>4, <2>1, <2>2, <2>3
<1> QED BY <1>1, <1>2, <1>5, <1>6 DEF Frames

\* The buffer begins with one frame at most.
LEMMA OneFrame ==
  ASSUME IInv, NEW j \in Frames, NEW k \in Frames, AtFrame(j), AtFrame(k)
  PROVE  j = k
<1> SUFFICES ASSUME j # k PROVE FALSE
  OBVIOUS
<1>1. Len(ends) \in Nat
  BY Positions DEF IInv
<1>2. j \in 1..(Len(ends) + 1) /\ k \in 1..(Len(ends) + 1) /\ j \in Nat /\ k \in Nat
  BY <1>1 DEF Frames
<1>3. StartOf(j) = StartOf(k)
  BY DEF AtFrame
<1>4. StartOf(j) \in Nat /\ StartOf(k) \in Nat
  BY <1>2, Positions DEF IInv
<1>5. j < k \/ k < j
  BY <1>2
<1> QED BY <1>2, <1>3, <1>4, <1>5, StartsDiffer

\* The header of a frame at the front of the buffer says the size of that frame.
LEMMA HeaderOfFrame ==
  ASSUME IInv, NEW k \in Frames, AtFrame(k), NEW p, HeaderSays(p)
  PROVE  p = SizeOf(k)
<1>1. \A j \in Frames : AtFrame(j) => j = k
  BY OneFrame
<1>2. stale = 0 /\ ~(stale >= HeaderLength)
  BY ProtocolAssumption DEF AtFrame
<1> QED BY <1>1, <1>2 DEF HeaderSays, AtFrame

-----------------------------------------------------------------------------
LEMMA InitIInv == Init => IInv
<1> SUFFICES ASSUME Init PROVE IInv
  OBVIOUS
<1> USE ProtocolAssumption DEF Init
<1>1. Frames = {} /\ Sent = 0
  BY EmptySeq DEF Frames, Sent, StartOf
<1>2. TypeOK
  <2>1. ends \in Seq(Nat) /\ packets \in Seq(Frames \cup {Mixed})
    BY EmptySeq
  <2>2. Len(ends) <= MaxFrames
    BY EmptySeq
  <2>3. lo \in Nat /\ hi \in Nat /\ lo <= hi /\ hi <= Sent /\ stale \in Nat
    BY <1>1
  <2>4. staleSize \in Nat \cup {Unknown} /\ parsing \in BOOLEAN /\ clean \in BOOLEAN
    OBVIOUS
  <2> HIDE DEF Init
  <2> QED BY <2>1, <2>2, <2>3, <2>4 DEF TypeOK
<1>3. FramesApart /\ FramesGrow /\ NothingHeldBack
  BY <1>1 DEF FramesApart, FramesGrow, NothingHeldBack
<1>4. Aligned /\ FramesInOrder /\ Untouched /\ TakenBefore
  BY EmptySeq DEF Aligned, FramesInOrder, Untouched, TakenBefore, StartOf
<1> QED BY <1>2, <1>3, <1>4 DEF IInv

\* A frame that is sent comes after all others and does not touch the buffer.
LEMMA SendKeeps == ASSUME IInv, SendFrame PROVE IInv'
<1> USE ProtocolAssumption
<1>0. UNCHANGED <<lo, hi, stale, staleSize, packets, parsing, clean>>
  BY DEF SendFrame
<1>1. PICK p \in PayloadSizes : ends' = Append(ends, Sent + HeaderLength + p)
  BY DEF SendFrame
<1> DEFINE n == Len(ends)
           e == Sent + HeaderLength + p
<1>2. n \in Nat /\ Sent \in Nat /\ p \in Nat /\ e \in Nat
  BY Positions DEF IInv
<1>3. /\ ends' \in Seq(Nat) /\ Len(ends') = n + 1
      /\ \A k \in 1..n : ends'[k] = ends[k]
      /\ ends'[n + 1] = e
  BY <1>1, <1>2, AppendProperties DEF IInv, TypeOK
<1> HIDE DEF n, e
<1>4. Frames' = 1..(n + 1) /\ Frames = 1..n
  BY <1>3 DEF Frames, n
<1>5. \A k \in 1..(n + 1) : StartOf(k)' = StartOf(k) /\ StartOf(k) \in Nat
  <2> SUFFICES ASSUME NEW k \in 1..(n + 1)
               PROVE  StartOf(k)' = StartOf(k) /\ StartOf(k) \in Nat
    OBVIOUS
  <2>1. StartOf(k) \in Nat
    BY Positions DEF IInv, n
  <2>2. CASE k = 1
    BY <2>1, <2>2 DEF StartOf
  <2>3. CASE k # 1
    <3>1. k - 1 \in 1..n
      BY <1>2, <2>3
    <3> QED BY <2>1, <2>3, <3>1, <1>3 DEF StartOf
  <2> QED BY <2>2, <2>3
<1>6. Sent' = e /\ Sent = StartOf(n + 1)
  BY <1>2, <1>3 DEF Sent, StartOf, n
<1>7. Sent <= e
  BY <1>2 DEF e
<1>8. TypeOK'
  <2>1. packets \in Seq(Frames' \cup {Mixed})
    BY <1>2, <1>4, SeqMonotonic DEF IInv, TypeOK
  <2>2. Len(ends') <= MaxFrames
    BY <1>2, <1>3 DEF SendFrame, n
  <2> QED BY <2>1, <2>2, <1>0, <1>2, <1>3, <1>6, <1>7 DEF IInv, TypeOK
<1>9. FramesApart'
  <2> SUFFICES ASSUME NEW k \in 1..(n + 1)
               PROVE  ends'[k] \in Nat /\ StartOf(k)' + HeaderLength <= ends'[k]
    BY <1>4 DEF FramesApart
  <2>1. CASE k \in 1..n
    BY <2>1, <1>2, <1>3, <1>4, <1>5 DEF IInv, FramesApart
  <2>2. CASE k = n + 1
    BY <2>2, <1>2, <1>3, <1>5, <1>6 DEF e
  <2> QED BY <2>1, <2>2, <1>2
<1>10. FramesGrow'
  <2> SUFFICES ASSUME NEW j \in 1..(n + 1), NEW k \in 1..(n + 1), j < k
               PROVE  ends'[j] <= StartOf(k)'
    BY <1>4 DEF FramesGrow
  <2>1. j \in 1..n /\ ends'[j] = ends[j] /\ StartOf(k)' = StartOf(k)
    BY <1>2, <1>3, <1>5
  <2>2. CASE k \in 1..n
    BY <2>1, <2>2, <1>4 DEF IInv, FramesGrow
  <2>3. CASE k = n + 1
    <3>1. StartOf(k) = ends[n]
      BY <2>1, <2>3, <1>2 DEF StartOf
    <3>2. ends[n] \in Nat
      BY <2>1, <1>2, <1>4 DEF IInv, FramesApart
    <3>3. CASE j = n
      BY <3>1, <3>2, <3>3, <2>1
    <3>4. CASE j < n
      <4>1. n \in 1..n
        BY <1>2, <2>1
      <4>2. ends[j] <= StartOf(n) /\ StartOf(n) + HeaderLength <= ends[n]
        BY <4>1, <3>4, <2>1, <1>4 DEF IInv, FramesGrow, FramesApart
      <4>3. ends[j] \in Nat /\ StartOf(n) \in Nat
        BY <4>1, <2>1, <1>2, <1>4, <1>5 DEF IInv, FramesApart
      <4> QED BY <4>2, <4>3, <3>1, <3>2, <2>1
    <3> QED BY <3>3, <3>4, <2>1, <1>2
  <2> QED BY <2>2, <2>3, <1>2
<1>11. Aligned'
  <2> SUFFICES ASSUME clean
               PROVE  /\ stale = 0
                      /\ Len(packets) <= n + 1
                      /\ lo = StartOf(Len(packets) + 1)'
    BY <1>0, <1>3 DEF Aligned
  <2>1. Len(packets) \in Nat /\ Len(packets) <= n
    BY LenProperties DEF IInv, TypeOK, Aligned, n
  <2>2. stale = 0 /\ lo = StartOf(Len(packets) + 1)
    BY DEF IInv, Aligned
  <2>3. Len(packets) + 1 \in 1..(n + 1)
    BY <2>1, <1>2
  <2>4. StartOf(Len(packets) + 1)' = StartOf(Len(packets) + 1)
    <3> DEFINE k == Len(packets) + 1
    <3>1. CASE k = 1
      BY <3>1, <1>0 DEF StartOf
    <3>2. CASE k # 1
      <4>1. k - 1 \in 1..n
        BY <1>2, <2>1, <3>2
      <4>2. ends'[k - 1] = ends[k - 1]
        BY <4>1, <1>3
      <4> QED BY <4>2, <3>2, <1>0 DEF StartOf
    <3> QED BY <3>1, <3>2
  <2> QED BY <2>1, <2>2, <2>4, <1>2
<1>12. FramesInOrder' /\ Untouched' /\ TakenBefore'
  <2>1. FramesInOrder' /\ Untouched'
    BY <1>0 DEF IInv, FramesInOrder, Untouched
  <2>2. ASSUME NEW j \in 1..Len(packets), packets[j] \in 1..(n + 1)
        PROVE  ends'[packets[j]] <= lo
    <3>1. packets[j] \in 1..n
      <4>1. packets[j] \in Frames \cup {Mixed}
        BY ElementOfSeq DEF IInv, TypeOK
      <4> QED BY <2>2, <4>1, <1>4 DEF Mixed
    <3> QED BY <3>1, <1>3, <1>4 DEF IInv, TakenBefore
  <2> QED BY <2>1, <2>2, <1>0, <1>4 DEF TakenBefore
<1>13. NothingHeldBack'
  <2> SUFFICES ASSUME clean, ~parsing, NEW k \in 1..(n + 1), ends'[k] <= hi
               PROVE  k <= Len(packets)
    BY <1>0, <1>4 DEF NothingHeldBack
  <2>1. CASE k \in 1..n
    BY <2>1, <1>3, <1>4 DEF IInv, NothingHeldBack
  <2>2. CASE k = n + 1
    <3>1. ends'[k] = e /\ hi <= Sent /\ Sent < e /\ hi \in Nat
      BY <2>2, <1>2, <1>3 DEF IInv, TypeOK, e
    <3> QED BY <3>1, <1>2
  <2> QED BY <2>1, <2>2, <1>2
<1> QED BY <1>8, <1>9, <1>10, <1>11, <1>12, <1>13 DEF IInv

\* Steps that neither send nor start a stream leave the frames where they are.
LEMMA FramesStay ==
  ASSUME IInv, UNCHANGED ends
  PROVE  FramesApart' /\ FramesGrow'
BY DEF IInv, FramesApart, FramesGrow, Frames, StartOf

LEMMA ReceiveKeeps == ASSUME IInv, Receive PROVE IInv'
<1> USE DEF Receive
<1>1. Sent' = Sent /\ Frames' = Frames
  BY DEF Sent, StartOf, Frames
<1>2. Sent \in Nat
  BY Positions DEF IInv
<1>3. TypeOK'
  BY <1>1, <1>2 DEF IInv, TypeOK
<1>4. FramesApart' /\ FramesGrow'
  BY FramesStay
<1>5. Aligned' /\ FramesInOrder' /\ NothingHeldBack' /\ TakenBefore'
  BY <1>1 DEF IInv, Aligned, FramesInOrder, NothingHeldBack, TakenBefore, StartOf
<1>6. Untouched'
  BY <1>2 DEF IInv, TypeOK, Untouched
<1> QED BY <1>3, <1>4, <1>5, <1>6 DEF IInv

\* Taking a packet from an aligned buffer takes the next frame and leaves the buffer
\* aligned.
LEMMA TakeKeeps ==
  ASSUME IInv, NEW p \in PayloadSizes \cup Garbage, HeaderSays(p), TakePacket(p)
  PROVE  IInv'
<1> USE ProtocolAssumption
<1>0. UNCHANGED <<ends, hi, parsing, clean>> /\ parsing
  BY DEF TakePacket
<1> DEFINE used == HeaderLength + p
           m == Len(packets)
<1>1. /\ p \in Nat /\ used \in Nat /\ lo \in Nat /\ hi \in Nat /\ stale \in Nat
      /\ Buffered = stale + hi - lo /\ used <= Buffered /\ lo <= hi
  BY DEF IInv, TypeOK, Buffered, TakePacket
<1>2. Sent' = Sent /\ Frames' = Frames /\ \A k : StartOf(k)' = StartOf(k)
  BY <1>0 DEF Sent, StartOf, Frames
<1>3. m \in Nat /\ packets \in Seq(Frames \cup {Mixed})
  BY LenProperties DEF IInv, TypeOK
<1>4. PICK x \in Frames \cup {Mixed} :
        /\ packets' = Append(packets, x)
        /\ x \in Frames => AtFrame(x)
        /\ x = Mixed => \A k \in Frames : ~AtFrame(k)
  BY DEF Frames, Mixed, TakePacket
<1>5. /\ packets' \in Seq(Frames \cup {Mixed}) /\ Len(packets') = m + 1
      /\ \A j \in 1..m : packets'[j] = packets[j]
      /\ packets'[m + 1] = x
  BY <1>3, <1>4, AppendProperties
<1>6. TypeOK'
  <2>1. stale' \in Nat /\ lo' \in Nat /\ lo' <= hi
    BY <1>1 DEF TakePacket
  <2>2. staleSize' \in Nat \cup {Unknown}
    BY DEF TakePacket
  <2> QED BY <2>1, <2>2, <1>0, <1>2, <1>5 DEF IInv, TypeOK
<1>7. FramesApart' /\ FramesGrow'
  BY <1>0, FramesStay
<1> HIDE DEF m
<1>8. ASSUME x \in Frames PROVE stale' = 0 /\ lo' = ends[x] /\ lo = StartOf(x)
  <2>1. AtFrame(x) /\ p = SizeOf(x)
    BY <1>4, <1>8, HeaderOfFrame
  <2>2. stale = 0 /\ lo = StartOf(x)
    BY <2>1 DEF AtFrame
  <2>3. ends[x] \in Nat
    BY <1>8 DEF IInv, FramesApart
  <2>4. lo' = lo + used /\ stale' = 0
    BY <2>2, <1>1 DEF TakePacket
  <2>5. p = ends[x] - lo - HeaderLength
    BY <2>1, <2>2 DEF SizeOf
  <2> QED BY <2>2, <2>3, <2>4, <2>5, <1>1
<1>9. ASSUME clean PROVE x = m + 1 /\ m + 1 \in Frames
  <2>1. stale = 0 /\ m <= Len(ends) /\ lo = StartOf(m + 1)
    BY <1>9 DEF IInv, Aligned, m
  <2>2. Len(ends) \in Nat
    BY Positions DEF IInv
  <2>3. m + 1 \in Frames
    <3>1. SUFFICES ASSUME m = Len(ends) PROVE FALSE
      BY <2>1, <2>2, <1>3 DEF Frames
    <3>2. lo = Sent /\ hi <= Sent
      BY <3>1, <2>1 DEF Sent, IInv, TypeOK
    <3> QED BY <3>2, <2>1, <1>1
  <2>4. AtFrame(m + 1)
    BY <2>1 DEF AtFrame
  <2> QED BY <1>4, <2>3, <2>4, OneFrame
<1>10. ASSUME NEW j \in 1..m, packets[j] \in Frames
       PROVE  ends[packets[j]] <= lo /\ lo <= lo'
  <2>1. ends[packets[j]] <= lo
    BY <1>10 DEF IInv, TakenBefore, m
  <2>2. lo <= lo'
    BY <1>1 DEF TakePacket
  <2> QED BY <2>1, <2>2
<1>11. Aligned'
  <2> SUFFICES ASSUME clean
               PROVE  /\ stale' = 0
                      /\ m + 1 <= Len(ends)
                      /\ lo' = StartOf(m + 1 + 1)
    BY <1>0, <1>2, <1>5 DEF Aligned
  <2> QED BY <1>3, <1>8, <1>9, Positions DEF IInv, StartOf, Frames
<1>12. FramesInOrder'
  <2>1. ASSUME clean, NEW j \in 1..(m + 1) PROVE packets'[j] = j
    BY <2>1, <1>3, <1>5, <1>9 DEF IInv, FramesInOrder, m
  <2>2. ASSUME NEW i \in 1..(m + 1), NEW j \in 1..(m + 1), i < j,
               packets'[i] # Mixed, packets'[j] # Mixed
        PROVE  packets'[i] < packets'[j]
    <3>1. i \in 1..m /\ packets'[i] = packets[i]
      BY <2>2, <1>3, <1>5
    <3>2. CASE j \in 1..m
      BY <2>2, <3>1, <3>2, <1>5 DEF IInv, FramesInOrder, m
    <3>3. CASE j = m + 1
      <4>1. x \in Frames /\ packets'[j] = x /\ packets[i] \in Frames
        BY <2>2, <3>1, <3>3, <1>3, <1>4, <1>5, ElementOfSeq DEF m
      <4>2. ends[packets[i]] <= StartOf(x)
        BY <3>1, <4>1, <1>8, <1>10
      <4>3. StartOf(packets[i]) + HeaderLength <= ends[packets[i]]
        BY <4>1 DEF IInv, FramesApart
      <4>4. /\ StartOf(packets[i]) \in Nat /\ StartOf(x) \in Nat /\ ends[packets[i]] \in Nat
            /\ packets[i] \in Nat /\ x \in Nat
        BY <4>1, Positions DEF IInv, FramesApart, Frames
      <4>5. StartOf(packets[i]) < StartOf(x)
        BY <4>2, <4>3, <4>4
      <4>6. ~(x < packets[i]) /\ x # packets[i]
        <5>1. x \in 1..(Len(ends) + 1) /\ packets[i] \in 1..(Len(ends) + 1)
          BY <4>1, Positions DEF IInv, Frames
        <5>2. x < packets[i] => StartOf(x) < StartOf(packets[i])
          BY <5>1, StartsDiffer
        <5> QED BY <5>2, <4>4, <4>5
      <4> QED BY <3>1, <4>1, <4>4, <4>6
    <3> QED BY <3>2, <3>3, <1>3
  <2> QED BY <2>1, <2>2, <1>0, <1>5 DEF FramesInOrder
<1>13. NothingHeldBack' /\ Untouched'
  BY <1>0 DEF NothingHeldBack, IInv, Untouched
<1>14. TakenBefore'
  <2> SUFFICES ASSUME NEW j \in 1..(m + 1), packets'[j] \in Frames
               PROVE  ends[packets'[j]] <= lo'
    BY <1>0, <1>2, <1>5 DEF TakenBefore
  <2>1. CASE j \in 1..m
    <3>1. packets[j] \in Frames /\ ends[packets[j]] \in Nat /\ lo' \in Nat
      BY <2>1, <1>5, <1>6 DEF IInv, FramesApart, TypeOK
    <3> QED BY <2>1, <3>1, <1>1, <1>5, <1>10
  <2>2. CASE j = m + 1
    <3>1. x \in Frames /\ packets'[j] = x /\ ends[x] \in Nat
      BY <2>2, <1>5 DEF IInv, FramesApart
    <3> QED BY <3>1, <1>8
  <2> QED BY <2>1, <2>2, <1>3
<1> QED BY <1>6, <1>7, <1>11, <1>12, <1>13, <1>14 DEF IInv

\* processData() returns only when the next frame is not complete.
LEMMA ReturnKeeps == ASSUME IInv, Return PROVE IInv'
<1> USE ProtocolAssumption
<1>0. UNCHANGED <<ends, lo, hi, stale, staleSize, packets, clean>> /\ parsing' = FALSE
  BY DEF Return
<1> DEFINE m == Len(packets)
<1>1. Sent' = Sent /\ Frames' = Frames /\ \A k : StartOf(k)' = StartOf(k)
  BY <1>0 DEF Sent, StartOf, Frames
<1>2. /\ TypeOK' /\ FramesApart' /\ FramesGrow' /\ Aligned' /\ FramesInOrder'
      /\ Untouched' /\ TakenBefore'
  BY <1>0, <1>1, FramesStay
     DEF IInv, TypeOK, Aligned, FramesInOrder, Untouched, TakenBefore
<1>3. NothingHeldBack'
  <2> SUFFICES ASSUME clean, NEW k \in Frames, ends[k] <= hi, ~(k <= m) PROVE FALSE
    BY <1>0, <1>1 DEF NothingHeldBack
  <2>1. /\ m \in Nat /\ Len(ends) \in Nat /\ k \in Nat
        /\ lo \in Nat /\ hi \in Nat /\ stale = 0 /\ lo = StartOf(m + 1)
        /\ Buffered = hi - lo /\ m < k
    BY Positions, LenProperties DEF IInv, TypeOK, Aligned, Buffered, Frames
  <2>2. m + 1 \in Frames /\ AtFrame(m + 1)
    BY <2>1 DEF Frames, AtFrame
  <2>3. ends[m + 1] \in Nat /\ StartOf(m + 1) + HeaderLength <= ends[m + 1]
    BY <2>2 DEF IInv, FramesApart
  <2>4. hi < ends[m + 1]
    <3>1. CASE Buffered < HeaderLength
      BY <3>1, <2>1, <2>3
    <3>2. ASSUME NEW p \in PayloadSizes \cup Garbage,
                 HeaderSays(p), HeaderLength + p > Buffered
          PROVE  hi < ends[m + 1]
      <4>1. p = SizeOf(m + 1)
        BY <3>2, <2>2, HeaderOfFrame
      <4> QED BY <3>2, <4>1, <2>1, <2>3 DEF SizeOf
    <3> QED BY <3>1, <3>2 DEF Return
  <2>5. CASE k = m + 1
    BY <2>5, <2>4, <2>3, <2>1
  <2>6. CASE m + 1 < k
    <3>1. ends[m + 1] <= StartOf(k) /\ StartOf(k) + HeaderLength <= ends[k]
      BY <2>2, <2>6 DEF IInv, FramesGrow, FramesApart
    <3>2. StartOf(k) \in Nat /\ ends[k] \in Nat
      BY <2>1, Positions DEF IInv, FramesApart, Frames
    <3> QED BY <3>1, <3>2, <2>1, <2>3, <2>4
  <2> QED BY <2>1, <2>5, <2>6
<1> QED BY <1>2, <1>3 DEF IInv

\* A new stream has no frames and no packets.
LEMMA NewStreamKeeps ==
  ASSUME IInv, ~parsing, NewStream, stale' \in Nat, staleSize' \in Nat \cup {Unknown},
         clean' \in BOOLEAN, clean' => stale' = 0
  PROVE  IInv'
<1> USE ProtocolAssumption DEF NewStream
<1>1. Frames' = {} /\ Sent' = 0 /\ Len(packets') = 0 /\ Len(ends') = 0
  BY EmptySeq DEF Frames, Sent, StartOf
<1>2. TypeOK'
  BY <1>1, EmptySeq DEF IInv, TypeOK
<1>3. FramesApart' /\ FramesGrow' /\ NothingHeldBack'
  BY <1>1 DEF FramesApart, FramesGrow, NothingHeldBack
<1>4. Aligned' /\ FramesInOrder' /\ Untouched' /\ TakenBefore'
  BY <1>1 DEF Aligned, FramesInOrder, Untouched, TakenBefore, StartOf
<1> QED BY <1>2, <1>3, <1>4 DEF IInv

\* A reset at any moment: if it finds no byte of the connection the buffer is aligned
\* with it afterwards.
LEMMA ResetKeeps == ASSUME IInv, Reset PROVE IInv'
<1> USE ProtocolAssumption
<1>0. /\ UNCHANGED <<ends, hi, packets, parsing>> /\ lo' = hi /\ stale' = 0
      /\ staleSize' = Unknown /\ clean' = (hi = 0 \/ (clean /\ lo = hi))
  BY DEF Reset
<1>1. Sent' = Sent /\ Frames' = Frames /\ \A k : StartOf(k)' = StartOf(k)
  BY <1>0 DEF Sent, StartOf, Frames
<1>2. lo \in Nat /\ hi \in Nat /\ lo <= hi
  BY DEF IInv, TypeOK
<1>3. TypeOK'
  BY <1>0, <1>1, <1>2 DEF IInv, TypeOK
<1>4. FramesApart' /\ FramesGrow' /\ Untouched'
  BY <1>0, FramesStay DEF IInv, Untouched
<1>5. TakenBefore'
  <2> SUFFICES ASSUME NEW j \in 1..Len(packets), packets[j] \in Frames
               PROVE  ends[packets[j]] <= hi
    BY <1>0, <1>1 DEF TakenBefore
  <2>1. ends[packets[j]] \in Nat /\ ends[packets[j]] <= lo
    BY DEF IInv, FramesApart, TakenBefore
  <2> QED BY <2>1, <1>2
<1>6. CASE hi = 0
  <2>1. lo = 0 /\ packets = <<>> /\ Len(packets) = 0 /\ ~parsing
    BY <1>2, <1>6, EmptySeq DEF IInv, Untouched
  <2>2. Aligned'
    BY <2>1, <1>0, <1>1, <1>6, Positions DEF IInv, Aligned, StartOf
  <2>3. FramesInOrder'
    BY <2>1, <1>0 DEF FramesInOrder
  <2>4. NothingHeldBack'
    <3> SUFFICES ASSUME NEW k \in Frames, ends[k] <= hi PROVE FALSE
      BY <1>0, <1>1 DEF NothingHeldBack
    <3>1. ends[k] \in Nat /\ StartOf(k) + HeaderLength <= ends[k] /\ StartOf(k) \in Nat
      BY Positions DEF IInv, FramesApart, Frames
    <3> QED BY <3>1, <1>6
  <2> QED BY <2>2, <2>3, <2>4, <1>3, <1>4, <1>5 DEF IInv
<1>7. CASE hi # 0
  <2>1. Aligned' /\ FramesInOrder' /\ NothingHeldBack'
    BY <1>0, <1>1, <1>7 DEF IInv, Aligned, FramesInOrder, NothingHeldBack
  <2> QED BY <2>1, <1>3, <1>4, <1>5 DEF IInv
<1> QED BY <1>6, <1>7

\* The size of the payload at the front is a natural number, or Unknown.
LEMMA FrontSizeType == ASSUME IInv PROVE FrontSize \in Nat \cup {Unknown}
<1>1. \A k \in Frames : SizeOf(k) \in Nat
  <2> SUFFICES ASSUME NEW k \in Frames PROVE SizeOf(k) \in Nat
    OBVIOUS
  <2>1. StartOf(k) \in Nat
    BY Positions DEF IInv, Frames
  <2> QED BY <2>1, ProtocolAssumption DEF IInv, FramesApart, SizeOf
<1>2. staleSize \in Nat \cup {Unknown}
  BY DEF IInv, TypeOK
<1>3. CASE \E k \in Frames : AtFrame(k)
  <2>1. (CHOOSE k \in Frames : AtFrame(k)) \in Frames
    BY <1>3
  <2> QED BY <2>1, <1>1, <1>2 DEF FrontSize
<1>4. CASE ~ \E k \in Frames : AtFrame(k)
  BY <1>4, <1>2 DEF FrontSize
<1> QED BY <1>3, <1>4

LEMMA NextIInv == IInv /\ [Next]_vars => IInv'
<1> SUFFICES ASSUME IInv, [Next]_vars PROVE IInv'
  OBVIOUS
<1>1. CASE SendFrame
  BY <1>1, SendKeeps
<1>2. CASE Receive
  BY <1>2, ReceiveKeeps
<1>3. ASSUME NEW p \in PayloadSizes \cup Garbage, HeaderSays(p), TakePacket(p)
      PROVE  IInv'
  BY <1>3, TakeKeeps
<1>4. CASE Return
  BY <1>4, ReturnKeeps
<1>5. CASE Reconnect
  <2>1. Buffered \in Nat
    BY DEF IInv, TypeOK, Buffered
  <2> QED BY <1>5, <2>1, FrontSizeType, NewStreamKeeps DEF Reconnect
<1>6. CASE Reset
  BY <1>6, ResetKeeps
<1>7. CASE UNCHANGED vars
  <2>1. Sent' = Sent /\ Frames' = Frames /\ \A k : StartOf(k)' = StartOf(k)
    BY <1>7 DEF vars, Sent, StartOf, Frames
  <2> QED BY <1>7, <2>1, FramesStay
          DEF vars, IInv, TypeOK, Aligned, FramesInOrder, NothingHeldBack, Untouched,
              TakenBefore
<1> QED BY <1>1, <1>2, <1>3, <1>4, <1>5, <1>6, <1>7 DEF Next

\* The inductive invariant holds in every reachable state.
THEOREM Invariance == Spec => []IInv
BY InitIInv, NextIInv, PTL DEF Spec

\* The buffer is always a part of the stream of its connection.
THEOREM TypeCorrect == Spec => []TypeOK
<1>1. IInv => TypeOK
  BY DEF IInv
<1> QED BY Invariance, <1>1, PTL

\* For every way to cut the stream and resets at any moment: the packets are the frames
\* the phone sent, in order and without a gap, until a reset or a former connection
\* interferes; and even then no frame is delivered twice or after a later one.
THEOREM Reassembly == Spec => []FramesInOrder
<1>1. IInv => FramesInOrder
  BY DEF IInv
<1> QED BY Invariance, <1>1, PTL

\* For every way to cut the stream: until a reset or a former connection interferes,
\* processData() holds no complete frame back.
THEOREM Prompt == Spec => []NothingHeldBack
<1>1. IInv => NothingHeldBack
  BY DEF IInv
<1> QED BY Invariance, <1>1, PTL
=============================================================================
