--------------------------- MODULE FFMpegDecodeProofs ---------------------------
(***************************************************************************)
(* What the proofs about the two ffmpeg decoders share: the codec gives    *)
(* back pictures and sounds in the order of their packets, whichever it    *)
(* refuses, keeps back or loses.                                           *)
(***************************************************************************)
EXTENDS FFMpegDecode, DecoderThreadProofs

Elements(q) == {q[k] : k \in 1..Len(q)}

LEMMA ElementFacts ==
  ASSUME NEW S, NEW q \in Seq(S), NEW x \in S
  PROVE  /\ Elements(q) \subseteq S
         /\ Elements(Append(q, x)) = Elements(q) \cup {x}
         /\ q # <<>> => Head(q) \in Elements(q) /\ Elements(Tail(q)) \subseteq Elements(q)
<1>1. Elements(q) \subseteq S
  BY ElementOfSeq DEF Elements
<1>2. Elements(Append(q, x)) = Elements(q) \cup {x}
  <2>1. /\ Len(q) \in Nat /\ Len(Append(q, x)) = Len(q) + 1
        /\ Append(q, x)[Len(q) + 1] = x
        /\ \A k \in 1..Len(q) : Append(q, x)[k] = q[k]
    BY AppendProperties, LenProperties
  <2>2. 1..(Len(q) + 1) = 1..Len(q) \cup {Len(q) + 1}
    BY <2>1
  <2> QED BY <2>1, <2>2 DEF Elements
<1>3. ASSUME q # <<>>
      PROVE  Head(q) \in Elements(q) /\ Elements(Tail(q)) \subseteq Elements(q)
  <2>1. /\ Len(q) \in Nat \ {0} /\ Head(q) = q[1]
        /\ Len(Tail(q)) = Len(q) - 1
        /\ \A k \in 1..Len(Tail(q)) : Tail(q)[k] = q[k + 1]
    BY <1>3
  <2> QED BY <2>1 DEF Elements
<1> QED BY <1>1, <1>2, <1>3

\* What the codec does with packet i keeps the order of what it holds, all of it newer
\* than the last output n; what it returns, if anything, is the next output.
LEMMA CodecStep ==
  ASSUME NEW i \in Nat, NEW n \in Nat, n < i,
         held \in Seq(Nat), Increasing(held), AllAbove(held, n),
         \A x \in Elements(held) : x < i
  PROVE  /\ NoOutput(i) => /\ held' \in Seq(Nat) /\ Increasing(held') /\ AllAbove(held', n)
                           /\ Elements(held') \subseteq Elements(held) \cup {i}
         /\ \A p : Returned(i, p) =>
              /\ held' \in Seq(Nat) /\ Increasing(held') /\ AllAbove(held', p)
              /\ Elements(held') \subseteq Elements(held) \cup {i}
              /\ p \in Elements(held) \cup {i} /\ p \in Nat /\ n < p
<1> DEFINE h == Append(held, i)
<1>1. h \in Seq(Nat) /\ h # <<>> /\ Elements(h) = Elements(held) \cup {i}
  BY ElementFacts, AppendProperties
<1>2. i - 1 \in Nat /\ (i - 1) + 1 = i
  BY SMT
<1>3. AllUpTo(held, i - 1)
  <2>1. \A k \in 1..Len(held) : held[k] \in Nat /\ held[k] \in Elements(held)
    BY ElementOfSeq DEF Elements
  <2> QED BY <2>1 DEF AllUpTo
<1>4. Increasing(h) /\ AllUpTo(h, i)
  <2>1. /\ Increasing(Append(held, (i - 1) + 1))
        /\ AllUpTo(Append(held, (i - 1) + 1), (i - 1) + 1)
    BY <1>2, <1>3, AppendIncreasing
  <2> QED BY <1>2, <2>1
<1>5. AllAbove(h, n)
  BY AppendAbove
<1> HIDE DEF h
<1>6. /\ Tail(h) \in Seq(Nat) /\ Head(h) \in Nat /\ Increasing(Tail(h))
      /\ AllAbove(Tail(h), Head(h))
  BY <1>1, <1>4, TailIncreasing
<1>7. AllAbove(Tail(h), n) /\ n < Head(h)
  BY <1>1, <1>5, TailAbove
<1>8. Head(h) \in Elements(h) /\ Elements(Tail(h)) \subseteq Elements(h)
  BY <1>1, ElementFacts
<1>9. ASSUME NoOutput(i)
      PROVE  /\ held' \in Seq(Nat) /\ Increasing(held') /\ AllAbove(held', n)
             /\ Elements(held') \subseteq Elements(held) \cup {i}
  <2>1. held' \in {held, h, Tail(h)}
    BY <1>9 DEF NoOutput, Refused, Delayed, Unconverted, h
  <2> QED BY <2>1, <1>1, <1>4, <1>5, <1>6, <1>7, <1>8
<1>10. ASSUME NEW p, Returned(i, p)
       PROVE  /\ held' \in Seq(Nat) /\ Increasing(held') /\ AllAbove(held', p)
              /\ Elements(held') \subseteq Elements(held) \cup {i}
              /\ p \in Elements(held) \cup {i} /\ p \in Nat /\ n < p
  <2>1. p = Head(h) /\ held' = Tail(h)
    BY <1>10 DEF Returned, h
  <2> QED BY <2>1, <1>1, <1>6, <1>7, <1>8
<1> QED BY <1>9, <1>10

\* The same for an empty packet, which only takes out what the codec holds.
LEMMA CodecStepUnsent ==
  ASSUME NEW n \in Nat, held \in Seq(Nat), Increasing(held), AllAbove(held, n)
  PROVE  /\ UnconvertedUnsent => /\ held' \in Seq(Nat) /\ Increasing(held')
                                 /\ AllAbove(held', n)
                                 /\ Elements(held') \subseteq Elements(held)
         /\ \A p : ReturnedUnsent(p) =>
              /\ held' \in Seq(Nat) /\ Increasing(held') /\ AllAbove(held', p)
              /\ {p} \cup Elements(held') \subseteq Elements(held)
              /\ p \in Nat /\ n < p
<1>1. ASSUME held # <<>>
      PROVE  /\ Tail(held) \in Seq(Nat) /\ Increasing(Tail(held))
             /\ AllAbove(Tail(held), n) /\ AllAbove(Tail(held), Head(held))
             /\ Elements(Tail(held)) \subseteq Elements(held)
             /\ Head(held) \in Elements(held) /\ Head(held) \in Nat /\ n < Head(held)
  <2>1. /\ Tail(held) \in Seq(Nat) /\ Head(held) \in Nat /\ Increasing(Tail(held))
        /\ AllAbove(Tail(held), Head(held))
    BY <1>1, LenProperties, ElementOfSeq DEF Increasing, AllAbove
  <2>2. AllAbove(Tail(held), n) /\ n < Head(held)
    BY <1>1, TailAbove
  <2>3. Head(held) \in Elements(held) /\ Elements(Tail(held)) \subseteq Elements(held)
    BY <1>1, ElementFacts
  <2> QED BY <2>1, <2>2, <2>3
<1>2. ASSUME UnconvertedUnsent
      PROVE  /\ held' \in Seq(Nat) /\ Increasing(held') /\ AllAbove(held', n)
             /\ Elements(held') \subseteq Elements(held)
  <2>1. held # <<>> /\ held' = Tail(held)
    BY <1>2 DEF UnconvertedUnsent
  <2> QED BY <2>1, <1>1
<1>3. ASSUME NEW p, ReturnedUnsent(p)
      PROVE  /\ held' \in Seq(Nat) /\ Increasing(held') /\ AllAbove(held', p)
             /\ {p} \cup Elements(held') \subseteq Elements(held)
             /\ p \in Nat /\ n < p
  <2>1. held # <<>> /\ p = Head(held) /\ held' = Tail(held)
    BY <1>3 DEF ReturnedUnsent
  <2> QED BY <2>1, <1>1
<1> QED BY <1>2, <1>3

\* Types.
LEMMA CodecStepTyped ==
  ASSUME NEW S, NEW i \in S, held \in Seq(S)
  PROVE  /\ NoOutput(i) \/ UnconvertedUnsent => held' \in Seq(S)
         /\ \A p : Returned(i, p) \/ ReturnedUnsent(p) => held' \in Seq(S) /\ p \in S
<1>1. Append(held, i) \in Seq(S) /\ Append(held, i) # <<>>
  BY AppendProperties
<1> DEFINE h == Append(held, i)
<1>2. Head(h) \in S /\ Tail(h) \in Seq(S)
  BY <1>1
<1>3. held # <<>> => Head(held) \in S /\ Tail(held) \in Seq(S)
  OBVIOUS
<1> QED BY <1>1, <1>2, <1>3
        DEF NoOutput, Refused, Delayed, Unconverted, Returned, UnconvertedUnsent, ReturnedUnsent

-----------------------------------------------------------------------------
\* The codec holds packets newer than the last output n, and older than what is queued
\* or being decoded.
CodecOrdered(n) ==
  /\ held \in Seq(Nat) /\ Increasing(held) /\ AllAbove(held, n)
  /\ \A x \in Elements(held) : Follows(x)

LEMMA EmptyCodecOrdered == ASSUME held = <<>>, NEW n \in Nat PROVE CodecOrdered(n)
<1>1. held \in Seq(Nat) /\ Len(held) = 0
  BY EmptySeq
<1> QED BY <1>1 DEF CodecOrdered, Increasing, AllAbove, Elements

\* A step that gives the codec nothing.
LEMMA CodecRests ==
  ASSUME NEW n \in Nat, CodecOrdered(n), held' = held \/ held' = <<>>,
         \A x \in Nat : Follows(x) => Follows(x)'
  PROVE  CodecOrdered(n)'
<1>1. Elements(held) \subseteq Nat
  BY ElementFacts DEF CodecOrdered
<1>2. CASE held' = held
  BY <1>1, <1>2 DEF CodecOrdered
<1>3. CASE held' = <<>>
  <2>1. held' \in Seq(Nat) /\ Len(held') = 0
    BY <1>3, EmptySeq
  <2> QED BY <2>1 DEF CodecOrdered, Increasing, AllAbove, Elements
<1> QED BY <1>2, <1>3

\* The worker gives the codec its packet, or has it give back a sound for an empty one.
LEMMA CodecTakes ==
  ASSUME Typed, Ordered, AddingNewest, NEW n \in Nat, Follows(n), CodecOrdered(n),
         Processing, ~Processing', UNCHANGED <<queueVars, received>>
  PROVE  /\ Follows(n)'
         /\ NoOutput(item[Worker]) =>
              CodecOrdered(n)' /\ Elements(held') \subseteq Elements(held) \cup {item[Worker]}
         /\ \A p : Returned(item[Worker], p) =>
              /\ p \in Nat /\ n < p /\ Follows(p)' /\ CodecOrdered(p)'
              /\ {p} \cup Elements(held') \subseteq Elements(held) \cup {item[Worker]}
         /\ UnconvertedUnsent => CodecOrdered(n)'
         /\ \A p : ReturnedUnsent(p) =>
              p \in Nat /\ n < p /\ Follows(p)' /\ CodecOrdered(p)'
<1> DEFINE i == item[Worker]
<1>1. m_queue' = m_queue /\ Pushed' = Pushed
  BY QuietMoves DEF Rests
<1>2. i \in Nat /\ i <= Pushed /\ AllAbove(m_queue, i)
  BY CountFacts DEF Ordered
<1>3. /\ held \in Seq(Nat) /\ Increasing(held) /\ AllAbove(held, n)
      /\ Elements(held) \subseteq Nat
  BY ElementFacts DEF CodecOrdered
<1>4. n < i /\ \A x \in Elements(held) : x < i
  BY DEF Follows, CodecOrdered
<1>5. \A x \in Elements(held) \cup {i} \cup {n} : Follows(x)'
  BY <1>1, <1>2 DEF Follows, CodecOrdered
<1>6. ASSUME NoOutput(i)
      PROVE  CodecOrdered(n)' /\ Elements(held') \subseteq Elements(held) \cup {i}
  BY <1>2, <1>3, <1>4, <1>5, <1>6, CodecStep DEF CodecOrdered
<1>7. ASSUME NEW p, Returned(i, p)
      PROVE  /\ p \in Nat /\ n < p /\ Follows(p)' /\ CodecOrdered(p)'
             /\ {p} \cup Elements(held') \subseteq Elements(held) \cup {i}
  <2>1. /\ held' \in Seq(Nat) /\ Increasing(held') /\ AllAbove(held', p)
        /\ Elements(held') \subseteq Elements(held) \cup {i}
        /\ p \in Elements(held) \cup {i} /\ p \in Nat /\ n < p
    BY <1>2, <1>3, <1>4, <1>7, CodecStep
  <2> QED BY <2>1, <1>5 DEF CodecOrdered
<1>8. UnconvertedUnsent => CodecOrdered(n)'
  BY <1>3, <1>5, CodecStepUnsent DEF CodecOrdered
<1>9. ASSUME NEW p, ReturnedUnsent(p)
      PROVE  p \in Nat /\ n < p /\ Follows(p)' /\ CodecOrdered(p)'
  <2>1. /\ held' \in Seq(Nat) /\ Increasing(held') /\ AllAbove(held', p)
        /\ {p} \cup Elements(held') \subseteq Elements(held) /\ p \in Nat /\ n < p
    BY <1>3, <1>9, CodecStepUnsent
  <2> QED BY <2>1, <1>5 DEF CodecOrdered
<1> QED BY <1>5, <1>6, <1>7, <1>8, <1>9
=============================================================================
