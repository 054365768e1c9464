-------------------------- MODULE NetBuffer_proofs --------------------------
(***************************************************************************)
(* What holds of NetBuffer for all bytes, lengths and numbers of buffers.  *)
(***************************************************************************)
EXTENDS NetBuffer, SequenceTheorems, TLAPS

\* An object whose positions are in order and in the vector, and what it holds
Sound(o) ==
  /\ o \in Buffer
  /\ o._posRead <= o._posWrite /\ o._posWrite <= Len(o._buf)

-----------------------------------------------------------------------------
(* The vector                                                               *)

LEMMA VectorIsSeq ==
  ASSUME NEW n \in Nat, NEW f \in [1..n -> Cells]
  PROVE  f \in Seq(Cells) /\ Len(f) = n
OBVIOUS

LEMMA ResizeFacts ==
  ASSUME NEW v \in Seq(Cells), NEW n \in Nat
  PROVE  /\ Resize(v, n) \in Seq(Cells) /\ Len(Resize(v, n)) = n
         /\ \A i \in 1..n : i <= Len(v) => Resize(v, n)[i] = v[i]
<1>1. Resize(v, n) \in [1..n -> Cells]
  BY ElementOfSeq, LenProperties DEF Resize, Cells
<1>. QED  BY <1>1, VectorIsSeq DEF Resize

LEMMA MemMoveFacts ==
  ASSUME NEW v \in Seq(Cells), NEW n \in Nat, NEW s \in Seq(Cells)
  PROVE  /\ MemMove(v, n, s) \in Seq(Cells) /\ Len(MemMove(v, n, s)) = Len(v)
         /\ \A i \in 1..Len(v) :
              MemMove(v, n, s)[i] = IF i > n /\ i <= n + Len(s) THEN s[i - n] ELSE v[i]
<1>1. Len(v) \in Nat /\ Len(s) \in Nat
  BY LenProperties
<1>2. \A i \in 1..Len(v) : v[i] \in Cells
  BY ElementOfSeq
<1>3. \A i \in 1..Len(s) : s[i] \in Cells
  BY ElementOfSeq
<1>4. MemMove(v, n, s) \in [1..Len(v) -> Cells]
  BY <1>1, <1>2, <1>3 DEF MemMove
<1>. QED  BY <1>1, <1>4, VectorIsSeq DEF MemMove

LEMMA SliceFacts ==
  ASSUME NEW v \in Seq(Cells), NEW r \in Nat, NEW n \in Nat, r + n <= Len(v)
  PROVE  /\ SubSeq(v, r + 1, r + n) \in Seq(Cells)
         /\ Len(SubSeq(v, r + 1, r + n)) = n
         /\ \A i \in 1..n : SubSeq(v, r + 1, r + n)[i] = v[r + i]
<1>1. Len(v) \in Nat
  BY LenProperties
<1>2. \A i \in r + 1 .. r + n : v[i] \in Cells
  BY <1>1, ElementOfSeq
<1>3. /\ SubSeq(v, r + 1, r + n) \in Seq(Cells)
      /\ Len(SubSeq(v, r + 1, r + n))
           = IF r + 1 <= r + n THEN r + n - (r + 1) + 1 ELSE 0
      /\ \A i \in 1 .. r + n - (r + 1) + 1 :
           SubSeq(v, r + 1, r + n)[i] = v[r + 1 + i - 1]
  BY <1>2, SubSeqProperties
<1>4. r + n - (r + 1) + 1 = n /\ \A i \in 1..n : r + 1 + i - 1 = r + i
  OBVIOUS
<1>5. Len(SubSeq(v, r + 1, r + n)) = n
  BY <1>3
<1>6. ASSUME NEW i \in 1..n PROVE SubSeq(v, r + 1, r + n)[i] = v[r + i]
  BY <1>3, <1>4
<1>. QED  BY <1>3, <1>5, <1>6

\* What lies at the read position
LEMMA FrontFacts ==
  ASSUME NEW o, Sound(o), NEW n \in Nat, n <= readableBytes(o)
  PROVE  /\ Front(o, n) \in Seq(Cells) /\ Len(Front(o, n)) = n
         /\ \A i \in 1..n : Front(o, n)[i] = o._buf[o._posRead + i]
<1>1. /\ o._buf \in Seq(Cells) /\ o._posRead \in Nat /\ o._posWrite \in Nat
      /\ Len(o._buf) \in Nat
  BY LenProperties DEF Sound, Buffer
<1>2. o._posRead + n <= Len(o._buf)
  BY <1>1 DEF Sound, readableBytes
<1>. QED  BY <1>1, <1>2, SliceFacts DEF Front

LEMMA ContentFacts ==
  ASSUME NEW o, Sound(o)
  PROVE  /\ readableBytes(o) \in Nat /\ writableBytes(o) \in Nat
         /\ Content(o) \in Seq(Cells) /\ Len(Content(o)) = readableBytes(o)
         /\ \A i \in 1..readableBytes(o) : Content(o)[i] = o._buf[o._posRead + i]
<1>1. readableBytes(o) \in Nat /\ writableBytes(o) \in Nat
  BY LenProperties DEF Sound, Buffer, readableBytes, writableBytes
<1>. QED  BY <1>1, FrontFacts DEF Content

\* Two sound objects hold the same if they agree on every byte.
LEMMA SameContent ==
  ASSUME NEW o, Sound(o), NEW p, Sound(p), readableBytes(o) = readableBytes(p),
         \A i \in 1..readableBytes(o) :
           o._buf[o._posRead + i] = p._buf[p._posRead + i]
  PROVE  Content(o) = Content(p)
BY ContentFacts, SeqEqual

-----------------------------------------------------------------------------
(* The calls                                                                *)

LEMMA ShrinkFacts ==
  ASSUME NEW o, Sound(o)
  PROVE  /\ Sound(Shrink(o)) /\ Content(Shrink(o)) = Content(o)
         /\ readableBytes(Shrink(o)) = readableBytes(o)
         /\ Len(Shrink(o)._buf) = Len(o._buf)
         /\ Shrink(o)._posRead = 0 /\ Shrink(o)._posWrite = readableBytes(o)
<1>. DEFINE r == readableBytes(o)
            v == MemMove(o._buf, 0, Front(o, r))
            p == Shrink(o)
<1>1. /\ o._buf \in Seq(Cells) /\ Len(o._buf) \in Nat /\ r \in Nat
      /\ o._posRead + r <= Len(o._buf) /\ o._posRead \in Nat
  <2>1. /\ o._buf \in Seq(Cells) /\ Len(o._buf) \in Nat
        /\ o._posRead \in Nat /\ o._posWrite \in Nat
    BY LenProperties DEF Sound, Buffer
  <2>2. o._posRead <= o._posWrite /\ o._posWrite <= Len(o._buf)
    BY DEF Sound
  <2>. QED  BY <2>1, <2>2 DEF readableBytes
<1>2. /\ Front(o, r) \in Seq(Cells) /\ Len(Front(o, r)) = r
      /\ \A i \in 1..r : Front(o, r)[i] = o._buf[o._posRead + i]
  BY ContentFacts DEF Content
<1>3. /\ v \in Seq(Cells) /\ Len(v) = Len(o._buf)
      /\ \A i \in 1..Len(o._buf) :
           v[i] = IF i > 0 /\ i <= 0 + Len(Front(o, r)) THEN Front(o, r)[i - 0]
                  ELSE o._buf[i]
  <2>. HIDE DEF r
  <2>. QED  BY <1>1, <1>2, MemMoveFacts
<1>4. p = [_buf |-> v, _posRead |-> 0, _posWrite |-> r]
  BY DEF Shrink
<1>. HIDE DEF v, p, r
<1>5. Sound(p) /\ readableBytes(p) = r
  BY <1>1, <1>3, <1>4 DEF Sound, Buffer, readableBytes
<1>6. ASSUME NEW i \in 1..r PROVE p._buf[p._posRead + i] = o._buf[o._posRead + i]
  <2>1. i \in 1..Len(o._buf) /\ i > 0 /\ i <= 0 + Len(Front(o, r)) /\ i - 0 = i
        /\ 0 + i = i
    BY <1>1, <1>2
  <2>. QED  BY <1>2, <1>3, <1>4, <2>1
<1>7. Content(p) = Content(o)
  BY <1>5, <1>6, SameContent DEF r
<1>. QED  BY <1>3, <1>4, <1>5, <1>7 DEF p, r

\* Room is made for n bytes, what is held stays, and the vector only grows if
\* the bytes already read are too few to make room.
LEMMA EnsureFacts ==
  ASSUME NEW o, Sound(o), NEW n \in Nat
  PROVE  LET p == EnsureWritableBytes(o, n) IN
         /\ Sound(p) /\ Content(p) = Content(o)
         /\ readableBytes(p) = readableBytes(o)
         /\ writableBytes(p) >= n
         /\ \/ Len(p._buf) = Len(o._buf)
            \/ Len(p._buf) < readableBytes(o) + n + n
<1>. DEFINE p == EnsureWritableBytes(o, n)
            v == Resize(o._buf, o._posWrite + n)
<1>1. /\ o._buf \in Seq(Cells) /\ Len(o._buf) \in Nat
      /\ o._posRead \in Nat /\ o._posWrite \in Nat
      /\ o._posRead <= o._posWrite /\ o._posWrite <= Len(o._buf)
      /\ o = [_buf |-> o._buf, _posRead |-> o._posRead, _posWrite |-> o._posWrite]
  BY LenProperties DEF Sound, Buffer
<1>2. CASE writableBytes(o) >= n
  <2>1. p = o
    BY <1>1, <1>2 DEF EnsureWritableBytes, writableBytes
  <2>. QED  BY <1>2, <2>1
<1>3. CASE writableBytes(o) < n /\ ~ (writableBytes(o) + o._posRead < n)
  <2>1. p = Shrink(o)
    BY <1>3 DEF EnsureWritableBytes, MakeSpace
  <2>2. Sound(p) /\ Content(p) = Content(o) /\ readableBytes(p) = readableBytes(o)
        /\ Len(p._buf) = Len(o._buf) /\ p._posWrite = readableBytes(o)
    BY <2>1, ShrinkFacts
  <2>3. writableBytes(p) >= n
    BY <1>1, <1>3, <2>2 DEF writableBytes, readableBytes
  <2>. QED  BY <2>2, <2>3
<1>4. CASE writableBytes(o) < n /\ writableBytes(o) + o._posRead < n
  <2>1. p = [o EXCEPT !._buf = v]
    BY <1>4 DEF EnsureWritableBytes, MakeSpace
  <2>2. p = [_buf |-> v, _posRead |-> o._posRead, _posWrite |-> o._posWrite]
    BY <1>1, <2>1
  <2>3. /\ v \in Seq(Cells) /\ Len(v) = o._posWrite + n
        /\ \A i \in 1 .. o._posWrite + n : i <= Len(o._buf) => v[i] = o._buf[i]
    <3>1. o._posWrite + n \in Nat
      BY <1>1
    <3>. QED  BY <1>1, <3>1, ResizeFacts
  <2>. HIDE DEF v, p
  <2>4. Sound(p) /\ readableBytes(p) = readableBytes(o) /\ writableBytes(p) = n
    BY <1>1, <2>2, <2>3 DEF Sound, Buffer, readableBytes, writableBytes
  <2>5. ASSUME NEW i \in 1..readableBytes(o)
        PROVE  o._buf[o._posRead + i] = p._buf[p._posRead + i]
    <3>1. o._posRead + i \in 1 .. o._posWrite + n /\ o._posRead + i <= Len(o._buf)
      BY <1>1 DEF readableBytes
    <3>. QED  BY <2>2, <2>3, <3>1
  <2>6. Content(p) = Content(o)
    BY <2>4, <2>5, SameContent
  <2>7. Len(p._buf) < readableBytes(o) + n + n
    BY <1>1, <1>4, <2>2, <2>3 DEF readableBytes, writableBytes
  <2>. QED  BY <2>4, <2>6, <2>7 DEF p
<1>5. writableBytes(o) \in Int
  BY <1>1 DEF writableBytes
<1>. QED  BY <1>1, <1>2, <1>3, <1>4, <1>5

LEMMA WriteFacts ==
  ASSUME NEW o, Sound(o), NEW s \in Seq(Cells), Len(s) <= writableBytes(o)
  PROVE  /\ Sound(Write(o, s)) /\ Content(Write(o, s)) = Content(o) \o s
         /\ readableBytes(Write(o, s)) = readableBytes(o) + Len(s)
         /\ Len(Write(o, s)._buf) = Len(o._buf)
<1>. DEFINE v == MemMove(o._buf, o._posWrite, s)
            p == Write(o, s)
            r == readableBytes(o)
<1>1. /\ o._buf \in Seq(Cells) /\ Len(o._buf) \in Nat /\ Len(s) \in Nat
      /\ o._posRead \in Nat /\ o._posWrite \in Nat
      /\ o = [_buf |-> o._buf, _posRead |-> o._posRead, _posWrite |-> o._posWrite]
  BY LenProperties DEF Sound, Buffer
<1>2. /\ o._posRead <= o._posWrite /\ o._posWrite + Len(s) <= Len(o._buf)
      /\ r \in Nat /\ o._posRead + r = o._posWrite
  BY <1>1 DEF Sound, writableBytes, readableBytes
<1>3. /\ v \in Seq(Cells) /\ Len(v) = Len(o._buf)
      /\ \A i \in 1..Len(o._buf) :
           v[i] = IF i > o._posWrite /\ i <= o._posWrite + Len(s)
                  THEN s[i - o._posWrite] ELSE o._buf[i]
  BY <1>1, MemMoveFacts
<1>4. p = [_buf |-> v, _posRead |-> o._posRead, _posWrite |-> o._posWrite + Len(s)]
  <2>. DEFINE e == [o EXCEPT !._buf = v]
  <2>1. e = [_buf |-> v, _posRead |-> o._posRead, _posWrite |-> o._posWrite]
    BY <1>1
  <2>2. p = [e EXCEPT !._posWrite = e._posWrite + Len(s)]
    BY DEF Write, hasWritten
  <2>. HIDE DEF e, v
  <2>. QED  BY <2>1, <2>2
<1>. HIDE DEF v, p, r
<1>5. Sound(p) /\ readableBytes(p) = r + Len(s)
  <2>1. p \in Buffer
    BY <1>1, <1>3, <1>4 DEF Buffer
  <2>2. p._posRead <= p._posWrite /\ p._posWrite <= Len(p._buf)
    BY <1>1, <1>2, <1>3, <1>4
  <2>3. readableBytes(p) = r + Len(s)
    BY <1>1, <1>2, <1>4 DEF readableBytes
  <2>. QED  BY <2>1, <2>2, <2>3 DEF Sound
<1>6. /\ Content(p) \in Seq(Cells) /\ Len(Content(p)) = r + Len(s)
      /\ \A i \in 1 .. r + Len(s) : Content(p)[i] = p._buf[p._posRead + i]
  BY <1>5, ContentFacts
<1>7. /\ Content(o) \in Seq(Cells) /\ Len(Content(o)) = r
      /\ \A i \in 1..r : Content(o)[i] = o._buf[o._posRead + i]
  BY ContentFacts DEF r
<1>8. /\ Content(o) \o s \in Seq(Cells) /\ Len(Content(o) \o s) = r + Len(s)
      /\ \A i \in 1 .. r + Len(s) :
           (Content(o) \o s)[i] = IF i <= r THEN Content(o)[i] ELSE s[i - r]
  BY <1>7, ConcatProperties
<1>9. ASSUME NEW i \in 1 .. r + Len(s)
      PROVE  Content(p)[i] = (Content(o) \o s)[i]
  <2>1. Content(p)[i] = v[o._posRead + i] /\ o._posRead + i \in 1..Len(o._buf)
    BY <1>1, <1>2, <1>4, <1>6
  <2>2. CASE i <= r
    <3>1. ~ (o._posRead + i > o._posWrite) /\ i \in 1..r
      BY <1>1, <1>2, <2>2
    <3>2. v[o._posRead + i] = o._buf[o._posRead + i]
      BY <1>3, <2>1, <3>1
    <3>. QED  BY <1>7, <1>8, <2>1, <2>2, <3>1, <3>2
  <2>3. CASE ~ (i <= r)
    <3>1. /\ o._posRead + i > o._posWrite /\ o._posRead + i <= o._posWrite + Len(s)
          /\ (o._posRead + i) - o._posWrite = i - r
      BY <1>1, <1>2, <2>3
    <3>2. \A j \in 1..Len(o._buf) :
            j > o._posWrite /\ j <= o._posWrite + Len(s) => v[j] = s[j - o._posWrite]
      BY <1>3
    <3>3. v[o._posRead + i] = s[(o._posRead + i) - o._posWrite]
      BY <2>1, <3>1, <3>2
    <3>. QED  BY <1>8, <2>1, <2>3, <3>1, <3>3
  <2>. QED  BY <2>2, <2>3
<1>10. Content(p) = Content(o) \o s
  BY <1>6, <1>8, <1>9, SeqEqual
<1>. QED  BY <1>3, <1>4, <1>5, <1>10 DEF p, r

LEMMA AppendFacts ==
  ASSUME NEW o, Sound(o), NEW s \in Seq(Cells)
  PROVE  LET p == AppendTo(o, s) IN
         /\ Sound(p) /\ Content(p) = Content(o) \o s
         /\ readableBytes(p) = readableBytes(o) + Len(s)
         /\ \/ Len(p._buf) = Len(o._buf)
            \/ Len(p._buf) < readableBytes(o) + Len(s) + Len(s)
<1>1. Len(s) \in Nat
  BY LenProperties
<1>. DEFINE q == EnsureWritableBytes(o, Len(s))
<1>2. /\ Sound(q) /\ Content(q) = Content(o) /\ readableBytes(q) = readableBytes(o)
      /\ writableBytes(q) >= Len(s)
      /\ \/ Len(q._buf) = Len(o._buf)
         \/ Len(q._buf) < readableBytes(o) + Len(s) + Len(s)
  BY <1>1, EnsureFacts
<1>3. Len(s) <= writableBytes(q)
  BY <1>1, <1>2, ContentFacts
<1>. HIDE DEF q
<1>4. /\ Sound(Write(q, s)) /\ Content(Write(q, s)) = Content(q) \o s
      /\ readableBytes(Write(q, s)) = readableBytes(q) + Len(s)
      /\ Len(Write(q, s)._buf) = Len(q._buf)
  BY <1>2, <1>3, WriteFacts
<1>. QED  BY <1>2, <1>4 DEF AppendTo, q

LEMMA ReadFacts ==
  ASSUME NEW o, Sound(o), NEW n \in Nat, n <= readableBytes(o)
  PROVE  /\ Sound(hasRead(o, n))
         /\ Content(hasRead(o, n)) = SubSeq(Content(o), n + 1, Len(Content(o)))
         /\ readableBytes(hasRead(o, n)) = readableBytes(o) - n
         /\ hasRead(o, n)._buf = o._buf
<1>. DEFINE p == hasRead(o, n)
            r == readableBytes(o)
<1>1. /\ o._buf \in Seq(Cells) /\ Len(o._buf) \in Nat
      /\ o._posRead \in Nat /\ o._posWrite \in Nat
      /\ p = [_buf |-> o._buf, _posRead |-> o._posRead + n, _posWrite |-> o._posWrite]
  BY LenProperties DEF Sound, Buffer, hasRead
<1>2. r \in Nat /\ n <= r /\ n + (r - n) = r /\ r - n \in Nat
  BY ContentFacts
<1>. HIDE DEF p
<1>3. Sound(p) /\ readableBytes(p) = r - n
  BY <1>1, <1>2 DEF Sound, Buffer, readableBytes
<1>4. /\ Content(p) \in Seq(Cells) /\ Len(Content(p)) = r - n
      /\ \A i \in 1 .. r - n : Content(p)[i] = p._buf[p._posRead + i]
  BY <1>3, ContentFacts
<1>5. /\ Content(o) \in Seq(Cells) /\ Len(Content(o)) = r
      /\ \A i \in 1..r : Content(o)[i] = o._buf[o._posRead + i]
  BY ContentFacts
<1>. HIDE DEF r
<1>6. /\ SubSeq(Content(o), n + 1, r) \in Seq(Cells)
      /\ Len(SubSeq(Content(o), n + 1, r)) = r - n
      /\ \A i \in 1 .. r - n : SubSeq(Content(o), n + 1, r)[i] = Content(o)[n + i]
  <2>1. n + (r - n) <= Len(Content(o))
    BY <1>2, <1>5
  <2>. QED  BY <1>2, <1>5, <2>1, SliceFacts
<1>7. ASSUME NEW i \in 1 .. r - n
      PROVE  Content(p)[i] = SubSeq(Content(o), n + 1, r)[i]
  <2>1. n + i \in 1..r /\ o._posRead + n + i = o._posRead + (n + i)
    BY <1>1, <1>2
  <2>. QED  BY <1>1, <1>4, <1>5, <1>6, <2>1
<1>8. Content(p) = SubSeq(Content(o), n + 1, r)
  BY <1>4, <1>6, <1>7, SeqEqual
<1>. QED  BY <1>1, <1>3, <1>5, <1>8 DEF p, r

LEMMA EmptyFacts ==
  /\ Sound(Empty) /\ Content(Empty) = <<>> /\ readableBytes(Empty) = 0
  /\ Len(Empty._buf) = 0
<1>1. <<>> \in Seq(Cells) /\ Len(<<>>) = 0
  BY EmptySeq
<1>2. Empty = [_buf |-> <<>>, _posRead |-> 0, _posWrite |-> 0]
  BY DEF Empty
<1>3. Sound(Empty) /\ readableBytes(Empty) = 0 /\ Len(Empty._buf) = 0
  BY <1>1, <1>2 DEF Sound, Buffer, readableBytes
<1>4. Content(Empty) \in Seq(Cells) /\ Len(Content(Empty)) = 0
  BY <1>3, ContentFacts
<1>. QED  BY <1>3, <1>4, EmptySeq

LEMMA SizedFacts ==
  ASSUME NEW n \in Nat
  PROVE  /\ Sound(Sized(n)) /\ Content(Sized(n)) = <<>>
         /\ readableBytes(Sized(n)) = 0 /\ Len(Sized(n)._buf) = n
<1>1. Zeros(n) \in Seq(Cells) /\ Len(Zeros(n)) = n
  <2>1. Zeros(n) \in [1..n -> Cells]
    BY DEF Zeros, Cells
  <2>. QED  BY <2>1, VectorIsSeq
<1>2. Sized(n) = [_buf |-> Zeros(n), _posRead |-> 0, _posWrite |-> 0]
  BY DEF Sized
<1>3. Sound(Sized(n)) /\ readableBytes(Sized(n)) = 0 /\ Len(Sized(n)._buf) = n
  BY <1>1, <1>2 DEF Sound, Buffer, readableBytes
<1>4. Content(Sized(n)) \in Seq(Cells) /\ Len(Content(Sized(n))) = 0
  BY <1>3, ContentFacts
<1>. QED  BY <1>3, <1>4, EmptySeq

LEMMA ShrinkToFitFacts ==
  ASSUME NEW o, Sound(o)
  PROVE  /\ Sound(ShrinkToFit(o)) /\ Content(ShrinkToFit(o)) = Content(o)
         /\ readableBytes(ShrinkToFit(o)) = readableBytes(o)
         /\ Len(ShrinkToFit(o)._buf) = readableBytes(o)
<1>. DEFINE m == Shrink(o)
            r == readableBytes(o)
            v == SubSeq(m._buf, 1, r)
            p == ShrinkToFit(o)
<1>1. /\ Sound(m) /\ Content(m) = Content(o) /\ readableBytes(m) = r
      /\ m._posRead = 0 /\ m._posWrite = r
  BY ShrinkFacts
<1>2. r \in Nat
  BY ContentFacts
<1>. HIDE DEF m, r
<1>3. /\ m._buf \in Seq(Cells) /\ Len(m._buf) \in Nat /\ 0 + r <= Len(m._buf)
      /\ m = [_buf |-> m._buf, _posRead |-> 0, _posWrite |-> r]
  BY <1>1, <1>2, LenProperties DEF Sound, Buffer
<1>4. /\ v \in Seq(Cells) /\ Len(v) = r
      /\ \A i \in 1..r : v[i] = m._buf[i]
  <2>1. 0 + 1 = 1 /\ 0 + r = r /\ \A i \in 1..r : 0 + i = i
    BY <1>2
  <2>. QED  BY <1>2, <1>3, <2>1, SliceFacts
<1>5. p = [m EXCEPT !._buf = v]
  BY <1>1 DEF ShrinkToFit, m
<1>. HIDE DEF v, p
<1>6. p = [_buf |-> v, _posRead |-> 0, _posWrite |-> r]
  BY <1>3, <1>5
<1>7. Sound(p) /\ readableBytes(p) = r
  BY <1>2, <1>4, <1>6 DEF Sound, Buffer, readableBytes
<1>8. ASSUME NEW i \in 1..r PROVE p._buf[p._posRead + i] = m._buf[m._posRead + i]
  <2>1. 0 + i = i
    BY <1>2
  <2>. QED  BY <1>1, <1>4, <1>6, <2>1
<1>9. Content(p) = Content(m)
  BY <1>1, <1>7, <1>8, SameContent
<1>. QED  BY <1>1, <1>4, <1>6, <1>7, <1>9 DEF p, r

-----------------------------------------------------------------------------
(* The inductive invariant, and a step of one or of two objects             *)

\* A sound object within the bounds
Fine(o) ==
  /\ Sound(o) /\ readableBytes(o) <= MaxReadable
  /\ Len(o._buf) < MaxReadable + MaxLen

IInv ==
  /\ buf \in [Bufs -> Buffer] /\ \A b \in Bufs : Fine(buf[b])
  /\ ret \in Seq(Cells)

LEMMA OneObject ==
  ASSUME IInv, NEW b \in Bufs, NEW o, Fine(o), Set(b, o), ret' \in Seq(Cells)
  PROVE  IInv' /\ Contents' = [Contents EXCEPT ![b] = Content(o)]
<1>1. o \in Buffer
  BY DEF Fine, Sound
<1>2. buf' \in [Bufs -> Buffer] /\ \A a \in Bufs : buf'[a] = IF a = b THEN o ELSE buf[a]
  BY <1>1 DEF IInv, Set
<1>3. \A a \in Bufs : Fine(buf'[a])
  BY <1>2 DEF IInv
<1>4. Contents' = [a \in Bufs |-> Content(buf'[a])]
  BY DEF Contents
<1>. QED  BY <1>2, <1>3, <1>4 DEF IInv, Contents

LEMMA TwoObjects ==
  ASSUME IInv, NEW b \in Bufs, NEW c \in Bufs, b # c,
         NEW o, Fine(o), NEW p, Fine(p),
         SetTwo(b, o, c, p), ret' \in Seq(Cells)
  PROVE  IInv' /\ Contents' = [Contents EXCEPT ![b] = Content(o), ![c] = Content(p)]
<1>1. o \in Buffer /\ p \in Buffer
  BY DEF Fine, Sound
<1>2. /\ buf' \in [Bufs -> Buffer]
      /\ \A a \in Bufs : buf'[a] = IF a = c THEN p ELSE IF a = b THEN o ELSE buf[a]
  BY <1>1 DEF IInv, SetTwo
<1>3. \A a \in Bufs : Fine(buf'[a])
  BY <1>2 DEF IInv
<1>4. Contents' = [a \in Bufs |-> Content(buf'[a])]
  BY DEF Contents
<1>. QED  BY <1>2, <1>3, <1>4 DEF IInv, Contents

LEMMA FineNew ==
  /\ Fine(Empty) /\ \A n \in 0..MaxLen : Fine(Sized(n))
BY EmptyFacts, SizedFacts, LensAssumption DEF Fine

LEMMA FineAppend ==
  ASSUME NEW o, Fine(o), NEW s \in Seq(Cells), Len(s) <= MaxLen,
         readableBytes(o) + Len(s) <= MaxReadable
  PROVE  Fine(AppendTo(o, s)) /\ Content(AppendTo(o, s)) = Content(o) \o s
<1>. DEFINE p == AppendTo(o, s)
<1>1. /\ Sound(p) /\ Content(p) = Content(o) \o s
      /\ readableBytes(p) = readableBytes(o) + Len(s)
      /\ \/ Len(p._buf) = Len(o._buf)
         \/ Len(p._buf) < readableBytes(o) + Len(s) + Len(s)
  BY AppendFacts DEF Fine
<1>2. readableBytes(o) \in Nat /\ Len(s) \in Nat
  BY ContentFacts, LenProperties DEF Fine
<1>3. Len(p._buf) \in Nat
  BY <1>1, LenProperties DEF Sound, Buffer
<1>. HIDE DEF p
<1>4. Len(p._buf) < MaxReadable + MaxLen
  BY <1>1, <1>2, <1>3, LensAssumption DEF Fine
<1>. QED  BY <1>1, <1>4 DEF Fine, p

LEMMA FineWrite ==
  ASSUME NEW o, Fine(o), NEW s \in Seq(Cells), Len(s) <= writableBytes(o),
         readableBytes(o) + Len(s) <= MaxReadable
  PROVE  Fine(Write(o, s)) /\ Content(Write(o, s)) = Content(o) \o s
BY WriteFacts DEF Fine

LEMMA FineRead ==
  ASSUME NEW o, Fine(o), NEW n \in Nat, n <= readableBytes(o)
  PROVE  /\ Fine(hasRead(o, n))
         /\ Content(hasRead(o, n)) = SubSeq(Content(o), n + 1, Len(Content(o)))
<1>1. readableBytes(o) \in Nat
  BY ContentFacts DEF Fine
<1>. QED  BY <1>1, ReadFacts, LensAssumption DEF Fine

LEMMA FineShrink ==
  ASSUME NEW o, Fine(o)
  PROVE  /\ Fine(Shrink(o)) /\ Content(Shrink(o)) = Content(o)
         /\ Fine(ShrinkToFit(o)) /\ Content(ShrinkToFit(o)) = Content(o)
<1>1. readableBytes(o) \in Nat
  BY ContentFacts DEF Fine
<1>. QED  BY <1>1, ShrinkFacts, ShrinkToFitFacts, LensAssumption DEF Fine

\* The first n bytes of what an object holds
LEMMA FrontOfContent ==
  ASSUME NEW o, Sound(o), NEW n \in Nat, n <= readableBytes(o)
  PROVE  Front(o, n) = SubSeq(Content(o), 1, n)
<1>1. /\ Front(o, n) \in Seq(Cells) /\ Len(Front(o, n)) = n
      /\ \A i \in 1..n : Front(o, n)[i] = o._buf[o._posRead + i]
  BY FrontFacts
<1>2. /\ readableBytes(o) \in Nat
      /\ Content(o) \in Seq(Cells) /\ Len(Content(o)) = readableBytes(o)
      /\ \A i \in 1..readableBytes(o) : Content(o)[i] = o._buf[o._posRead + i]
  BY ContentFacts
<1>3. /\ SubSeq(Content(o), 1, n) \in Seq(Cells) /\ Len(SubSeq(Content(o), 1, n)) = n
      /\ \A i \in 1..n : SubSeq(Content(o), 1, n)[i] = Content(o)[i]
  <2>1. 0 + 1 = 1 /\ 0 + n = n /\ 0 + n <= Len(Content(o)) /\ \A i \in 1..n : 0 + i = i
    BY <1>2
  <2>. QED  BY <1>2, <2>1, SliceFacts
<1>4. \A i \in 1..n : Front(o, n)[i] = SubSeq(Content(o), 1, n)[i]
  BY <1>1, <1>2, <1>3
<1>. QED  BY <1>1, <1>3, <1>4, SeqEqual

LEMMA StringsAreCells ==
  ASSUME NEW s \in Strings
  PROVE  s \in Seq(Cells) /\ Len(s) <= MaxLen
<1>1. s \in Seq(Bytes) /\ Len(s) <= MaxLen
  BY StringsAssumption
<1>2. Bytes \subseteq Cells
  BY DEF Cells
<1>. QED  BY <1>1, <1>2, SeqMonotonic

-----------------------------------------------------------------------------
(* One lemma for each group of calls: the invariant stays, and the call is  *)
(* the abstract one                                                         *)

LEMMA ContentsOf ==
  ASSUME IInv, NEW b \in Bufs
  PROVE  /\ Fine(buf[b]) /\ Sound(buf[b]) /\ readableBytes(buf[b]) \in Nat
         /\ Contents[b] = Content(buf[b])
         /\ Content(buf[b]) \in Seq(Cells)
         /\ Len(Content(buf[b])) = readableBytes(buf[b])
BY ContentFacts DEF IInv, Fine, Contents

LEMMA NothingReturned == <<>> \in Seq(Cells)
BY EmptySeq

LEMMA ConstructStep ==
  ASSUME IInv, NEW b \in Bufs,
         \/ Construct(b) \/ Reset(b)
         \/ \E n \in 0..MaxLen : ConstructSize(b, n)
         \/ \E s \in Strings : ConstructFrom(b, s)
  PROVE  IInv' /\ \E s \in Strings \cup {<<>>} : Queue!New(b, s)
<1>1. CASE Construct(b) \/ Reset(b)
  <2>1. IInv' /\ Contents' = [Contents EXCEPT ![b] = <<>>] /\ ret' = <<>>
    BY <1>1, FineNew, EmptyFacts, OneObject, NothingReturned
       DEF Construct, Reset, Keep
  <2>. QED  BY <2>1 DEF Queue!New
<1>2. ASSUME NEW n \in 0..MaxLen, ConstructSize(b, n)
      PROVE  IInv' /\ Queue!New(b, <<>>)
  <2>0. n \in Nat
    BY LensAssumption
  <2>1. IInv' /\ Contents' = [Contents EXCEPT ![b] = <<>>] /\ ret' = <<>>
    BY <1>2, <2>0, FineNew, SizedFacts, OneObject, NothingReturned
       DEF ConstructSize, Keep
  <2>. QED  BY <2>1 DEF Queue!New
<1>3. ASSUME NEW s \in Strings, ConstructFrom(b, s)
      PROVE  IInv' /\ Queue!New(b, s)
  <2>1. /\ s \in Seq(Cells) /\ Len(s) <= MaxLen /\ Len(s) \in 0..MaxLen
    BY StringsAreCells, LenProperties, LensAssumption
  <2>2. /\ Fine(Sized(Len(s))) /\ Content(Sized(Len(s))) = <<>>
        /\ readableBytes(Sized(Len(s))) = 0
    BY <2>1, FineNew, SizedFacts
  <2>3. 0 + Len(s) <= MaxReadable
    BY <2>1, LensAssumption
  <2>4. /\ Fine(AppendTo(Sized(Len(s)), s))
        /\ Content(AppendTo(Sized(Len(s)), s)) = <<>> \o s
    BY <2>1, <2>2, <2>3, FineAppend
  <2>5. <<>> \o s = s
    BY <2>1, ConcatEmptySeq
  <2>6. IInv' /\ Contents' = [Contents EXCEPT ![b] = s] /\ ret' = <<>>
    BY <1>3, <2>4, <2>5, OneObject, NothingReturned DEF ConstructFrom, Keep
  <2>. QED  BY <2>6 DEF Queue!New
<1>. QED  BY <1>1, <1>2, <1>3

LEMMA PutStep ==
  ASSUME IInv, NEW b \in Bufs, NEW s \in Strings,
         AppendBytes(b, s) \/ Received(b, s)
  PROVE  IInv' /\ Queue!Put(b, s)
<1>1. s \in Seq(Cells) /\ Len(s) <= MaxLen
  BY StringsAreCells
<1>2. Fine(buf[b]) /\ Contents[b] = Content(buf[b])
  BY ContentsOf
<1>3. CASE AppendBytes(b, s)
  <2>1. /\ Fine(AppendTo(buf[b], s)) /\ Content(AppendTo(buf[b], s)) = Content(buf[b]) \o s
    BY <1>1, <1>2, <1>3, FineAppend DEF AppendBytes, Room
  <2>2. IInv' /\ Contents' = [Contents EXCEPT ![b] = Contents[b] \o s] /\ ret' = <<>>
    BY <1>2, <1>3, <2>1, OneObject, NothingReturned DEF AppendBytes, Keep
  <2>. QED  BY <2>2 DEF Queue!Put
<1>4. CASE Received(b, s)
  <2>1. /\ Fine(Write(buf[b], s)) /\ Content(Write(buf[b], s)) = Content(buf[b]) \o s
    BY <1>1, <1>2, <1>4, FineWrite DEF Received, Room
  <2>2. IInv' /\ Contents' = [Contents EXCEPT ![b] = Contents[b] \o s] /\ ret' = <<>>
    BY <1>2, <1>4, <2>1, OneObject, NothingReturned DEF Received, Keep
  <2>. QED  BY <2>2 DEF Queue!Put
<1>. QED  BY <1>3, <1>4

LEMMA PutAllStep ==
  ASSUME IInv, NEW b \in Bufs, NEW c \in Bufs \ {b}, AppendBuffer(b, c)
  PROVE  IInv' /\ Queue!PutAll(b, c)
<1>. DEFINE n == readableBytes(buf[c])
<1>1. /\ Fine(buf[b]) /\ Contents[b] = Content(buf[b])
      /\ Fine(buf[c]) /\ Contents[c] = Content(buf[c])
      /\ Content(buf[c]) \in Seq(Cells) /\ Len(Content(buf[c])) = n
  BY ContentsOf
<1>2. Front(buf[c], n) = Content(buf[c])
  BY DEF Content
<1>3. n <= MaxLen /\ readableBytes(buf[b]) + n <= MaxReadable
  BY DEF AppendBuffer, Room
<1>4. /\ Fine(AppendTo(buf[b], Content(buf[c])))
      /\ Content(AppendTo(buf[b], Content(buf[c]))) = Content(buf[b]) \o Content(buf[c])
  BY <1>1, <1>3, FineAppend
<1>5. IInv' /\ Contents' = [Contents EXCEPT ![b] = Contents[b] \o Contents[c]]
      /\ ret' = <<>>
  BY <1>1, <1>2, <1>4, OneObject, NothingReturned DEF AppendBuffer, Keep
<1>. QED  BY <1>5 DEF Queue!PutAll, Queue!Put

LEMMA ReadStep ==
  ASSUME IInv, NEW b \in Bufs, NEW n \in 0..MaxLen, HasRead(b, n)
  PROVE  IInv' /\ Queue!Skip(b, n)
<1>1. /\ Fine(buf[b]) /\ Contents[b] = Content(buf[b]) /\ n \in Nat
      /\ Len(Contents[b]) = readableBytes(buf[b])
  BY ContentsOf, LensAssumption
<1>2. /\ Fine(hasRead(buf[b], n))
      /\ Content(hasRead(buf[b], n)) = SubSeq(Contents[b], n + 1, Len(Contents[b]))
  BY <1>1, FineRead DEF HasRead
<1>3. /\ IInv' /\ ret' = <<>>
      /\ Contents' = [Contents EXCEPT ![b] = SubSeq(Contents[b], n + 1, Len(Contents[b]))]
  BY <1>1, <1>2, OneObject, NothingReturned DEF HasRead, Keep
<1>. QED  BY <1>1, <1>3 DEF Queue!Skip, Queue!Rest, HasRead

LEMMA TakeAllStep ==
  ASSUME IInv, NEW b \in Bufs, RetrieveAll2String(b)
  PROVE  IInv' /\ Queue!TakeAll(b)
<1>. DEFINE n == readableBytes(buf[b])
            q == Content(buf[b])
<1>1. /\ Fine(buf[b]) /\ Contents[b] = q /\ n \in Nat
      /\ q \in Seq(Cells) /\ Len(q) = n
  BY ContentsOf
<1>2. Fine(hasRead(buf[b], n)) /\ Content(hasRead(buf[b], n)) = SubSeq(q, n + 1, n)
  BY <1>1, FineRead
<1>3. SubSeq(q, n + 1, n) = <<>>
  BY <1>1, SubSeqEmpty
<1>4. ret' = q
  BY DEF RetrieveAll2String, Content
<1>5. IInv' /\ Contents' = [Contents EXCEPT ![b] = <<>>]
  BY <1>1, <1>2, <1>3, <1>4, OneObject DEF RetrieveAll2String
<1>. QED  BY <1>1, <1>4, <1>5 DEF Queue!TakeAll

\* A call that changes no object
LEMMA NoObject ==
  ASSUME IInv, UNCHANGED buf, ret' \in Seq(Cells)
  PROVE  IInv' /\ Contents' = Contents
BY DEF IInv, Contents

LEMMA TakeStep ==
  ASSUME IInv, NEW b \in Bufs, NEW n \in 0..MaxLen, Retrieve2String(b, n)
  PROVE  IInv' /\ Queue!Take(b, n)
<1>. DEFINE q == Content(buf[b])
<1>1. /\ Fine(buf[b]) /\ Sound(buf[b]) /\ Contents[b] = q /\ n \in Nat
      /\ q \in Seq(Cells) /\ Len(q) = readableBytes(buf[b]) /\ Len(q) \in Nat
  BY ContentsOf, LensAssumption
<1>2. CASE Enough(b, n)
  <2>1. n <= readableBytes(buf[b])
    BY <1>1, <1>2 DEF Enough
  <2>2. /\ Front(buf[b], n) = SubSeq(q, 1, n) /\ Front(buf[b], n) \in Seq(Cells)
        /\ Fine(hasRead(buf[b], n))
        /\ Content(hasRead(buf[b], n)) = SubSeq(q, n + 1, Len(q))
    BY <1>1, <2>1, FrontOfContent, FrontFacts, FineRead
  <2>3. ret' = SubSeq(q, 1, n) /\ Set(b, hasRead(buf[b], n)) /\ ret' \in Seq(Cells)
    BY <1>2, <2>2 DEF Retrieve2String
  <2>4. IInv' /\ Contents' = [Contents EXCEPT ![b] = SubSeq(q, n + 1, Len(q))]
    BY <2>2, <2>3, OneObject
  <2>5. n <= Len(Contents[b])
    BY <1>1, <2>1
  <2>. QED  BY <1>1, <2>3, <2>4, <2>5 DEF Queue!Take, Queue!First, Queue!Rest
<1>3. CASE ~ Enough(b, n)
  <2>1. IInv' /\ Contents' = Contents /\ ret' = <<>>
    BY <1>3, NoObject, NothingReturned DEF Retrieve2String
  <2>2. CASE n <= Len(q)
    <3>1. n = 0
      BY <1>1, <1>3, <2>2 DEF Enough
    <3>2. SubSeq(q, 1, 0) = <<>> /\ SubSeq(q, 1, Len(q)) = q
      BY <1>1, SubSeqEmpty, SubSeqFull
    <3>3. SubSeq(q, n + 1, Len(q)) = q
      BY <3>1, <3>2
    <3>4. Contents = [Contents EXCEPT ![b] = q]
      BY <1>1 DEF Contents
    <3>. QED  BY <1>1, <2>1, <3>1, <3>2, <3>3, <3>4 DEF Queue!Take, Queue!First, Queue!Rest
  <2>3. CASE ~ (n <= Len(q))
    BY <1>1, <2>1, <2>3 DEF Queue!Take
  <2>. QED  BY <2>1, <2>2, <2>3
<1>. QED  BY <1>2, <1>3

LEMMA PeekStep ==
  ASSUME IInv, NEW b \in Bufs, PeekUShort(b)
  PROVE  IInv' /\ Queue!Peek(b)
<1>. DEFINE q == Content(buf[b])
<1>1. /\ Sound(buf[b]) /\ Contents[b] = q /\ Len(q) = readableBytes(buf[b])
      /\ Len(q) \in Nat
  BY ContentsOf
<1>2. CASE Len(q) > 2
  <2>0. 2 \in Nat /\ 2 <= readableBytes(buf[b])
    BY <1>1, <1>2
  <2>1. Front(buf[b], 2) = SubSeq(q, 1, 2) /\ Front(buf[b], 2) \in Seq(Cells)
    BY <1>1, <2>0, FrontOfContent, FrontFacts
  <2>2. ret' = SubSeq(q, 1, 2) /\ ret' \in Seq(Cells) /\ UNCHANGED buf
    BY <1>1, <1>2, <2>1 DEF PeekUShort
  <2>. QED  BY <1>1, <1>2, <2>2, NoObject DEF Queue!Peek, Queue!First
<1>3. CASE ~ (Len(q) > 2)
  <2>1. <<Zero, Zero>> \in Seq(Cells)
    BY DEF Cells
  <2>2. ret' = <<Zero, Zero>> /\ ret' \in Seq(Cells) /\ UNCHANGED buf
    BY <1>1, <1>3, <2>1 DEF PeekUShort
  <2>. QED  BY <1>1, <1>3, <2>2, NoObject DEF Queue!Peek
<1>. QED  BY <1>2, <1>3

\* shrink and shrink_to_fit show as a read of nothing.
LEMMA ShrinkStep ==
  ASSUME IInv, NEW b \in Bufs, ShrinkCall(b)
  PROVE  IInv' /\ Queue!Skip(b, 0)
<1>. DEFINE q == Content(buf[b])
<1>1. /\ Fine(buf[b]) /\ Contents[b] = q /\ q \in Seq(Cells) /\ Len(q) \in Nat
  BY ContentsOf
<1>2. IInv' /\ Contents' = [Contents EXCEPT ![b] = q] /\ ret' = <<>>
  BY <1>1, FineShrink, OneObject, NothingReturned DEF ShrinkCall, Keep
<1>3. 0 + 1 = 1 /\ SubSeq(q, 1, Len(q)) = q
  BY <1>1, SubSeqFull
<1>4. SubSeq(q, 0 + 1, Len(q)) = q
  BY <1>3
<1>5. 0 <= Len(Contents[b])
  BY <1>1
<1>. HIDE DEF q
<1>. QED  BY <1>1, <1>2, <1>4, <1>5 DEF Queue!Skip, Queue!Rest

LEMMA ExchangeStep ==
  ASSUME IInv, NEW b \in Bufs, NEW c \in Bufs \ {b},
         ConstructMove(b, c) \/ Swap(b, c) \/ Assign(b, c)
  PROVE  IInv' /\ (Queue!Exchange(b, c) \/ Queue!Move(b, c) \/ Queue!Copy(b, c))
<1>1. /\ Fine(buf[b]) /\ Contents[b] = Content(buf[b])
      /\ Fine(buf[c]) /\ Contents[c] = Content(buf[c]) /\ b # c /\ c \in Bufs
  BY ContentsOf
<1>2. CASE ConstructMove(b, c)
  <2>1. SetTwo(b, Empty, c, buf[b]) /\ ret' = <<>> /\ ret' \in Seq(Cells)
    BY <1>2, NothingReturned DEF ConstructMove, Keep
  <2>2. Fine(Empty) /\ Content(Empty) = <<>>
    BY FineNew, EmptyFacts
  <2>3. IInv' /\ Contents' = [Contents EXCEPT ![b] = Content(Empty), ![c] = Content(buf[b])]
    BY <1>1, <2>1, <2>2, TwoObjects
  <2>. QED  BY <1>1, <2>1, <2>2, <2>3 DEF Queue!Move
<1>3. CASE Swap(b, c)
  <2>1. SetTwo(b, buf[c], c, buf[b]) /\ ret' = <<>> /\ ret' \in Seq(Cells)
    BY <1>3, NothingReturned DEF Swap, Keep
  <2>2. IInv' /\ Contents' = [Contents EXCEPT ![b] = Content(buf[c]), ![c] = Content(buf[b])]
    BY <1>1, <2>1, TwoObjects
  <2>. QED  BY <1>1, <2>1, <2>2 DEF Queue!Exchange
<1>4. CASE Assign(b, c)
  <2>1. IInv' /\ Contents' = [Contents EXCEPT ![c] = Contents[b]] /\ ret' = <<>>
    BY <1>1, <1>4, OneObject, NothingReturned DEF Assign, Keep
  <2>. QED  BY <2>1 DEF Queue!Copy
<1>. QED  BY <1>2, <1>3, <1>4

LEMMA TakeIntoStep ==
  ASSUME IInv, NEW b \in Bufs, NEW c \in Bufs \ {b}, NEW n \in 0..MaxLen,
         Retrieve2Buffer(b, c, n)
  PROVE  IInv' /\ Queue!TakeInto(b, c, n)
<1>. DEFINE q == Content(buf[b])
<1>1. /\ Fine(buf[b]) /\ Sound(buf[b]) /\ Contents[b] = q /\ n \in Nat
      /\ q \in Seq(Cells) /\ Len(q) = readableBytes(buf[b]) /\ Len(q) \in Nat
      /\ b # c /\ c \in Bufs /\ n <= MaxLen
  BY ContentsOf, LensAssumption
<1>2. ret' = <<>> /\ ret' \in Seq(Cells)
  BY NothingReturned DEF Retrieve2Buffer, Keep
<1>3. Fine(Empty) /\ Content(Empty) = <<>> /\ readableBytes(Empty) = 0
  BY FineNew, EmptyFacts
<1>4. CASE Enough(b, n)
  <2>. DEFINE s == Front(buf[b], n)
  <2>1. n <= readableBytes(buf[b])
    BY <1>1, <1>4 DEF Enough
  <2>2. /\ s = SubSeq(q, 1, n) /\ s \in Seq(Cells) /\ Len(s) = n
        /\ Fine(hasRead(buf[b], n))
        /\ Content(hasRead(buf[b], n)) = SubSeq(q, n + 1, Len(q))
    BY <1>1, <2>1, FrontOfContent, FrontFacts, FineRead
  <2>3. SetTwo(b, hasRead(buf[b], n), c, AppendTo(Empty, s))
    BY <1>4 DEF Retrieve2Buffer
  <2>. HIDE DEF s
  <2>4. 0 + Len(s) <= MaxReadable
    BY <1>1, <2>2, LensAssumption
  <2>5. Fine(AppendTo(Empty, s)) /\ Content(AppendTo(Empty, s)) = <<>> \o s
    BY <1>1, <1>3, <2>2, <2>4, FineAppend
  <2>6. <<>> \o s = SubSeq(q, 1, n)
    BY <2>2, ConcatEmptySeq
  <2>7. /\ IInv'
        /\ Contents' = [Contents EXCEPT ![b] = SubSeq(q, n + 1, Len(q)),
                                        ![c] = SubSeq(q, 1, n)]
    BY <1>1, <1>2, <2>2, <2>3, <2>5, <2>6, TwoObjects
  <2>8. n <= Len(Contents[b])
    BY <1>1, <2>1
  <2>. QED  BY <1>1, <1>2, <2>7, <2>8 DEF Queue!TakeInto, Queue!First, Queue!Rest
<1>5. CASE ~ Enough(b, n)
  <2>1. Set(c, Empty)
    BY <1>5 DEF Retrieve2Buffer
  <2>2. IInv' /\ Contents' = [Contents EXCEPT ![c] = <<>>]
    BY <1>1, <1>2, <1>3, <2>1, OneObject
  <2>3. Contents' = [Contents EXCEPT ![b] = q, ![c] = <<>>]
    BY <1>1, <2>2 DEF Contents
  <2>4. CASE n <= Len(q)
    <3>1. n = 0
      BY <1>1, <1>5, <2>4 DEF Enough
    <3>2. SubSeq(q, 1, 0) = <<>> /\ SubSeq(q, 1, Len(q)) = q
      BY <1>1, SubSeqEmpty, SubSeqFull
    <3>3. SubSeq(q, n + 1, Len(q)) = q /\ SubSeq(q, 1, n) = <<>>
      BY <3>1, <3>2
    <3>. HIDE DEF q
    <3>. QED  BY <1>1, <1>2, <2>2, <2>3, <2>4, <3>3
              DEF Queue!TakeInto, Queue!First, Queue!Rest
  <2>5. CASE ~ (n <= Len(q))
    <3>. HIDE DEF q
    <3>. QED  BY <1>1, <1>2, <2>2, <2>3, <2>5 DEF Queue!TakeInto
  <2>. QED  BY <2>4, <2>5
<1>. QED  BY <1>4, <1>5

-----------------------------------------------------------------------------
LEMMA InitStep == Init => IInv /\ Queue!Init
<1>. SUFFICES ASSUME Init PROVE IInv /\ Queue!Init
  OBVIOUS
<1>1. /\ Fine(Empty) /\ Content(Empty) = <<>> /\ Empty \in Buffer
  BY FineNew, EmptyFacts DEF Fine, Sound
<1>2. \A b \in Bufs : buf[b] = Empty
  BY DEF Init
<1>3. IInv
  BY <1>1, <1>2, NothingReturned DEF Init, IInv
<1>4. Contents = [b \in Bufs |-> <<>>]
  BY <1>1, <1>2 DEF Contents
<1>. QED  BY <1>3, <1>4 DEF Init, Queue!Init

LEMMA NextStep == IInv /\ [Next]_vars => IInv' /\ [Queue!Next]_<<Contents, ret>>
<1>. SUFFICES ASSUME IInv, [Next]_vars
              PROVE  IInv' /\ [Queue!Next]_<<Contents, ret>>
  OBVIOUS
<1>1. CASE UNCHANGED vars
  <2>1. UNCHANGED buf /\ ret' = ret /\ ret' \in Seq(Cells)
    BY <1>1 DEF vars, IInv
  <2>. QED  BY <2>1, NoObject
<1>2. CASE Next
  <2>1. PICK b \in Bufs :
          \/ Construct(b) \/ Reset(b)
          \/ RetrieveAll2String(b) \/ PeekUShort(b) \/ ShrinkCall(b)
          \/ \E n \in 0..MaxLen :
               ConstructSize(b, n) \/ HasRead(b, n) \/ Retrieve2String(b, n)
          \/ \E s \in Strings :
               ConstructFrom(b, s) \/ AppendBytes(b, s) \/ Received(b, s)
          \/ \E c \in Bufs \ {b} :
               \/ ConstructMove(b, c) \/ AppendBuffer(b, c) \/ Swap(b, c) \/ Assign(b, c)
               \/ \E n \in 0..MaxLen : Retrieve2Buffer(b, c, n)
    BY <1>2 DEF Next
  <2>2. CASE \/ Construct(b) \/ Reset(b)
             \/ \E n \in 0..MaxLen : ConstructSize(b, n)
             \/ \E s \in Strings : ConstructFrom(b, s)
    BY <2>2, ConstructStep DEF Queue!Next
  <2>3. CASE RetrieveAll2String(b) \/ PeekUShort(b)
    BY <2>3, TakeAllStep, PeekStep DEF Queue!Next
  <2>4. CASE ShrinkCall(b)
    <3>1. IInv' /\ Queue!Skip(b, 0) /\ 0 \in 0..MaxLen
      BY <2>4, ShrinkStep, LensAssumption
    <3>. QED  BY <3>1 DEF Queue!Next
  <2>5. ASSUME NEW n \in 0..MaxLen, HasRead(b, n) \/ Retrieve2String(b, n)
        PROVE  IInv' /\ Queue!Next
    BY <2>5, ReadStep, TakeStep DEF Queue!Next
  <2>6. ASSUME NEW s \in Strings, AppendBytes(b, s) \/ Received(b, s)
        PROVE  IInv' /\ Queue!Next
    BY <2>6, PutStep DEF Queue!Next
  <2>7. ASSUME NEW c \in Bufs \ {b},
               ConstructMove(b, c) \/ AppendBuffer(b, c) \/ Swap(b, c) \/ Assign(b, c)
        PROVE  IInv' /\ Queue!Next
    BY <2>7, ExchangeStep, PutAllStep DEF Queue!Next
  <2>8. ASSUME NEW c \in Bufs \ {b}, NEW n \in 0..MaxLen, Retrieve2Buffer(b, c, n)
        PROVE  IInv' /\ Queue!Next
    BY <2>8, TakeIntoStep DEF Queue!Next
  <2>. QED  BY <2>1, <2>2, <2>3, <2>4, <2>5, <2>6, <2>7, <2>8
<1>. QED  BY <1>1, <1>2

\* No call of NetBuffer reads or writes outside its vector.
THEOREM BufferTypeCorrect == Spec => []TypeOK
<1>1. IInv => TypeOK
  BY DEF IInv, TypeOK, Fine, Sound
<1>. QED  BY <1>1, InitStep, NextStep, PTL DEF Spec

\* makeSpace keeps the vector of NetBuffer as short as what its user leaves in
\* it allows, however many bytes go through.
THEOREM BufferBounded == Spec => []NoBloat
<1>1. IInv => NoBloat
  BY DEF IInv, NoBloat, Fine
<1>. QED  BY <1>1, InitStep, NextStep, PTL DEF Spec

\* NetBuffer is a queue of bytes to its users: every call does to the readable
\* bytes what the call of ByteQueue does to the queue, and returns the same.
THEOREM BufferIsByteQueue == Spec => IsByteQueue
<1>. QED  BY InitStep, NextStep, PTL DEF Spec, IsByteQueue, Queue!Spec
=============================================================================
