-------------------------- MODULE AsyncLog_proofs --------------------------
(***************************************************************************)
(* What holds of AsyncLog for every size of buffers and messages.          *)
(***************************************************************************)
EXTENDS AsyncLog, FiniteSetTheorems, SequenceTheorems, TLAPS

(***************************************************************************)
(* The inductive invariant.  Between two rounds the worker owns two empty  *)
(* buffers and an empty batch.  It can give both away only if append took  *)
(* the spare one before, and append then put a buffer into vectorbuffers,  *)
(* so that the batch has two to give back.                                 *)
(***************************************************************************)

Between == at \in {"off", "wait", "swap"}

Round ==
  /\ kBufferNext \in {Null, <<>>}
  /\ kBufferNext = Null => vectorbuffers # <<>>
  /\ Between => /\ newBuffer1 = <<>> /\ newBuffer2 = <<>>
                /\ buffersToWrite = <<>> /\ written = 0
  /\ ~ Between => /\ buffersToWrite # <<>> /\ newBuffer1 = Null
                  /\ newBuffer2 \in {Null, <<>>}
                  /\ newBuffer2 = Null => Len(buffersToWrite) >= 2
  /\ at = "trim" => written = 0
  /\ written <= Len(buffersToWrite)

Counts == taken <= offered /\ asked <= offered

Bounded(P, k) == \A i \in 1..Len(P) : \A p \in 1..Len(P[i]) : P[i][p].id <= k

IInv == TypeOK /\ Round /\ Counts /\ NoLostWakeup

-----------------------------------------------------------------------------
(* Type correctness and the buffers                                         *)

LEMMA EmptyBuffer == <<>> \in Buffers /\ <<>> # Null /\ <<>> \in Seq(Buffers)
BY EmptySeq, NullAssumption DEF Buffers

\* One message more in a buffer
LEMMA LongerBuffer ==
  ASSUME NEW b \in Buffers, NEW k \in Nat, NEW n \in Sizes
  PROVE  Append(b, [id |-> k, size |-> n]) \in Buffers
<1>1. [id |-> k, size |-> n] \in Msgs
  BY DEF Msgs
<1>. QED  BY <1>1, AppendProperties DEF Buffers

\* A buffer more in a batch, and a batch cut in two
LEMMA LongerBatch ==
  ASSUME NEW q \in Seq(Buffers), NEW b \in Buffers
  PROVE  /\ Append(q, b) \in Seq(Buffers) /\ Append(q, b) # <<>>
         /\ Len(Append(q, b)) = Len(q) + 1
BY AppendProperties

LEMMA CutBatch ==
  ASSUME NEW q \in Seq(Buffers), Len(q) > 2
  PROVE  /\ SubSeq(q, 1, 2) \in Seq(Buffers) /\ SubSeq(q, 1, 2) # <<>>
         /\ Len(SubSeq(q, 1, 2)) = 2
         /\ SubSeq(q, 3, Len(q)) \in Seq(Buffers)
<1>1. Len(q) \in Nat /\ \A i \in 1..Len(q) : q[i] \in Buffers
  BY ElementOfSeq, LenProperties
<1>2. SubSeq(q, 1, 2) \in Seq(Buffers) /\ Len(SubSeq(q, 1, 2)) = 2
  BY <1>1, SubSeqProperties
<1>3. SubSeq(q, 3, Len(q)) \in Seq(Buffers)
  BY <1>1, SubSeqProperties
<1>. QED  BY <1>2, <1>3, EmptySeq

LEMMA InitInvariant == Init => IInv
<1>. SUFFICES ASSUME Init PROVE IInv
  OBVIOUS
<1>1. file \in Seq(Msgs) /\ big \in SUBSET Nat
  BY EmptySeq DEF Init
<1>2. Len(<<>>) = 0
  OBVIOUS
<1>3. TypeOK
  <2>1. {written, flushed, offered, taken, settled, asked} \subseteq Nat
    BY DEF Init
  <2>. QED  BY <1>1, <2>1, EmptyBuffer DEF Init, TypeOK
<1>4. Round /\ Counts /\ NoLostWakeup
  BY <1>2, EmptyBuffer DEF Init, Round, Between, Counts, NoLostWakeup
<1>. QED  BY <1>3, <1>4 DEF IInv

LEMMA AppendFitsInvariant ==
  ASSUME IInv, NEW n \in Sizes, AppendFits(n) PROVE IInv'
<1>. USE DEF AppendFits, shared, own, output, history
<1>1. kBufferCurrent' \in Buffers
  BY LongerBuffer DEF IInv, TypeOK
<1>2. TypeOK'
  BY <1>1 DEF IInv, TypeOK
<1>3. Round' /\ Counts' /\ NoLostWakeup'
  BY DEF IInv, TypeOK, Round, Between, Counts, NoLostWakeup
<1>. QED  BY <1>2, <1>3 DEF IInv

LEMMA AppendHandsOverInvariant ==
  ASSUME IInv, NEW n \in Sizes, AppendHandsOver(n) PROVE IInv'
<1>. USE DEF AppendHandsOver, own, output
<1>1. Fresh = <<>>
  BY DEF IInv, Round, Fresh
<1>2. kBufferCurrent' \in Buffers
  <2>1. offered + 1 \in Nat
    BY DEF IInv, TypeOK
  <2>2. \/ kBufferCurrent' = Append(<<>>, [id |-> offered + 1, size |-> n])
        \/ kBufferCurrent' = <<>>
    BY <1>1
  <2>. QED  BY <2>1, <2>2, EmptyBuffer, LongerBuffer
<1>3. vectorbuffers' \in Seq(Buffers) /\ vectorbuffers' # <<>>
  <2>1. vectorbuffers \in Seq(Buffers) /\ kBufferCurrent \in Buffers
    BY DEF IInv, TypeOK
  <2>. QED  BY <2>1, LongerBatch
<1>4. TypeOK'
  <2>1. big \in SUBSET Nat /\ offered \in Nat
    BY DEF IInv, TypeOK
  <2>2. offered' \in Nat /\ (big' = big \/ big' = big \cup {offered'})
    BY <2>1
  <2>. QED  BY <1>2, <1>3, <2>1, <2>2 DEF IInv, TypeOK
<1>5. Round'
  BY <1>3 DEF IInv, Round, Between
<1>6. Counts' /\ NoLostWakeup'
  BY DEF IInv, TypeOK, Counts, NoLostWakeup
<1>. QED  BY <1>4, <1>5, <1>6 DEF IInv

LEMMA FlushInvariant == ASSUME IInv, Flush PROVE IInv'
BY DEF IInv, TypeOK, Round, Between, Counts, NoLostWakeup, Flush, shared, own, output

LEMMA WaitInvariant == ASSUME IInv, Start \/ Wake \/ Timeout PROVE IInv'
BY DEF IInv, TypeOK, Round, Between, Counts, NoLostWakeup, Start, Wake, Timeout,
       shared, own, output, history

LEMMA SwapInvariant == ASSUME IInv, Swap PROVE IInv'
<1>. USE DEF Swap, output
<1>1. newBuffer1 = <<>> /\ newBuffer2 = <<>> /\ buffersToWrite = <<>>
  BY DEF IInv, Round, Between
<1>2. Len(vectorbuffers) \in Nat /\ (kBufferNext = Null => Len(vectorbuffers) >= 1)
  BY EmptySeq, LenProperties DEF IInv, Round, TypeOK
<1>3. /\ buffersToWrite' \in Seq(Buffers) /\ buffersToWrite' # <<>>
      /\ Len(buffersToWrite') = Len(vectorbuffers) + 1
  <2>1. vectorbuffers \in Seq(Buffers) /\ kBufferCurrent \in Buffers
    BY DEF IInv, TypeOK
  <2>. QED  BY <2>1, LongerBatch
<1>4. TypeOK'
  <2>1. kBufferNext' \in {Null} \cup Buffers /\ newBuffer2' \in {Null} \cup Buffers
    BY <1>1, EmptyBuffer DEF IInv, TypeOK
  <2>2. {written, flushed, offered, taken, settled, asked}' \subseteq Nat
    BY DEF IInv, TypeOK
  <2>3. kBufferCurrent' \in Buffers /\ vectorbuffers' \in Seq(Buffers)
    BY <1>1, EmptyBuffer
  <2>. QED  BY <1>1, <1>3, <2>1, <2>2, <2>3 DEF IInv, TypeOK
<1>5. Round'
  <2>1. kBufferNext' = <<>> /\ newBuffer2' \in {Null, <<>>}
    BY <1>1 DEF IInv, Round
  <2>2. newBuffer2' = Null => Len(buffersToWrite') >= 2
    BY <1>1, <1>2, <1>3, EmptyBuffer
  <2>. QED  BY <1>2, <1>3, <2>1, <2>2, EmptyBuffer DEF Round, Between
<1>6. Counts' /\ NoLostWakeup'
  BY <1>1 DEF IInv, TypeOK, Counts, NoLostWakeup
<1>. QED  BY <1>4, <1>5, <1>6 DEF IInv

LEMMA TrimInvariant == ASSUME IInv, Trim PROVE IInv'
<1>. USE DEF Trim, shared, output
<1>1. CASE Len(buffersToWrite) > DropAbove
  <2>1. buffersToWrite \in Seq(Buffers) /\ dropped \in Seq(Buffers)
    BY DEF IInv, TypeOK
  <2>2. Len(buffersToWrite) > 2
    BY <1>1, <2>1, DropAssumption, LenProperties
  <2>3. /\ buffersToWrite' \in Seq(Buffers) /\ buffersToWrite' # <<>>
        /\ Len(buffersToWrite') = 2
    BY <1>1, <2>1, <2>2, CutBatch
  <2>4. dropped' \in Seq(Buffers)
    <3>1. SubSeq(buffersToWrite, 3, Len(buffersToWrite)) \in Seq(Buffers)
      BY <2>1, <2>2, CutBatch
    <3>. QED  BY <1>1, <2>1, <3>1, ConcatProperties
  <2>5. TypeOK'
    BY <2>3, <2>4 DEF IInv, TypeOK
  <2>6. Round'
    BY <2>3 DEF IInv, Round, Between
  <2>. QED  BY <2>5, <2>6 DEF IInv, Counts, NoLostWakeup
<1>2. CASE ~ (Len(buffersToWrite) > DropAbove)
  BY <1>2 DEF IInv, TypeOK, Round, Between, Counts, NoLostWakeup
<1>. QED  BY <1>1, <1>2

LEMMA WriteOneInvariant == ASSUME IInv, WriteOne PROVE IInv'
<1>. USE DEF WriteOne, shared, history
<1>1. Len(buffersToWrite) \in Nat /\ written + 1 \in 1..Len(buffersToWrite)
  BY LenProperties DEF IInv, TypeOK
<1>2. buffersToWrite[written + 1] \in Seq(Msgs)
  BY <1>1, ElementOfSeq DEF IInv, TypeOK, Buffers
<1>3. file' \in Seq(Msgs)
  BY <1>2, ConcatProperties DEF IInv, TypeOK
<1>4. TypeOK'
  BY <1>3 DEF IInv, TypeOK
<1>5. Round' /\ Counts' /\ NoLostWakeup'
  BY <1>1 DEF IInv, TypeOK, Round, Between, Counts, NoLostWakeup
<1>. QED  BY <1>4, <1>5 DEF IInv

LEMMA RecycleInvariant == ASSUME IInv, Recycle PROVE IInv'
<1>. USE DEF Recycle, shared
<1>1. Len(file) \in Nat /\ Len(<<>>) = 0
  BY LenProperties DEF IInv, TypeOK
<1>2. newBuffer2' = <<>>
  BY DEF IInv, Round, Between
<1>3. TypeOK'
  BY <1>1, <1>2, EmptyBuffer DEF IInv, TypeOK
<1>4. Round'
  BY <1>1, <1>2 DEF IInv, Round, Between, TypeOK
<1>. QED  BY <1>3, <1>4 DEF IInv, TypeOK, Counts, NoLostWakeup

LEMMA StepInvariant == ASSUME IInv, [Next]_vars PROVE IInv'
<1>1. ASSUME NEW n \in Sizes, AppendFits(n) \/ AppendHandsOver(n) PROVE IInv'
  BY <1>1, AppendFitsInvariant, AppendHandsOverInvariant
<1>2. CASE Worker
  BY <1>2, WaitInvariant, SwapInvariant, TrimInvariant, WriteOneInvariant, RecycleInvariant
     DEF Worker
<1>3. CASE UNCHANGED vars
  BY <1>3 DEF vars, shared, own, output, history, IInv, TypeOK, Round, Between, Counts,
              NoLostWakeup
<1>. QED  BY <1>1, <1>2, <1>3, FlushInvariant DEF Next

LEMMA Invariance == Spec => []IInv
<1>1. IInv /\ [Next]_vars => IInv'
  BY StepInvariant
<1>. QED  BY <1>1, InitInvariant, PTL DEF Spec

-----------------------------------------------------------------------------
(* The order of the messages                                                *)

\* Facts about a batch P whose messages are ordered and numbered up to k

Numbered(P, k) == P \in Seq(Buffers) /\ Ordered(P) /\ Bounded(P, k)

LEMMA MoreNumbers ==
  ASSUME NEW P, NEW k \in Nat, Numbered(P, k) PROVE Numbered(P, k + 1)
<1>1. ASSUME NEW i \in 1..Len(P), NEW p \in 1..Len(P[i]) PROVE P[i][p].id \in Nat
  <2>1. P \in Seq(Buffers)
    BY DEF Numbered
  <2>2. P[i] \in Seq(Msgs)
    BY <2>1, ElementOfSeq DEF Buffers
  <2>3. P[i][p] \in Msgs
    BY <2>2, ElementOfSeq
  <2>. QED  BY <2>3 DEF Msgs
<1>. QED  BY <1>1 DEF Numbered, Bounded

\* A new, empty buffer at the end
LEMMA EmptyAtEnd ==
  ASSUME NEW P, NEW k \in Nat, Numbered(P, k) PROVE Numbered(P \o <<<<>>>>, k)
<1>. DEFINE Q == P \o <<<<>>>>
<1>1. P \in Seq(Buffers) /\ <<<<>>>> \in Seq(Buffers) /\ Len(<<<<>>>>) = 1
  BY EmptyBuffer DEF Numbered
<1>2. /\ Q \in Seq(Buffers) /\ Len(Q) = Len(P) + 1
      /\ \A i \in 1..Len(P) + 1 : Q[i] = IF i <= Len(P) THEN P[i] ELSE <<<<>>>>[i - Len(P)]
  BY <1>1, ConcatProperties
<1>3. Len(P) \in Nat
  BY <1>1, LenProperties
<1>4. \A i \in 1..Len(Q) : IF i <= Len(P) THEN Q[i] = P[i] ELSE 1..Len(Q[i]) = {}
  BY <1>2, <1>3
<1>5. Ordered(Q)
  BY <1>2, <1>3, <1>4 DEF Ordered, Numbered
<1>6. Bounded(Q, k)
  BY <1>2, <1>3, <1>4 DEF Bounded, Numbered
<1>. QED  BY <1>2, <1>5, <1>6 DEF Numbered

\* A new message in the last buffer
LEMMA MessageAtEnd ==
  ASSUME NEW X \in Seq(Buffers), NEW b \in Buffers, NEW k \in Nat, NEW n \in Sizes,
         Numbered(X \o <<b>>, k)
  PROVE  Numbered(X \o <<Append(b, [id |-> k + 1, size |-> n])>>, k + 1)
<1>. DEFINE m == [id |-> k + 1, size |-> n]
            c == Append(b, m)
            P == X \o <<b>>
            Q == X \o <<c>>
<1>1. c \in Buffers /\ m.id = k + 1
  BY LongerBuffer
<1>2. b \in Seq(Msgs) /\ m \in Msgs /\ Len(b) \in Nat /\ Len(X) \in Nat
  BY LenProperties DEF Buffers, Msgs
<1>3. Len(c) = Len(b) + 1 /\ c[Len(b) + 1] = m /\ \A p \in 1..Len(b) : c[p] = b[p]
  BY <1>2, AppendProperties
<1>4. <<b>> \in Seq(Buffers) /\ <<c>> \in Seq(Buffers)
      /\ Len(<<b>>) = 1 /\ Len(<<c>>) = 1
  BY <1>1
<1>5. /\ Len(P) = Len(X) + 1 /\ P[Len(X) + 1] = b
      /\ \A i \in 1..Len(X) : P[i] = X[i]
  BY <1>2, <1>4, ConcatProperties
<1>6. /\ Q \in Seq(Buffers) /\ Len(Q) = Len(X) + 1 /\ Q[Len(X) + 1] = c
      /\ \A i \in 1..Len(X) : Q[i] = X[i]
  BY <1>2, <1>4, ConcatProperties
<1>7. /\ \A i \in 1..Len(X) : Q[i] = P[i]
      /\ Len(Q[Len(X) + 1]) = Len(P[Len(X) + 1]) + 1
      /\ \A p \in 1..Len(P[Len(X) + 1]) : Q[Len(X) + 1][p] = P[Len(X) + 1][p]
      /\ Q[Len(X) + 1][Len(P[Len(X) + 1]) + 1].id = k + 1
  BY <1>1, <1>3, <1>5, <1>6
<1>8. \A i \in 1..Len(P) : \A p \in 1..Len(P[i]) : P[i][p].id <= k /\ P[i][p].id \in Nat
  <2>1. P \in Seq(Buffers) /\ Bounded(P, k)
    BY DEF Numbered
  <2>2. \A i \in 1..Len(P) : P[i] \in Seq(Msgs)
    BY <2>1, ElementOfSeq DEF Buffers
  <2>3. \A i \in 1..Len(P) : \A p \in 1..Len(P[i]) : P[i][p] \in Msgs
    BY <2>2, ElementOfSeq
  <2>. QED  BY <2>1, <2>3 DEF Bounded, Msgs
<1>9. Ordered(P)
  BY DEF Numbered
<1>. HIDE DEF P, Q, c, m
<1>10. ASSUME NEW i \in 1..Len(Q), NEW p \in 1..Len(Q[i]),
              ~ (i = Len(X) + 1 /\ p = Len(b) + 1)
       PROVE  i \in 1..Len(P) /\ p \in 1..Len(P[i]) /\ Q[i][p] = P[i][p]
  <2>1. CASE i \in 1..Len(X)
    BY <1>2, <1>5, <1>7, <2>1
  <2>2. CASE i = Len(X) + 1
    <3>1. p \in 1..Len(b)
      BY <1>2, <1>3, <1>6, <1>10, <2>2
    <3>. QED  BY <1>2, <1>5, <1>7, <2>2, <3>1
  <2>. QED  BY <1>2, <1>6, <2>1, <2>2
<1>11. Bounded(Q, k + 1)
  <2>. SUFFICES ASSUME NEW i \in 1..Len(Q), NEW p \in 1..Len(Q[i]) PROVE Q[i][p].id <= k + 1
    BY DEF Bounded
  <2>1. CASE i <= Len(X)
    BY <1>2, <1>5, <1>6, <1>7, <1>8, <2>1
  <2>2. CASE i = Len(X) + 1 /\ p <= Len(b)
    BY <1>2, <1>3, <1>5, <1>6, <1>7, <1>8, <2>2
  <2>3. CASE i = Len(X) + 1 /\ p = Len(b) + 1
    BY <1>2, <1>5, <1>7, <2>3
  <2>. QED  BY <1>2, <1>3, <1>6, <2>1, <2>2, <2>3
<1>12. Ordered(Q)
  <2>. SUFFICES ASSUME NEW i \in 1..Len(Q), NEW j \in 1..Len(Q),
                       NEW p \in 1..Len(Q[i]), NEW q \in 1..Len(Q[j]),
                       i < j \/ (i = j /\ p < q)
                PROVE  Q[i][p].id < Q[j][q].id
    BY DEF Ordered
  <2>1. ~ (i = Len(X) + 1 /\ p = Len(b) + 1)
    BY <1>2, <1>3, <1>6
  <2>2. i \in 1..Len(P) /\ p \in 1..Len(P[i]) /\ Q[i][p] = P[i][p]
    BY <1>10, <2>1
  <2>3. CASE j = Len(X) + 1 /\ q = Len(b) + 1
    BY <1>2, <1>5, <1>7, <1>8, <2>2, <2>3
  <2>4. CASE ~ (j = Len(X) + 1 /\ q = Len(b) + 1)
    <3>1. j \in 1..Len(P) /\ q \in 1..Len(P[j]) /\ Q[j][q] = P[j][q]
      BY <1>10, <2>4
    <3>. QED  BY <1>9, <2>2, <3>1 DEF Ordered
  <2>. QED  BY <2>3, <2>4
<1>. QED  BY <1>6, <1>11, <1>12 DEF Numbered, P, Q, c, m

\* The first buffer merged with the second, empty ones included
LEMMA FirstTwoMerged ==
  ASSUME NEW f \in Buffers, NEW b \in Buffers, NEW R \in Seq(Buffers), NEW k \in Nat,
         Numbered(<<f>> \o (<<b>> \o R), k)
  PROVE  Numbered(<<f \o b>> \o R, k)
<1>. DEFINE P == <<f>> \o (<<b>> \o R)
            g == f \o b
            Q == <<g>> \o R
<1>1. /\ f \in Seq(Msgs) /\ b \in Seq(Msgs)
      /\ Len(f) \in Nat /\ Len(b) \in Nat /\ Len(R) \in Nat
  BY LenProperties DEF Buffers
<1>2. /\ g \in Buffers /\ Len(g) = Len(f) + Len(b)
      /\ \A p \in 1..Len(f) + Len(b) : g[p] = IF p <= Len(f) THEN f[p] ELSE b[p - Len(f)]
  BY <1>1, ConcatProperties DEF Buffers
<1>3. /\ <<f>> \in Seq(Buffers) /\ <<b>> \in Seq(Buffers) /\ <<g>> \in Seq(Buffers)
      /\ Len(<<f>>) = 1 /\ Len(<<b>>) = 1 /\ Len(<<g>>) = 1
  BY <1>2
<1>4. /\ Q \in Seq(Buffers) /\ Len(Q) = Len(R) + 1 /\ Q[1] = g
      /\ \A i \in 2..Len(R) + 1 : Q[i] = R[i - 1]
  BY <1>1, <1>3, ConcatProperties
<1>5. /\ <<b>> \o R \in Seq(Buffers) /\ Len(<<b>> \o R) = Len(R) + 1
      /\ (<<b>> \o R)[1] = b /\ \A i \in 2..Len(R) + 1 : (<<b>> \o R)[i] = R[i - 1]
  BY <1>1, <1>3, ConcatProperties
<1>6. /\ Len(P) = Len(R) + 2 /\ P[1] = f
      /\ \A i \in 2..Len(R) + 2 : P[i] = (<<b>> \o R)[i - 1]
  BY <1>1, <1>3, <1>5, ConcatProperties
<1>7. P[2] = b /\ \A i \in 2..Len(R) + 1 : P[i + 1] = Q[i]
  BY <1>1, <1>4, <1>5, <1>6
<1>8. Ordered(P) /\ Bounded(P, k)
  BY DEF Numbered
\* where a message of Q stands in P
<1>. DEFINE Buf(i, p) == IF i = 1 THEN (IF p <= Len(f) THEN 1 ELSE 2) ELSE i + 1
            Pos(i, p) == IF i = 1 /\ p > Len(f) THEN p - Len(f) ELSE p
<1>. HIDE DEF P, Q, g
<1>9. ASSUME NEW i \in 1..Len(Q), NEW p \in 1..Len(Q[i])
      PROVE  /\ Buf(i, p) \in 1..Len(P) /\ Pos(i, p) \in 1..Len(P[Buf(i, p)])
             /\ Q[i][p] = P[Buf(i, p)][Pos(i, p)]
  <2>1. CASE i = 1 /\ p <= Len(f)
    BY <1>1, <1>2, <1>4, <1>6, <2>1
  <2>2. CASE i = 1 /\ p > Len(f)
    <3>1. p \in 1..Len(f) + Len(b) /\ p - Len(f) \in 1..Len(b)
      BY <1>1, <1>2, <1>4, <2>2
    <3>2. Q[i][p] = b[p - Len(f)]
      BY <1>2, <1>4, <2>2, <3>1
    <3>. QED  BY <1>1, <1>6, <1>7, <2>2, <3>1, <3>2
  <2>3. CASE i # 1
    BY <1>1, <1>4, <1>6, <1>7, <2>3
  <2>. QED  BY <1>1, <1>4, <2>1, <2>2, <2>3
<1>10. Bounded(Q, k)
  <2>. SUFFICES ASSUME NEW i \in 1..Len(Q), NEW p \in 1..Len(Q[i]) PROVE Q[i][p].id <= k
    BY DEF Bounded
  <2>1. /\ Buf(i, p) \in 1..Len(P) /\ Pos(i, p) \in 1..Len(P[Buf(i, p)])
        /\ Q[i][p] = P[Buf(i, p)][Pos(i, p)]
    BY <1>9
  <2>. HIDE DEF Buf, Pos
  <2>. QED  BY <1>8, <2>1 DEF Bounded
<1>11. Ordered(Q)
  <2>. SUFFICES ASSUME NEW i \in 1..Len(Q), NEW j \in 1..Len(Q),
                       NEW p \in 1..Len(Q[i]), NEW q \in 1..Len(Q[j]),
                       i < j \/ (i = j /\ p < q)
                PROVE  Q[i][p].id < Q[j][q].id
    BY DEF Ordered
  <2>1. \/ Buf(i, p) < Buf(j, q)
        \/ Buf(i, p) = Buf(j, q) /\ Pos(i, p) < Pos(j, q)
    BY <1>1, <1>4
  <2>2. /\ Buf(i, p) \in 1..Len(P) /\ Pos(i, p) \in 1..Len(P[Buf(i, p)])
        /\ Q[i][p] = P[Buf(i, p)][Pos(i, p)]
    BY <1>9
  <2>3. /\ Buf(j, q) \in 1..Len(P) /\ Pos(j, q) \in 1..Len(P[Buf(j, q)])
        /\ Q[j][q] = P[Buf(j, q)][Pos(j, q)]
    BY <1>9
  <2>. HIDE DEF Buf, Pos
  <2>. QED  BY <1>8, <2>1, <2>2, <2>3 DEF Ordered
<1>. QED  BY <1>4, <1>10, <1>11 DEF Numbered, P, Q, g

\* Buffers left out in the middle
LEMMA MiddleLeftOut ==
  ASSUME NEW A \in Seq(Buffers), NEW B \in Seq(Buffers), NEW C \in Seq(Buffers),
         NEW k \in Nat, Numbered(A \o (B \o C), k)
  PROVE  Numbered(A \o C, k)
<1>. DEFINE P == A \o (B \o C)
            Q == A \o C
<1>1. Len(A) \in Nat /\ Len(B) \in Nat /\ Len(C) \in Nat
  BY LenProperties
<1>2. /\ B \o C \in Seq(Buffers) /\ Len(B \o C) = Len(B) + Len(C)
      /\ \A i \in 1..Len(C) : (B \o C)[i + Len(B)] = C[i]
  BY <1>1, ConcatProperties
<1>3. /\ Q \in Seq(Buffers) /\ Len(Q) = Len(A) + Len(C)
      /\ \A i \in 1..Len(Q) : Q[i] = IF i <= Len(A) THEN A[i] ELSE C[i - Len(A)]
  BY ConcatProperties
<1>4. /\ Len(P) = Len(A) + (Len(B) + Len(C))
      /\ \A i \in 1..Len(P) : P[i] = IF i <= Len(A) THEN A[i] ELSE (B \o C)[i - Len(A)]
  BY <1>2, ConcatProperties
<1>5. Ordered(P) /\ Bounded(P, k)
  BY DEF Numbered
<1>. DEFINE Buf(i) == IF i <= Len(A) THEN i ELSE i + Len(B)
<1>. HIDE DEF P, Q
<1>6. ASSUME NEW i \in 1..Len(Q) PROVE Buf(i) \in 1..Len(P) /\ Q[i] = P[Buf(i)]
  <2>1. CASE i <= Len(A)
    <3>1. Buf(i) = i /\ i \in 1..Len(P)
      BY <1>1, <1>3, <1>4, <2>1
    <3>2. Q[i] = A[i]
      BY <1>3, <2>1
    <3>3. P[i] = A[i]
      BY <1>4, <2>1, <3>1
    <3>. QED  BY <3>1, <3>2, <3>3
  <2>2. CASE i > Len(A)
    <3>1. i - Len(A) \in 1..Len(C)
      BY <1>1, <1>3, <2>2
    <3>2. /\ Buf(i) \in 1..Len(P) /\ ~ (Buf(i) <= Len(A))
          /\ Buf(i) - Len(A) = (i - Len(A)) + Len(B)
      BY <1>1, <1>3, <1>4, <2>2
    <3>. QED  BY <1>2, <1>3, <1>4, <2>2, <3>1, <3>2
  <2>. QED  BY <1>1, <1>3, <2>1, <2>2
<1>7. Bounded(Q, k)
  BY <1>5, <1>6 DEF Bounded
<1>8. Ordered(Q)
  <2>. SUFFICES ASSUME NEW i \in 1..Len(Q), NEW j \in 1..Len(Q),
                       NEW p \in 1..Len(Q[i]), NEW q \in 1..Len(Q[j]),
                       i < j \/ (i = j /\ p < q)
                PROVE  Q[i][p].id < Q[j][q].id
    BY DEF Ordered
  <2>1. i < j => Buf(i) < Buf(j)
    BY <1>1, <1>3
  <2>2. /\ Buf(i) \in 1..Len(P) /\ Q[i] = P[Buf(i)]
        /\ Buf(j) \in 1..Len(P) /\ Q[j] = P[Buf(j)]
    BY <1>6
  <2>. HIDE DEF Buf
  <2>. QED  BY <1>5, <2>1, <2>2 DEF Ordered
<1>. QED  BY <1>3, <1>7, <1>8 DEF Numbered, P, Q

\* Concatenations regrouped.  The provers compare sequences element by element;
\* with Cat for \o they need not.
Cat(x, y) == x \o y

LEMMA CatAssociative ==
  \A x, y, z \in Seq(Buffers) :
    Cat(x, y) \in Seq(Buffers) /\ Cat(Cat(x, y), z) = Cat(x, Cat(y, z))
<1>1. \A x, y \in Seq(Buffers) : x \o y \in Seq(Buffers)
  BY ConcatProperties
<1>2. \A x, y, z \in Seq(Buffers) : (x \o y) \o z = x \o (y \o z)
  BY ConcatAssociative
<1>. QED  BY <1>1, <1>2 DEF Cat

LEMMA Regroup ==
  ASSUME NEW a \in Seq(Buffers), NEW b \in Seq(Buffers),
         NEW c \in Seq(Buffers), NEW d \in Seq(Buffers)
  PROVE  /\ ((a \o b) \o c) \o d = a \o (b \o (c \o d))
         /\ ((a \o b) \o c) \o d = (a \o b) \o (c \o d)
<1>1. /\ Cat(Cat(Cat(a, b), c), d) = Cat(a, Cat(b, Cat(c, d)))
      /\ Cat(Cat(Cat(a, b), c), d) = Cat(Cat(a, b), Cat(c, d))
  BY CatAssociative
<1>. QED  BY <1>1 DEF Cat

\* Buffers e left out of a batch
LEMMA CutOrdered ==
  \A a, f, e, c, d \in Seq(Buffers) : \A k \in Nat :
    Numbered(((a \o (f \o e)) \o c) \o d, k) => Numbered(((a \o f) \o c) \o d, k)
<1>. SUFFICES ASSUME NEW a \in Seq(Buffers), NEW f \in Seq(Buffers), NEW e \in Seq(Buffers),
                     NEW c \in Seq(Buffers), NEW d \in Seq(Buffers), NEW k \in Nat,
                     Numbered(((a \o (f \o e)) \o c) \o d, k)
              PROVE  Numbered(((a \o f) \o c) \o d, k)
  OBVIOUS
<1>1. /\ Cat(Cat(Cat(a, Cat(f, e)), c), d) = Cat(Cat(a, f), Cat(e, Cat(c, d)))
      /\ Cat(Cat(Cat(a, f), c), d) = Cat(Cat(a, f), Cat(c, d))
      /\ Cat(a, f) \in Seq(Buffers) /\ Cat(c, d) \in Seq(Buffers)
  <2>1. Cat(a, f) \in Seq(Buffers) /\ Cat(c, d) \in Seq(Buffers)
    BY CatAssociative
  <2>2. Cat(Cat(Cat(a, f), c), d) = Cat(Cat(a, f), Cat(c, d))
    BY <2>1, CatAssociative
  <2>3. Cat(a, Cat(f, e)) = Cat(Cat(a, f), e)
    BY CatAssociative
  <2>4. Cat(Cat(Cat(Cat(a, f), e), c), d) = Cat(Cat(Cat(a, f), e), Cat(c, d))
    <3>1. Cat(Cat(a, f), e) \in Seq(Buffers)
      BY <2>1, CatAssociative
    <3>. QED  BY <3>1, CatAssociative
  <2>5. Cat(Cat(Cat(a, f), e), Cat(c, d)) = Cat(Cat(a, f), Cat(e, Cat(c, d)))
    BY <2>1, CatAssociative
  <2>. QED  BY <2>1, <2>2, <2>3, <2>4, <2>5
<1>2. Numbered(Cat(Cat(a, f), Cat(e, Cat(c, d))), k)
  <2>1. Numbered(Cat(Cat(Cat(a, Cat(f, e)), c), d), k)
    BY DEF Cat
  <2>. QED  BY <1>1, <2>1
<1>3. Numbered(Cat(Cat(a, f), Cat(c, d)), k)
  BY <1>1, <1>2, MiddleLeftOut DEF Cat
<1>4. Numbered(Cat(Cat(Cat(a, f), c), d), k)
  BY <1>1, <1>3
<1>. QED  BY <1>4 DEF Cat

\* What the worker has still to write of its batch
Unwritten == SubSeq(buffersToWrite, written + 1, Len(buffersToWrite))

LEMMA PipelineParts ==
  ASSUME IInv
  PROVE  /\ <<file>> \in Seq(Buffers) /\ Unwritten \in Seq(Buffers)
         /\ vectorbuffers \in Seq(Buffers) /\ <<kBufferCurrent>> \in Seq(Buffers)
         /\ Pipeline = ((<<file>> \o Unwritten) \o vectorbuffers) \o <<kBufferCurrent>>
         /\ offered \in Nat
<1>1. /\ file \in Buffers /\ kBufferCurrent \in Buffers
      /\ vectorbuffers \in Seq(Buffers) /\ buffersToWrite \in Seq(Buffers)
      /\ written \in Nat /\ offered \in Nat
  BY DEF IInv, TypeOK, Buffers
<1>2. Len(buffersToWrite) \in Nat /\ \A i \in 1..Len(buffersToWrite) : buffersToWrite[i] \in Buffers
  BY <1>1, LenProperties, ElementOfSeq
<1>3. Unwritten \in Seq(Buffers)
  BY <1>1, <1>2, SubSeqProperties DEF Unwritten
<1>4. <<file>> \in Seq(Buffers) /\ <<kBufferCurrent>> \in Seq(Buffers)
  BY <1>1
<1>. QED  BY <1>1, <1>3, <1>4 DEF Pipeline, Unwritten

\* No step but those below changes the pipeline.
LEMMA SamePipeline ==
  ASSUME IInv, Numbered(Pipeline, offered),
         UNCHANGED <<file, Unwritten, vectorbuffers, kBufferCurrent, offered>>
  PROVE  Numbered(Pipeline, offered)'
<1>1. Pipeline' = Pipeline
  BY DEF Pipeline, Unwritten
<1>. QED  BY <1>1 DEF Numbered, Ordered, Bounded

LEMMA AppendFitsOrder ==
  ASSUME IInv, Numbered(Pipeline, offered), NEW n \in Sizes, AppendFits(n)
  PROVE  Numbered(Pipeline', offered')
<1>. DEFINE X == (<<file>> \o Unwritten) \o vectorbuffers
<1>1. /\ X \in Seq(Buffers) /\ Pipeline = X \o <<kBufferCurrent>>
      /\ kBufferCurrent \in Buffers /\ offered \in Nat
  BY PipelineParts, ConcatProperties DEF IInv, TypeOK
<1>2. Pipeline' = X \o <<Append(kBufferCurrent, [id |-> offered + 1, size |-> n])>>
  BY DEF Pipeline, Unwritten, AppendFits, own, output
<1>3. offered' = offered + 1
  BY DEF AppendFits
<1>. HIDE DEF X
<1>. QED  BY <1>1, <1>2, <1>3, MessageAtEnd

LEMMA AppendHandsOverOrder ==
  ASSUME IInv, Numbered(Pipeline, offered), NEW n \in Sizes, AppendHandsOver(n)
  PROVE  Numbered(Pipeline', offered')
<1>. DEFINE Y == <<file>> \o Unwritten
<1>1. /\ Y \in Seq(Buffers) /\ vectorbuffers \in Seq(Buffers)
      /\ kBufferCurrent \in Buffers /\ <<kBufferCurrent>> \in Seq(Buffers)
      /\ Pipeline = (Y \o vectorbuffers) \o <<kBufferCurrent>>
      /\ offered \in Nat
  BY PipelineParts, ConcatProperties DEF IInv, TypeOK
<1>2. Pipeline' = (Y \o Append(vectorbuffers, kBufferCurrent)) \o <<kBufferCurrent'>>
  BY DEF Pipeline, Unwritten, AppendHandsOver, own, output
<1>3. Fresh = <<>>
  BY DEF IInv, Round, Fresh
<1>4. /\ offered' = offered + 1
      /\ \/ kBufferCurrent' = Append(<<>>, [id |-> offered + 1, size |-> n])
         \/ kBufferCurrent' = <<>>
  BY <1>3 DEF AppendHandsOver
<1>. HIDE DEF Y
<1>5. Y \o Append(vectorbuffers, kBufferCurrent) = Pipeline
  BY <1>1, AppendIsConcat, ConcatAssociative
<1>6. Numbered(Pipeline \o <<<<>>>>, offered)
  BY <1>1, EmptyAtEnd
<1>7. CASE kBufferCurrent' = <<>>
  <2>1. Pipeline' = Pipeline \o <<<<>>>>
    BY <1>2, <1>5, <1>7
  <2>2. Numbered(Pipeline', offered)
    BY <1>6, <2>1
  <2>. QED  BY <1>1, <1>4, <2>2, MoreNumbers
<1>8. CASE kBufferCurrent' = Append(<<>>, [id |-> offered + 1, size |-> n])
  BY <1>1, <1>2, <1>4, <1>5, <1>6, <1>8, MessageAtEnd, EmptyBuffer DEF Numbered
<1>. QED  BY <1>4, <1>7, <1>8

LEMMA SwapOrder ==
  ASSUME IInv, Numbered(Pipeline, offered), Swap
  PROVE  Numbered(Pipeline', offered')
<1>. DEFINE B == Append(vectorbuffers, kBufferCurrent)
<1>1. /\ buffersToWrite = <<>> /\ written = 0 /\ newBuffer1 = <<>>
  BY DEF IInv, Round, Between, Swap
<1>2. Unwritten = <<>>
  BY <1>1, SubSeqEmpty DEF Unwritten
<1>3. /\ <<file>> \in Seq(Buffers) /\ vectorbuffers \in Seq(Buffers)
      /\ kBufferCurrent \in Buffers /\ <<kBufferCurrent>> \in Seq(Buffers)
      /\ Pipeline = ((<<file>> \o <<>>) \o vectorbuffers) \o <<kBufferCurrent>>
      /\ offered \in Nat
  BY <1>2, PipelineParts DEF IInv, TypeOK
<1>4. B \in Seq(Buffers) /\ B = vectorbuffers \o <<kBufferCurrent>>
  BY <1>3, AppendIsConcat, LongerBatch
<1>5. Pipeline = <<file>> \o B
  BY <1>3, <1>4, ConcatEmptySeq, ConcatAssociative
<1>6. Unwritten' = B
  <2>1. Unwritten' = SubSeq(B, 0 + 1, Len(B))
    BY DEF Unwritten, Swap
  <2>. HIDE DEF B
  <2>. QED  BY <1>4, <2>1, SubSeqFull
<1>7. Pipeline' = ((<<file>> \o B) \o <<>>) \o <<<<>>>>
  <2>1. Pipeline' = ((<<file'>> \o Unwritten') \o vectorbuffers') \o <<kBufferCurrent'>>
    BY DEF Pipeline, Unwritten
  <2>. QED  BY <1>1, <1>6, <2>1 DEF Swap, output
<1>8. Pipeline' = Pipeline \o <<<<>>>>
  <2>. HIDE DEF B
  <2>1. <<file>> \o B \in Seq(Buffers)
    BY <1>3, <1>4, ConcatProperties
  <2>. QED  BY <1>5, <1>7, <2>1, ConcatEmptySeq
<1>9. offered' = offered
  BY DEF Swap
<1>10. Numbered(Pipeline \o <<<<>>>>, offered)
  BY <1>3, EmptyAtEnd
<1>. QED  BY <1>8, <1>9, <1>10

LEMMA TrimOrder ==
  ASSUME IInv, Numbered(Pipeline, offered), Trim
  PROVE  Numbered(Pipeline', offered')
<1>1. CASE Len(buffersToWrite) > DropAbove
  <2>. DEFINE B == buffersToWrite
  <2>1. /\ B \in Seq(Buffers) /\ Len(B) > 2 /\ Len(B) \in Nat
    BY <1>1, DropAssumption, LenProperties DEF IInv, TypeOK
  <2>2. written = 0 /\ Unwritten = B
    BY <2>1, SubSeqFull DEF IInv, Round, Trim, Unwritten
  <2>3. /\ <<file>> \in Seq(Buffers) /\ vectorbuffers \in Seq(Buffers)
        /\ <<kBufferCurrent>> \in Seq(Buffers)
        /\ Pipeline = ((<<file>> \o B) \o vectorbuffers) \o <<kBufferCurrent>>
        /\ offered \in Nat
    BY <2>2, PipelineParts, ConcatProperties
  <2>4. Pipeline' = ((<<file>> \o SubSeq(B, 1, 2)) \o vectorbuffers) \o <<kBufferCurrent>>
    <3>1. SubSeq(B, 1, 2) \in Seq(Buffers)
      BY <2>1, CutBatch
    <3>2. Unwritten' = SubSeq(B, 1, 2)
      <4>1. buffersToWrite' = SubSeq(B, 1, 2) /\ written' = 0
        BY <1>1, <2>2 DEF Trim
      <4>. DEFINE F == SubSeq(B, 1, 2)
      <4>2. Unwritten' = SubSeq(F, 0 + 1, Len(F))
        BY <4>1 DEF Unwritten
      <4>. HIDE DEF F
      <4>3. F \in Seq(Buffers)
        BY <3>1 DEF F
      <4>. QED  BY <4>2, <4>3, SubSeqFull DEF F
    <3>3. Pipeline' = ((<<file'>> \o Unwritten') \o vectorbuffers') \o <<kBufferCurrent'>>
      BY DEF Pipeline, Unwritten
    <3>. QED  BY <3>2, <3>3 DEF Trim, shared, output
  <2>5. PICK F \in Seq(Buffers), E \in Seq(Buffers) : F = SubSeq(B, 1, 2) /\ B = F \o E
    <3>1. SubSeq(B, 1, 2) \in Seq(Buffers) /\ SubSeq(B, 3, Len(B)) \in Seq(Buffers)
      BY <2>1, CutBatch
    <3>2. B = SubSeq(B, 1, 2) \o SubSeq(B, 3, Len(B))
      BY <2>1, ConcatAdjacentSubSeq, SubSeqFull
    <3>. QED  BY <3>1, <3>2
  <2>. HIDE DEF B
  <2>6. Pipeline = ((<<file>> \o (F \o E)) \o vectorbuffers) \o <<kBufferCurrent>>
    BY <2>3, <2>5
  <2>7. Pipeline' = ((<<file>> \o F) \o vectorbuffers) \o <<kBufferCurrent>>
    BY <2>4, <2>5
  <2>8. Numbered(((<<file>> \o F) \o vectorbuffers) \o <<kBufferCurrent>>, offered)
    <3>1. Numbered(((<<file>> \o (F \o E)) \o vectorbuffers) \o <<kBufferCurrent>>, offered)
      BY <2>6
    <3>2. <<file>> \in Seq(Buffers) /\ <<kBufferCurrent>> \in Seq(Buffers)
      BY <2>3
    <3>3. vectorbuffers \in Seq(Buffers) /\ offered \in Nat
      BY <2>3
    <3>. QED  BY <3>1, <3>2, <3>3, CutOrdered, Zenon
  <2>. QED  BY <2>7, <2>8 DEF Trim
<1>2. CASE ~ (Len(buffersToWrite) > DropAbove)
  <2>1. UNCHANGED <<file, Unwritten, vectorbuffers, kBufferCurrent, offered>>
    BY <1>2 DEF Trim, shared, output, Unwritten
  <2>. QED  BY <2>1, SamePipeline DEF Numbered
<1>. QED  BY <1>1, <1>2

LEMMA WriteOneOrder ==
  ASSUME IInv, Numbered(Pipeline, offered), WriteOne
  PROVE  Numbered(Pipeline', offered')
<1>. DEFINE b == buffersToWrite[written + 1]
            U == SubSeq(buffersToWrite, written + 2, Len(buffersToWrite))
            R == U \o (vectorbuffers \o <<kBufferCurrent>>)
<1>1. /\ buffersToWrite \in Seq(Buffers) /\ Len(buffersToWrite) \in Nat
      /\ written \in Nat /\ written + 1 \in 1..Len(buffersToWrite)
  BY LenProperties DEF IInv, TypeOK, WriteOne
<1>2. \A i \in 1..Len(buffersToWrite) : buffersToWrite[i] \in Buffers
  BY <1>1, ElementOfSeq
<1>3. b \in Buffers /\ U \in Seq(Buffers) /\ <<b>> \in Seq(Buffers)
  BY <1>1, <1>2, SubSeqProperties
<1>4. Unwritten = <<b>> \o U
  <2>1. Len(buffersToWrite) \in written + 1..Len(buffersToWrite)
    BY <1>1
  <2>. QED  BY <1>1, <2>1, SubSeqRecursiveFirst DEF Unwritten
<1>5. /\ <<file>> \in Seq(Buffers) /\ file \in Buffers /\ vectorbuffers \in Seq(Buffers)
      /\ <<kBufferCurrent>> \in Seq(Buffers)
      /\ Pipeline = ((<<file>> \o Unwritten) \o vectorbuffers) \o <<kBufferCurrent>>
      /\ offered \in Nat
  BY PipelineParts DEF IInv, TypeOK, Buffers
<1>6. Pipeline' = ((<<file \o b>> \o U) \o vectorbuffers) \o <<kBufferCurrent>>
  <2>1. Unwritten' = U
    BY <1>1 DEF Unwritten, WriteOne
  <2>2. Pipeline' = ((<<file'>> \o Unwritten') \o vectorbuffers') \o <<kBufferCurrent'>>
    BY DEF Pipeline, Unwritten
  <2>. QED  BY <2>1, <2>2 DEF WriteOne, shared
<1>7. file \o b \in Buffers /\ <<file \o b>> \in Seq(Buffers)
  <2>1. file \o b \in Buffers
    BY <1>3, <1>5, ConcatProperties DEF Buffers
  <2>. QED  BY <2>1
<1>. HIDE DEF b, U
<1>8. R \in Seq(Buffers) /\ vectorbuffers \o <<kBufferCurrent>> \in Seq(Buffers)
  BY <1>3, <1>5, ConcatProperties
<1>9. Pipeline = <<file>> \o (<<b>> \o R)
  <2>. DEFINE V == vectorbuffers \o <<kBufferCurrent>>
  <2>1. Unwritten \in Seq(Buffers)
    BY <1>3, <1>4, ConcatProperties
  <2>2. Pipeline = <<file>> \o (Unwritten \o V)
    BY <1>5, <2>1, Regroup
  <2>3. Unwritten \o V = <<b>> \o R
    <3>1. V \in Seq(Buffers)
      BY <1>8
    <3>. HIDE DEF V
    <3>2. (<<b>> \o U) \o V = <<b>> \o (U \o V)
      BY <1>3, <3>1, ConcatAssociative
    <3>. QED  BY <1>4, <3>2 DEF V
  <2>. QED  BY <2>2, <2>3
<1>10. Pipeline' = <<file \o b>> \o R
  BY <1>3, <1>5, <1>6, <1>7, Regroup
<1>. HIDE DEF R
<1>11. Numbered(<<file \o b>> \o R, offered)
  BY <1>3, <1>5, <1>8, <1>9, FirstTwoMerged
<1>. QED  BY <1>10, <1>11 DEF WriteOne, history

\* Nothing is unwritten before and after the buffers are given back.
LEMMA RecycleOrder ==
  ASSUME IInv, Numbered(Pipeline, offered), Recycle
  PROVE  Numbered(Pipeline', offered')
<1>1. /\ buffersToWrite \in Seq(Buffers) /\ Len(buffersToWrite) \in Nat
      /\ written = Len(buffersToWrite) /\ Len(<<>>) = 0
  BY LenProperties DEF IInv, TypeOK, Recycle
<1>2. Unwritten = <<>>
  BY <1>1, SubSeqEmpty DEF Unwritten
<1>3. Unwritten' = <<>>
  <2>1. Unwritten' = SubSeq(<<>>, 1, 0)
    BY <1>1 DEF Unwritten, Recycle
  <2>. QED  BY <2>1, SubSeqEmpty
<1>4. UNCHANGED <<file, Unwritten, vectorbuffers, kBufferCurrent, offered>>
  BY <1>2, <1>3 DEF Recycle, shared
<1>. QED  BY <1>4, SamePipeline DEF Numbered

LEMMA InitOrder == Init => Numbered(Pipeline, offered)
<1>. SUFFICES ASSUME Init PROVE Numbered(Pipeline, offered)
  OBVIOUS
<1>1. IInv
  BY InitInvariant
<1>2. Unwritten = <<>>
  <2>1. Unwritten = SubSeq(<<>>, 0 + 1, Len(<<>>))
    BY DEF Init, Unwritten
  <2>. QED  BY <2>1, SubSeqEmpty
<1>3. Pipeline = ((<<<<>>>> \o <<>>) \o <<>>) \o <<<<>>>>
  BY <1>1, <1>2, PipelineParts DEF Init
<1>4. <<<<>>>> \in Seq(Buffers) /\ Len(<<<<>>>>) = 1 /\ <<<<>>>>[1] = <<>>
  BY EmptyBuffer
<1>5. Pipeline = <<<<>>>> \o <<<<>>>>
  BY <1>3, <1>4, ConcatEmptySeq
<1>6. Numbered(<<<<>>>>, offered)
  <2>1. \A i \in 1..Len(<<<<>>>>) : Len(<<<<>>>>[i]) = 0
    BY <1>4
  <2>. QED  BY <1>4, <2>1 DEF Numbered, Ordered, Bounded
<1>. QED  BY <1>5, <1>6, EmptyAtEnd DEF Init

LEMMA StepOrder ==
  ASSUME IInv, Numbered(Pipeline, offered), [Next]_vars
  PROVE  Numbered(Pipeline, offered)'
<1>1. ASSUME NEW n \in Sizes, AppendFits(n) \/ AppendHandsOver(n)
      PROVE  Numbered(Pipeline', offered')
  BY <1>1, AppendFitsOrder, AppendHandsOverOrder
<1>2. CASE Flush \/ Start \/ Wake \/ Timeout \/ UNCHANGED vars
  <2>1. UNCHANGED <<file, Unwritten, vectorbuffers, kBufferCurrent, offered>>
    BY <1>2 DEF Flush, Start, Wake, Timeout, vars, shared, own, output, Unwritten
  <2>. QED  BY <2>1, SamePipeline DEF Numbered
<1>3. CASE Swap \/ Trim \/ WriteOne \/ Recycle
  BY <1>3, SwapOrder, TrimOrder, WriteOneOrder, RecycleOrder
<1>4. Numbered(Pipeline', offered')
  BY <1>1, <1>2, <1>3 DEF Next, Worker
<1>. QED  BY <1>4 DEF Numbered, Ordered, Bounded

-----------------------------------------------------------------------------
(* The theorems                                                             *)

\* Every variable keeps its type, and no message is stored that has none.
THEOREM LogTypeCorrect == Spec => []TypeOK
<1>1. IInv => TypeOK
  BY DEF IInv
<1>. QED  BY <1>1, Invariance, PTL

\* WorkerThreadProc takes no buffer from an empty batch (back() and pop_back()
\* at AsyncLogFile.cpp:106-117 have no test of their own), whatever the number
\* of buffers that append handed over, and whatever DropAbove is from two up.
THEOREM BuffersNeverRunOut == Spec => []BuffersSuffice
<1>1. IInv => BuffersSuffice
  <2>. SUFFICES ASSUME IInv, ~ Between PROVE Wanted <= OnHand
    BY DEF BuffersSuffice, Between
  <2>1. Len(buffersToWrite) \in Nat /\ Len(buffersToWrite) >= 1
    BY LenProperties, EmptySeq DEF IInv, TypeOK, Round
  <2>2. newBuffer2 = Null => Len(buffersToWrite) >= 2
    BY DEF IInv, Round
  <2>. QED  BY <2>1, <2>2 DEF Wanted, OnHand
<1>. QED  BY <1>1, Invariance, PTL

\* The second ResetEvent, in the critical section (AsyncLogFile.cpp:70), takes
\* no signal of a buffer or of a flush that the same section does not serve.
THEOREM WakeupNeverLost == Spec => []NoLostWakeup
<1>1. IInv => NoLostWakeup
  BY DEF IInv
<1>. QED  BY <1>1, Invariance, PTL

\* Messages keep the order of their append from the current buffer to the
\* file, and none is written twice, over every exchange of buffers.
THEOREM LogOrdered == Spec => []InOrder
<1>1. IInv /\ Numbered(Pipeline, offered) /\ [Next]_vars => Numbered(Pipeline, offered)'
  BY StepOrder
<1>2. Numbered(Pipeline, offered) => InOrder
  BY DEF Numbered, InOrder
<1>. QED  BY <1>1, <1>2, InitOrder, Invariance, PTL DEF Spec

-----------------------------------------------------------------------------
(***************************************************************************)
(* No message is forgotten: Accounted, and SettledSurvive of what a fatal  *)
(* line leaves in the file.                                                *)
(*                                                                         *)
(* The numbers of the messages in a place are a set, and a step moves sets *)
(* from one place to the next, so the proofs are about unions.  Accounted  *)
(* is inductive with IInv.  SettledSurvive is not: when a round ends, what *)
(* the worker took for it counts as settled, so TakenKept follows those    *)
(* messages through the round.                                             *)
(***************************************************************************)

(* The numbers in a buffer and in a batch                                   *)

Ids(b) == {b[p].id : p \in 1..Len(b)}

LEMMA InIds ==
  ASSUME NEW q, NEW x
  PROVE  x \in IdsIn(q) <=> \E i \in 1..Len(q) : x \in Ids(q[i])
BY DEF IdsIn, Ids

LEMMA IdsNone == Ids(<<>>) = {} /\ IdsIn(<<>>) = {}
<1>1. Len(<<>>) = 0
  OBVIOUS
<1>. QED  BY <1>1 DEF Ids, IdsIn

LEMMA IdsSingle ==
  ASSUME NEW b \in Buffers
  PROVE  IdsIn(<<b>>) = Ids(b)
<1>1. Len(<<b>>) = 1 /\ <<b>>[1] = b
  OBVIOUS
<1>2. \A x : x \in IdsIn(<<b>>) <=> \E i \in 1..1 : x \in Ids(<<b>>[i])
  BY <1>1, InIds
<1>3. \A x : x \in IdsIn(<<b>>) <=> x \in Ids(b)
  <2>. HIDE DEF Ids
  <2>. QED  BY <1>1, <1>2
<1>. QED  BY <1>3

LEMMA IdsOfConcat ==
  ASSUME NEW p \in Seq(Buffers), NEW q \in Seq(Buffers)
  PROVE  IdsIn(p \o q) = IdsIn(p) \cup IdsIn(q)
<1>. DEFINE r == p \o q
<1>1. /\ Len(p) \in Nat /\ Len(q) \in Nat /\ Len(r) = Len(p) + Len(q)
      /\ \A i \in 1..Len(p) + Len(q) : r[i] = IF i <= Len(p) THEN p[i] ELSE q[i - Len(p)]
  BY ConcatProperties, LenProperties
<1>. HIDE DEF r
<1>2. \A i \in 1..Len(p) : i \in 1..Len(r) /\ r[i] = p[i]
  BY <1>1
<1>3. \A i \in 1..Len(q) : i + Len(p) \in 1..Len(r) /\ r[i + Len(p)] = q[i]
  BY <1>1
<1>4. \A i \in 1..Len(r) : \/ i \in 1..Len(p) /\ r[i] = p[i]
                           \/ i - Len(p) \in 1..Len(q) /\ r[i] = q[i - Len(p)]
  BY <1>1
<1>5. ASSUME NEW x PROVE x \in IdsIn(r) <=> x \in IdsIn(p) \/ x \in IdsIn(q)
  <2>1. ASSUME x \in IdsIn(r) PROVE x \in IdsIn(p) \/ x \in IdsIn(q)
    <3>1. PICK i \in 1..Len(r) : x \in Ids(r[i])
      BY <2>1, InIds
    <3>. QED  BY <1>4, <3>1, InIds
  <2>2. ASSUME x \in IdsIn(p) PROVE x \in IdsIn(r)
    BY <1>2, <2>2, InIds
  <2>3. ASSUME x \in IdsIn(q) PROVE x \in IdsIn(r)
    BY <1>3, <2>3, InIds
  <2>. QED  BY <2>1, <2>2, <2>3
<1>. QED  BY <1>5 DEF r

LEMMA IdsOfLonger ==
  ASSUME NEW f \in Buffers, NEW b \in Buffers
  PROVE  Ids(f \o b) = Ids(f) \cup Ids(b)
<1>. DEFINE g == f \o b
<1>1. /\ Len(f) \in Nat /\ Len(b) \in Nat /\ Len(g) = Len(f) + Len(b)
      /\ \A i \in 1..Len(f) + Len(b) : g[i] = IF i <= Len(f) THEN f[i] ELSE b[i - Len(f)]
  BY ConcatProperties, LenProperties DEF Buffers
<1>. HIDE DEF g
<1>2. \A i \in 1..Len(f) : i \in 1..Len(g) /\ g[i] = f[i]
  BY <1>1
<1>3. \A i \in 1..Len(b) : i + Len(f) \in 1..Len(g) /\ g[i + Len(f)] = b[i]
  BY <1>1
<1>4. \A i \in 1..Len(g) : \/ i \in 1..Len(f) /\ g[i] = f[i]
                           \/ i - Len(f) \in 1..Len(b) /\ g[i] = b[i - Len(f)]
  BY <1>1
<1>5. Ids(g) \subseteq Ids(f) \cup Ids(b)
  BY <1>4 DEF Ids
<1>6. Ids(f) \subseteq Ids(g)
  BY <1>2 DEF Ids
<1>7. Ids(b) \subseteq Ids(g)
  BY <1>3 DEF Ids
<1>. QED  BY <1>5, <1>6, <1>7 DEF g

LEMMA IdsOfAppend ==
  ASSUME NEW b \in Buffers, NEW k \in Nat, NEW n \in Sizes
  PROVE  Ids(Append(b, [id |-> k, size |-> n])) = Ids(b) \cup {k}
<1>. DEFINE m == [id |-> k, size |-> n]
            c == Append(b, m)
<1>1. m \in Msgs /\ m.id = k
  BY DEF Msgs
<1>. HIDE DEF m
<1>2. /\ Len(c) = Len(b) + 1 /\ Len(b) \in Nat
      /\ \A i \in 1..Len(b) : c[i] = b[i]
      /\ c[Len(b) + 1] = m
  BY <1>1, AppendProperties, LenProperties DEF Buffers
<1>. HIDE DEF c
<1>3. Ids(c) \subseteq Ids(b) \cup {k}
  <2>1. \A i \in 1..Len(c) : i \in 1..Len(b) \/ i = Len(b) + 1
    BY <1>2
  <2>. QED  BY <1>1, <1>2, <2>1 DEF Ids
<1>4. Ids(b) \subseteq Ids(c)
  <2>1. \A i \in 1..Len(b) : i \in 1..Len(c)
    BY <1>2
  <2>. QED  BY <1>2, <2>1 DEF Ids
<1>5. k \in Ids(c)
  <2>1. Len(b) + 1 \in 1..Len(c)
    BY <1>2
  <2>. QED  BY <1>1, <1>2, <2>1 DEF Ids
<1>. QED  BY <1>3, <1>4, <1>5 DEF c, m

-----------------------------------------------------------------------------
(* Where the messages are                                                   *)

InFile    == Ids(file)
InBatch   == IdsIn(Unwritten)
InVector  == IdsIn(vectorbuffers)
InCurrent == Ids(kBufferCurrent)
Gone      == IdsIn(dropped) \cup big
Safe      == Ids(SubSeq(file, 1, flushed))

EveryKept   == 1..offered = ((InFile \cup InBatch) \cup (InVector \cup InCurrent)) \cup Gone
TakenKept   == 1..taken \subseteq (InFile \cup InBatch) \cup Gone
SettledKept == flushed <= Len(file) /\ 1..settled \subseteq Safe \cup Gone

Kept == EveryKept /\ TakenKept /\ SettledKept

LEMMA IdsOfPipeline ==
  ASSUME IInv
  PROVE  IdsIn(Pipeline) = (InFile \cup InBatch) \cup (InVector \cup InCurrent)
<1>1. /\ <<file>> \in Seq(Buffers) /\ Unwritten \in Seq(Buffers)
      /\ vectorbuffers \in Seq(Buffers) /\ <<kBufferCurrent>> \in Seq(Buffers)
      /\ Pipeline = ((<<file>> \o Unwritten) \o vectorbuffers) \o <<kBufferCurrent>>
  BY PipelineParts
<1>2. file \in Buffers /\ kBufferCurrent \in Buffers
  BY DEF IInv, TypeOK, Buffers
<1>. DEFINE X == <<file>> \o Unwritten
            Y == X \o vectorbuffers
<1>3. X \in Seq(Buffers) /\ IdsIn(X) = IdsIn(<<file>>) \cup IdsIn(Unwritten)
  BY <1>1, ConcatProperties, IdsOfConcat
<1>. HIDE DEF X
<1>4. Y \in Seq(Buffers) /\ IdsIn(Y) = IdsIn(X) \cup IdsIn(vectorbuffers)
  BY <1>1, <1>3, ConcatProperties, IdsOfConcat
<1>5. Pipeline = Y \o <<kBufferCurrent>>
  BY <1>1 DEF X
<1>. HIDE DEF Y
<1>6. IdsIn(Pipeline) = IdsIn(Y) \cup IdsIn(<<kBufferCurrent>>)
  BY <1>1, <1>4, <1>5, IdsOfConcat
<1>. QED  BY <1>2, <1>3, <1>4, <1>6, IdsSingle DEF InFile, InBatch, InVector, InCurrent

LEMMA KeptMeans ==
  ASSUME IInv, Kept
  PROVE  Accounted /\ SettledSurvive
<1>1. Accounted
  BY IdsOfPipeline DEF Kept, EveryKept, Accounted, Gone
<1>2. SubSeq(file, 1, flushed) \in Buffers
  <2>1. file \in Seq(Msgs) /\ flushed \in Nat /\ Len(file) \in Nat
    BY LenProperties DEF IInv, TypeOK
  <2>2. \A i \in 1..flushed : file[i] \in Msgs
    BY <2>1, ElementOfSeq DEF Kept, SettledKept
  <2>. QED  BY <2>1, <2>2, SubSeqProperties DEF Buffers
<1>3. SettledSurvive
  BY <1>2, IdsSingle DEF Kept, SettledKept, SettledSurvive, Safe, Gone
<1>. QED  BY <1>1, <1>3

-----------------------------------------------------------------------------
(* The steps                                                                *)

LEMMA InitKept == Init => Kept
<1>. SUFFICES ASSUME Init PROVE Kept
  OBVIOUS
<1>1. Len(<<>>) = 0 /\ 1..0 = {}
  OBVIOUS
<1>2. Unwritten = <<>>
  <2>1. Unwritten = SubSeq(<<>>, 0 + 1, Len(<<>>))
    BY DEF Init, Unwritten
  <2>. QED  BY <2>1, SubSeqEmpty
<1>3. InFile = {} /\ InBatch = {} /\ InVector = {} /\ InCurrent = {} /\ Gone = {}
  BY <1>2, IdsNone DEF Init, InFile, InBatch, InVector, InCurrent, Gone
<1>4. offered = 0 /\ taken = 0 /\ settled = 0 /\ flushed = 0 /\ file = <<>>
  BY DEF Init
<1>. QED  BY <1>1, <1>3, <1>4 DEF Kept, EveryKept, TakenKept, SettledKept

\* A step that keeps what is in the file, and gives up what is given up
LEMMA SettledStays ==
  ASSUME SettledKept, UNCHANGED <<file, flushed, settled>>, Gone \subseteq Gone'
  PROVE  SettledKept'
BY DEF SettledKept, Safe

LEMMA StillKept ==
  ASSUME Kept, UNCHANGED <<file, Unwritten, vectorbuffers, kBufferCurrent, dropped, big,
                           offered, taken, settled, flushed>>
  PROVE  Kept'
BY DEF Kept, EveryKept, TakenKept, SettledKept, InFile, InBatch, InVector, InCurrent, Gone, Safe

LEMMA AppendFitsKept ==
  ASSUME IInv, Kept, NEW n \in Sizes, AppendFits(n)
  PROVE  Kept'
<1>1. offered \in Nat /\ offered' = offered + 1 /\ kBufferCurrent \in Buffers
  BY DEF IInv, TypeOK, AppendFits
<1>2. InCurrent' = InCurrent \cup {offered + 1}
  BY <1>1, IdsOfAppend DEF InCurrent, AppendFits
<1>3. /\ UNCHANGED <<InFile, InBatch, InVector, Gone, taken>>
      /\ UNCHANGED <<file, flushed, settled>>
  BY DEF AppendFits, own, output, history, InFile, InBatch, InVector, Gone, Unwritten
<1>4. 1..offered + 1 = (1..offered) \cup {offered + 1}
  BY <1>1
<1>. HIDE DEF InFile, InBatch, InVector, InCurrent, Gone
<1>5. EveryKept'
  BY <1>1, <1>2, <1>3, <1>4 DEF Kept, EveryKept
<1>6. TakenKept' /\ SettledKept'
  BY <1>3, SettledStays DEF Kept, TakenKept
<1>. QED  BY <1>5, <1>6 DEF Kept

\* The numbers that steps of append and the worker move
LEMMA HandsOverIds ==
  ASSUME IInv, NEW n \in Sizes, AppendHandsOver(n)
  PROVE  /\ InVector' = InVector \cup InCurrent
         /\ \/ big' = big /\ InCurrent' = {offered + 1}
            \/ big' = big \cup {offered + 1} /\ InCurrent' = {}
         /\ Len(vectorbuffers') = Len(vectorbuffers) + 1
<1>1. /\ offered + 1 \in Nat /\ kBufferCurrent \in Buffers /\ vectorbuffers \in Seq(Buffers)
  BY DEF IInv, TypeOK
<1>2. /\ vectorbuffers' = vectorbuffers \o <<kBufferCurrent>> /\ <<kBufferCurrent>> \in Seq(Buffers)
      /\ Len(vectorbuffers') = Len(vectorbuffers) + 1
  BY <1>1, AppendIsConcat, LongerBatch DEF AppendHandsOver
<1>3. InVector' = InVector \cup InCurrent
  BY <1>1, <1>2, IdsOfConcat, IdsSingle DEF InVector, InCurrent
<1>4. Fresh = <<>>
  BY DEF IInv, Round, Fresh
<1>5. CASE big' = big /\ kBufferCurrent' = Append(<<>>, [id |-> offered + 1, size |-> n])
  <2>1. <<>> \in Buffers
    BY EmptyBuffer
  <2>2. Ids(Append(<<>>, [id |-> offered + 1, size |-> n])) = Ids(<<>>) \cup {offered + 1}
    BY <1>1, <2>1, IdsOfAppend
  <2>. HIDE DEF Ids
  <2>3. InCurrent' = {offered + 1}
    BY <1>5, <2>2, IdsNone DEF InCurrent
  <2>. QED  BY <1>2, <1>3, <1>5, <2>3
<1>6. CASE big' = big \cup {offered + 1} /\ kBufferCurrent' = <<>>
  <2>1. InCurrent' = {}
    BY <1>6, IdsNone DEF InCurrent
  <2>. QED  BY <1>2, <1>3, <1>6, <2>1
<1>. QED  BY <1>4, <1>5, <1>6 DEF AppendHandsOver

LEMMA AppendHandsOverKept ==
  ASSUME IInv, Kept, NEW n \in Sizes, AppendHandsOver(n)
  PROVE  Kept'
<1>1. offered \in Nat /\ offered' = offered + 1 /\ dropped' = dropped
  BY DEF IInv, TypeOK, AppendHandsOver
<1>2. InVector' = InVector \cup InCurrent
  BY HandsOverIds
<1>3. InCurrent' \cup Gone' = Gone \cup {offered + 1} /\ Gone \subseteq Gone'
  <2>. HIDE DEF InCurrent
  <2>. QED  BY <1>1, HandsOverIds DEF Gone
<1>4. UNCHANGED <<InFile, InBatch, taken>> /\ UNCHANGED <<file, flushed, settled>>
  BY DEF AppendHandsOver, own, output, InFile, InBatch, Unwritten
<1>5. 1..offered + 1 = (1..offered) \cup {offered + 1}
  BY <1>1
<1>. HIDE DEF InFile, InBatch, InVector, InCurrent, Gone
<1>6. EveryKept'
  BY <1>1, <1>2, <1>3, <1>4, <1>5 DEF Kept, EveryKept
<1>7. TakenKept' /\ SettledKept'
  BY <1>3, <1>4, SettledStays DEF Kept, TakenKept
<1>. QED  BY <1>6, <1>7 DEF Kept

LEMMA SwapIds ==
  ASSUME IInv, Swap
  PROVE  /\ InBatch = {} /\ InBatch' = InVector \cup InCurrent
         /\ InVector' = {} /\ InCurrent' = {}
         /\ Len(vectorbuffers') = 0 /\ Len(buffersToWrite') = Len(vectorbuffers) + 1
<1>. DEFINE B == Append(vectorbuffers, kBufferCurrent)
<1>1. /\ buffersToWrite = <<>> /\ written = 0 /\ newBuffer1 = <<>>
      /\ kBufferCurrent \in Buffers /\ vectorbuffers \in Seq(Buffers) /\ file \in Buffers
  BY DEF IInv, TypeOK, Round, Between, Swap, Buffers
<1>2. InBatch = {}
  <2>1. Unwritten = <<>>
    BY <1>1, SubSeqEmpty DEF Unwritten
  <2>. QED  BY <2>1, IdsNone DEF InBatch
<1>3. B \in Seq(Buffers) /\ B = vectorbuffers \o <<kBufferCurrent>>
      /\ <<kBufferCurrent>> \in Seq(Buffers) /\ Len(B) = Len(vectorbuffers) + 1
  BY <1>1, AppendIsConcat, LongerBatch
<1>4. InBatch' = InVector \cup InCurrent
  <2>1. Unwritten' = SubSeq(B, 0 + 1, Len(B))
    BY DEF Unwritten, Swap
  <2>2. IdsIn(B) = InVector \cup InCurrent
    BY <1>1, <1>3, IdsOfConcat, IdsSingle DEF InVector, InCurrent
  <2>. HIDE DEF B
  <2>3. Unwritten' = B
    BY <1>3, <2>1, SubSeqFull
  <2>. QED  BY <2>2, <2>3 DEF InBatch
<1>5. InVector' = {} /\ InCurrent' = {} /\ Len(vectorbuffers') = 0
  BY <1>1, IdsNone DEF InVector, InCurrent, Swap
<1>. QED  BY <1>2, <1>3, <1>4, <1>5 DEF Swap

LEMMA SwapKept ==
  ASSUME IInv, Kept, Swap
  PROVE  Kept'
<1>1. /\ UNCHANGED <<InFile, Gone, offered>> /\ UNCHANGED <<file, flushed, settled>>
      /\ taken' = offered
  BY DEF Swap, output, InFile, Gone
<1>. HIDE DEF InFile, InBatch, InVector, InCurrent, Gone
<1>2. EveryKept' /\ TakenKept'
  BY <1>1, SwapIds DEF Kept, EveryKept, TakenKept
<1>3. SettledKept'
  BY <1>1, SettledStays DEF Kept
<1>. QED  BY <1>2, <1>3 DEF Kept

LEMMA TrimIds ==
  ASSUME IInv, Trim
  PROVE  \/ UNCHANGED <<InBatch, Gone>>
         \/ /\ InBatch' \subseteq InBatch /\ Gone \subseteq Gone'
            /\ InBatch' \cup Gone' = InBatch \cup Gone
            /\ Len(buffersToWrite) > DropAbove
<1>1. CASE Len(buffersToWrite) > DropAbove
  <2>. DEFINE B == buffersToWrite
              F == SubSeq(B, 1, 2)
              E == SubSeq(B, 3, Len(B))
  <2>1. /\ B \in Seq(Buffers) /\ Len(B) > 2 /\ Len(B) \in Nat /\ dropped \in Seq(Buffers)
    BY <1>1, DropAssumption, LenProperties DEF IInv, TypeOK
  <2>2. F \in Seq(Buffers) /\ E \in Seq(Buffers)
    BY <2>1, CutBatch
  <2>3. B = F \o E
    BY <2>1, ConcatAdjacentSubSeq, SubSeqFull
  <2>4. InBatch = IdsIn(B)
    <3>1. Unwritten = B
      BY <2>1, SubSeqFull DEF IInv, Round, Trim, Unwritten
    <3>. QED  BY <3>1 DEF InBatch
  <2>5. buffersToWrite' = F /\ written' = 0 /\ dropped' = dropped \o E
    BY <1>1 DEF Trim, IInv, Round
  <2>6. InBatch' = IdsIn(F)
    <3>1. Unwritten' = SubSeq(F, 0 + 1, Len(F))
      BY <2>5 DEF Unwritten
    <3>. HIDE DEF F
    <3>2. Unwritten' = F
      BY <2>2, <3>1, SubSeqFull
    <3>. QED  BY <3>2 DEF InBatch
  <2>. HIDE DEF B, F, E
  <2>7. InBatch = InBatch' \cup IdsIn(E)
    BY <2>2, <2>3, <2>4, <2>6, IdsOfConcat
  <2>8. Gone' = Gone \cup IdsIn(E)
    <3>1. IdsIn(dropped') = IdsIn(dropped) \cup IdsIn(E)
      BY <2>1, <2>2, <2>5, IdsOfConcat
    <3>. QED  BY <3>1 DEF Gone, Trim
  <2>. QED  BY <1>1, <2>7, <2>8
<1>2. CASE ~ (Len(buffersToWrite) > DropAbove)
  BY <1>2 DEF Trim, InBatch, Unwritten, Gone
<1>. QED  BY <1>1, <1>2

LEMMA TrimKept ==
  ASSUME IInv, Kept, Trim
  PROVE  Kept'
<1>1. /\ UNCHANGED <<InFile, InVector, InCurrent, offered, taken>>
      /\ UNCHANGED <<file, flushed, settled>>
  BY DEF Trim, shared, output, InFile, InVector, InCurrent
<1>. HIDE DEF InFile, InBatch, InVector, InCurrent, Gone
<1>2. InBatch' \cup Gone' = InBatch \cup Gone /\ Gone \subseteq Gone'
  BY TrimIds
<1>3. EveryKept' /\ TakenKept'
  BY <1>1, <1>2 DEF Kept, EveryKept, TakenKept
<1>4. SettledKept'
  BY <1>1, <1>2, SettledStays DEF Kept
<1>. QED  BY <1>3, <1>4 DEF Kept

\* b is what is written.
LEMMA WriteOneIds ==
  ASSUME IInv, WriteOne
  PROVE  \E b \in Buffers : file' = file \o b /\ InBatch = Ids(b) \cup InBatch'
<1>. DEFINE b == buffersToWrite[written + 1]
            U == SubSeq(buffersToWrite, written + 2, Len(buffersToWrite))
<1>1. /\ buffersToWrite \in Seq(Buffers) /\ Len(buffersToWrite) \in Nat
      /\ written \in Nat /\ written + 1 \in 1..Len(buffersToWrite)
  BY LenProperties DEF IInv, TypeOK, WriteOne
<1>2. \A i \in 1..Len(buffersToWrite) : buffersToWrite[i] \in Buffers
  BY <1>1, ElementOfSeq
<1>3. b \in Buffers /\ U \in Seq(Buffers) /\ <<b>> \in Seq(Buffers)
  BY <1>1, <1>2, SubSeqProperties
<1>4. Unwritten = <<b>> \o U
  <2>1. Len(buffersToWrite) \in written + 1..Len(buffersToWrite)
    BY <1>1
  <2>. QED  BY <1>1, <2>1, SubSeqRecursiveFirst DEF Unwritten
<1>5. Unwritten' = U /\ file' = file \o b
  BY <1>1 DEF Unwritten, WriteOne
<1>. HIDE DEF b, U
<1>6. InBatch = Ids(b) \cup InBatch'
  BY <1>3, <1>4, <1>5, IdsOfConcat, IdsSingle DEF InBatch
<1>. QED  BY <1>3, <1>5, <1>6

LEMMA WriteOneKept ==
  ASSUME IInv, Kept, WriteOne
  PROVE  Kept'
<1>1. /\ file \in Buffers /\ file \in Seq(Msgs) /\ Len(file) \in Nat /\ flushed \in Nat
  BY LenProperties DEF IInv, TypeOK, Buffers
<1>2. PICK b \in Buffers : file' = file \o b /\ InBatch = Ids(b) \cup InBatch'
  BY WriteOneIds
<1>3. b \in Seq(Msgs)
  BY DEF Buffers
<1>4. InFile' = InFile \cup Ids(b)
  BY <1>1, <1>2, IdsOfLonger DEF InFile
<1>5. UNCHANGED <<InVector, InCurrent, Gone, offered, taken, flushed, settled>>
  BY DEF WriteOne, shared, history, InVector, InCurrent, Gone
<1>6. SettledKept'
  <2>1. /\ Len(file') = Len(file) + Len(b) /\ Len(b) \in Nat
        /\ \A i \in 1..Len(file) : file'[i] = file[i]
    BY <1>1, <1>2, <1>3, ConcatProperties, LenProperties
  <2>2. flushed <= Len(file)
    BY DEF Kept, SettledKept
  <2>3. \A i \in 1..flushed : file[i] \in Msgs /\ file'[i] = file[i]
    BY <1>1, <2>1, <2>2, ElementOfSeq
  <2>4. /\ Len(SubSeq(file, 1, flushed)) = flushed
        /\ Len(SubSeq(file', 1, flushed)) = flushed
        /\ \A i \in 1..flushed : /\ SubSeq(file, 1, flushed)[i] = file[i]
                                 /\ SubSeq(file', 1, flushed)[i] = file[i]
    BY <1>1, <2>3, SubSeqProperties
  <2>5. Safe' = Safe
    BY <1>5, <2>4 DEF Safe, Ids
  <2>. QED  BY <1>1, <1>5, <2>1, <2>2, <2>5 DEF Kept, SettledKept
<1>. HIDE DEF InFile, InBatch, InVector, InCurrent, Gone
<1>7. EveryKept' /\ TakenKept'
  BY <1>2, <1>4, <1>5 DEF Kept, EveryKept, TakenKept
<1>. QED  BY <1>6, <1>7 DEF Kept

LEMMA RecycleIds ==
  ASSUME IInv, Recycle
  PROVE  InBatch = {} /\ InBatch' = {}
<1>1. /\ buffersToWrite \in Seq(Buffers) /\ Len(buffersToWrite) \in Nat
      /\ written = Len(buffersToWrite) /\ Len(<<>>) = 0
  BY LenProperties DEF IInv, TypeOK, Recycle
<1>2. Unwritten = <<>>
  BY <1>1, SubSeqEmpty DEF Unwritten
<1>3. Unwritten' = <<>>
  <2>1. Unwritten' = SubSeq(<<>>, 1, 0)
    BY <1>1 DEF Unwritten, Recycle
  <2>. QED  BY <2>1, SubSeqEmpty
<1>. QED  BY <1>2, <1>3, IdsNone DEF InBatch

LEMMA RecycleKept ==
  ASSUME IInv, Kept, Recycle
  PROVE  Kept'
<1>1. file \in Seq(Msgs) /\ Len(file) \in Nat
  BY LenProperties DEF IInv, TypeOK
<1>2. /\ UNCHANGED <<InFile, InVector, InCurrent, Gone, offered, taken, file>>
      /\ flushed' = Len(file) /\ settled' = taken
  BY DEF Recycle, shared, InFile, InVector, InCurrent, Gone
<1>3. Safe' = InFile
  <2>1. Safe' = Ids(SubSeq(file, 1, Len(file)))
    BY <1>2 DEF Safe
  <2>. QED  BY <1>1, <2>1, SubSeqFull DEF InFile
<1>. HIDE DEF InFile, InBatch, InVector, InCurrent, Gone, Safe
<1>. QED  BY <1>1, <1>2, <1>3, RecycleIds DEF Kept, EveryKept, TakenKept, SettledKept

LEMMA StepKept == IInv /\ Kept /\ [Next]_vars => Kept'
<1>. SUFFICES ASSUME IInv, Kept, [Next]_vars PROVE Kept'
  OBVIOUS
<1>1. CASE Flush \/ Start \/ Wake \/ Timeout \/ UNCHANGED vars
  BY <1>1, StillKept DEF Flush, Start, Wake, Timeout, vars, shared, own, output, history,
     Unwritten
<1>2. CASE Swap \/ Trim \/ WriteOne \/ Recycle
  BY <1>2, SwapKept, TrimKept, WriteOneKept, RecycleKept
<1>. QED  BY <1>1, <1>2, AppendFitsKept, AppendHandsOverKept DEF Next, Worker

LEMMA KeptHolds == Spec => [](IInv /\ Kept)
<1>1. IInv /\ Kept /\ [Next]_vars => Kept'
  BY StepKept
<1>. QED  BY <1>1, InitKept, Invariance, PTL DEF Spec

-----------------------------------------------------------------------------
(* The theorems                                                             *)

\* No exchange of buffers forgets a message: it is on its way or in the file,
\* or it fitted into no buffer or was in a batch that was cut down.
THEOREM NoMessageForgotten == Spec => []Accounted
<1>1. IInv /\ Kept => Accounted
  BY KeptMeans
<1>. QED  BY <1>1, KeptHolds, PTL

\* Wherever the worker stands when a fatal line aborts the process, the
\* messages of the rounds it has ended are in the flushed part of the file.
THEOREM EndedRoundsSurvive == Spec => []SettledSurvive
<1>1. IInv /\ Kept => SettledSurvive
  BY KeptMeans
<1>. QED  BY <1>1, KeptHolds, PTL
-----------------------------------------------------------------------------
(***************************************************************************)
(* AsyncLog implements LogPipe.  A round takes the messages of one         *)
(* interval of numbers, from what the last round took to what was offered  *)
(* when this one swapped the buffers.  Of these it writes all but the big  *)
(* ones, unless its batch is cut down; and as an append hands over one     *)
(* buffer at most, a batch that long stands for as many messages, but for  *)
(* one.                                                                    *)
(***************************************************************************)

\* The numbers written since the last flush
Unflushed == {file[p].id : p \in flushed + 1..Len(file)}

\* What the round took, and what append has taken since then
Taken    == (settled + 1..taken) \ big
Incoming == (taken + 1..offered) \ big

Rounds ==
  /\ big \subseteq 1..offered /\ settled <= taken
  /\ InVector \cup InCurrent = Incoming /\ Len(vectorbuffers) <= offered - taken
  /\ Between => settled = taken /\ Unflushed = {}
  /\ at = "trim" => /\ Unflushed = {} /\ InBatch = Taken
                    /\ Len(buffersToWrite) <= (taken - settled) + 1
  /\ at = "write" => /\ Unflushed \cup InBatch \subseteq Taken
                     /\ Unflushed \cup InBatch = Taken \/ taken - settled >= DropAbove

LEMMA InitRounds == Init => Rounds
<1>. SUFFICES ASSUME Init PROVE Rounds
  OBVIOUS
<1>1. InVector = {} /\ InCurrent = {}
  BY IdsNone DEF Init, InVector, InCurrent
<1>2. Len(<<>>) = 0
  OBVIOUS
<1>. HIDE DEF InVector, InCurrent
<1>. QED  BY <1>1, <1>2 DEF Init, Rounds, Incoming, Unflushed, Between

LEMMA RoundsStay ==
  ASSUME Rounds, Between' <=> Between, (at' = "trim" <=> at = "trim"), (at' = "write" <=> at = "write"),
         UNCHANGED <<file, flushed, big, offered, taken, settled, vectorbuffers, kBufferCurrent,
                     buffersToWrite, Unwritten>>
  PROVE  Rounds'
<1>1. UNCHANGED <<InVector, InCurrent, InBatch>>
  BY DEF InVector, InCurrent, InBatch
<1>2. UNCHANGED <<Unflushed, Taken, Incoming>>
  BY DEF Unflushed, Taken, Incoming
<1>3. UNCHANGED <<big, offered, taken, settled, vectorbuffers, buffersToWrite>>
  OBVIOUS
<1>. HIDE DEF InVector, InCurrent, InBatch, Unflushed, Taken, Incoming, Between
<1>4. /\ (big \subseteq 1..offered /\ settled <= taken)'
      /\ (InVector \cup InCurrent = Incoming /\ Len(vectorbuffers) <= offered - taken)'
  BY <1>1, <1>2, <1>3 DEF Rounds
<1>5. (Between => settled = taken /\ Unflushed = {})'
  BY <1>2, <1>3 DEF Rounds
<1>6. (at = "trim" => /\ Unflushed = {} /\ InBatch = Taken
                      /\ Len(buffersToWrite) <= (taken - settled) + 1)'
  BY <1>1, <1>2, <1>3 DEF Rounds
<1>7. (at = "write" => /\ Unflushed \cup InBatch \subseteq Taken
                       /\ Unflushed \cup InBatch = Taken \/ taken - settled >= DropAbove)'
  BY <1>1, <1>2, <1>3 DEF Rounds
<1>. QED  BY <1>4, <1>5, <1>6, <1>7 DEF Rounds

\* What does not change when a message is offered
LEMMA OfferedOnly ==
  ASSUME IInv, Rounds, (\E n \in Sizes : AppendFits(n) \/ AppendHandsOver(n))
  PROVE  /\ UNCHANGED <<Unflushed, InBatch, Taken, buffersToWrite, at, taken, settled>>
         /\ offered' = offered + 1
<1>1. /\ offered \in Nat /\ taken \in Nat /\ settled \in Nat /\ taken <= offered
      /\ big \subseteq Nat
  BY DEF IInv, TypeOK, Counts
<1>2. /\ UNCHANGED <<file, flushed, buffersToWrite, written, at, taken, settled>>
      /\ offered' = offered + 1 /\ big' \in {big, big \cup {offered + 1}}
  BY DEF AppendFits, AppendHandsOver, own, output, history
<1>3. offered + 1 \notin settled + 1..taken
  BY <1>1
<1>4. Taken' = Taken
  BY <1>2, <1>3 DEF Taken
<1>. QED  BY <1>2, <1>4 DEF Unflushed, InBatch, Unwritten

LEMMA AppendRounds ==
  ASSUME IInv, Rounds, NEW n \in Sizes, AppendFits(n) \/ AppendHandsOver(n)
  PROVE  Rounds'
<1>1. /\ offered \in Nat /\ taken \in Nat /\ settled \in Nat /\ taken <= offered
      /\ big \subseteq 1..offered /\ kBufferCurrent \in Buffers /\ Len(vectorbuffers) \in Nat
      /\ Len(vectorbuffers) <= offered - taken
  BY LenProperties DEF IInv, TypeOK, Counts, Rounds
<1>2. /\ UNCHANGED <<Unflushed, InBatch, Taken, buffersToWrite, at, taken, settled>>
      /\ offered' = offered + 1
  BY OfferedOnly
<1>3. offered + 1 \notin big /\ (taken + 1..offered + 1) = (taken + 1..offered) \cup {offered + 1}
      /\ offered + 1 \notin taken + 1..offered
  BY <1>1
<1>4. /\ Len(vectorbuffers') <= offered' - taken'
      /\ \/ big' = big /\ (InVector \cup InCurrent)' = (InVector \cup InCurrent) \cup {offered + 1}
         \/ big' = big \cup {offered + 1} /\ (InVector \cup InCurrent)' = InVector \cup InCurrent
  <2>1. CASE AppendFits(n)
    <3>1. InCurrent' = InCurrent \cup {offered + 1}
      BY <1>1, <2>1, IdsOfAppend DEF InCurrent, AppendFits
    <3>2. InVector' = InVector /\ big' = big /\ vectorbuffers' = vectorbuffers
      BY <2>1 DEF AppendFits, InVector, history
    <3>. HIDE DEF InVector, InCurrent
    <3>3. (InVector \cup InCurrent)' = (InVector \cup InCurrent) \cup {offered + 1}
      BY <3>1, <3>2
    <3>4. Len(vectorbuffers') <= offered' - taken'
      BY <1>1, <1>2, <3>2
    <3>. QED  BY <3>2, <3>3, <3>4
  <2>2. CASE AppendHandsOver(n)
    <3>. HIDE DEF InVector, InCurrent
    <3>1. Len(vectorbuffers') <= offered' - taken'
      BY <1>1, <1>2, <2>2, HandsOverIds
    <3>. QED  BY <2>2, <3>1, HandsOverIds
  <2>. QED  BY <2>1, <2>2
<1>. HIDE DEF InVector, InCurrent, InBatch, Unflushed, Taken
<1>5. (InVector \cup InCurrent)' = Incoming'
  BY <1>2, <1>3, <1>4 DEF Rounds, Incoming
<1>6. big' \subseteq 1..offered'
  <2>1. 1..offered + 1 = (1..offered) \cup {offered + 1}
    BY <1>1
  <2>. QED  BY <1>1, <1>2, <1>4, <2>1
<1>. QED  BY <1>2, <1>4, <1>5, <1>6 DEF Rounds, Between

LEMMA SwapRounds ==
  ASSUME IInv, Rounds, Swap
  PROVE  Rounds'
<1>1. /\ offered \in Nat /\ taken \in Nat /\ settled = taken /\ Unflushed = {}
      /\ Len(vectorbuffers) <= offered - taken /\ Len(vectorbuffers) \in Nat /\ taken <= offered
  BY LenProperties DEF IInv, TypeOK, Counts, Rounds, Between, Swap
<1>2. /\ at' = "trim" /\ taken' = offered /\ UNCHANGED <<offered, big, settled, Unflushed>>
  BY DEF Swap, output, Unflushed
<1>3. offered + 1..offered = {}
  BY <1>1
<1>. HIDE DEF InVector, InCurrent, InBatch, Unflushed
<1>4. (InVector \cup InCurrent)' = Incoming' /\ Len(vectorbuffers') <= offered' - taken'
  BY <1>1, <1>2, <1>3, SwapIds DEF Incoming
<1>5. InBatch' = Taken'
  BY <1>1, <1>2, SwapIds DEF Rounds, Incoming, Taken
<1>6. Len(buffersToWrite') <= (taken' - settled') + 1
  BY <1>1, <1>2, SwapIds
<1>. QED  BY <1>1, <1>2, <1>4, <1>5, <1>6 DEF Rounds, Between

LEMMA TrimRounds ==
  ASSUME IInv, Rounds, Trim
  PROVE  Rounds'
<1>1. /\ taken \in Nat /\ settled \in Nat /\ settled <= taken /\ Unflushed = {} /\ InBatch = Taken
      /\ Len(buffersToWrite) <= (taken - settled) + 1 /\ Len(buffersToWrite) \in Nat
  BY LenProperties DEF IInv, TypeOK, Rounds, Trim
<1>2. /\ at' = "write"
      /\ UNCHANGED <<Unflushed, Taken, Incoming, InVector, InCurrent, big, offered, taken, settled,
                     vectorbuffers>>
  BY DEF Trim, shared, output, Unflushed, Taken, Incoming, InVector, InCurrent
<1>3. DropAbove \in Nat
  BY DropAssumption
<1>. HIDE DEF InVector, InCurrent, InBatch, Unflushed, Taken, Incoming
<1>4. InBatch' \subseteq Taken /\ (InBatch' = Taken \/ taken - settled >= DropAbove)
  <2>1. CASE InBatch' = InBatch
    BY <1>1, <2>1
  <2>2. CASE InBatch' \subseteq InBatch /\ Len(buffersToWrite) > DropAbove
    BY <1>1, <1>3, <2>2
  <2>. QED  BY <2>1, <2>2, TrimIds
<1>. QED  BY <1>1, <1>2, <1>4 DEF Rounds, Between

LEMMA WriteOneRounds ==
  ASSUME IInv, Kept, Rounds, WriteOne
  PROVE  Rounds'
<1>1. /\ file \in Seq(Msgs) /\ Len(file) \in Nat /\ flushed \in Nat /\ flushed <= Len(file)
  BY LenProperties DEF IInv, TypeOK, Kept, SettledKept
<1>2. PICK b \in Buffers : file' = file \o b /\ InBatch = Ids(b) \cup InBatch'
  BY WriteOneIds
<1>3. /\ Len(b) \in Nat /\ Len(file') = Len(file) + Len(b)
      /\ \A i \in 1..Len(file) : file'[i] = file[i]
      /\ \A i \in 1..Len(b) : file'[Len(file) + i] = b[i]
  <2>1. b \in Seq(Msgs)
    BY DEF Buffers
  <2>. QED  BY <1>1, <1>2, <2>1, ConcatProperties, LenProperties
<1>4. /\ at = "write"
      /\ UNCHANGED <<at, flushed, Taken, Incoming, InVector, InCurrent, big, offered, taken, settled,
                     vectorbuffers>>
  BY DEF WriteOne, shared, history, Taken, Incoming, InVector, InCurrent
<1>5. Unflushed' = Unflushed \cup Ids(b)
  <2>1. \A p \in flushed + 1..Len(file') : \/ p \in flushed + 1..Len(file) /\ file'[p] = file[p]
                                           \/ p - Len(file) \in 1..Len(b) /\ file'[p] = b[p - Len(file)]
    <3>. SUFFICES ASSUME NEW p \in flushed + 1..Len(file'), ~ p <= Len(file)
                  PROVE  p - Len(file) \in 1..Len(b) /\ file'[p] = b[p - Len(file)]
      BY <1>1, <1>3
    <3>1. p - Len(file) \in 1..Len(b) /\ Len(file) + (p - Len(file)) = p
      BY <1>1, <1>3
    <3>. QED  BY <1>3, <3>1
  <2>2. Unflushed' \subseteq Unflushed \cup Ids(b)
    BY <1>4, <2>1 DEF Unflushed, Ids
  <2>3. \A p \in flushed + 1..Len(file) : p \in flushed + 1..Len(file') /\ file'[p] = file[p]
    BY <1>1, <1>3
  <2>4. \A i \in 1..Len(b) : Len(file) + i \in flushed + 1..Len(file')
    BY <1>1, <1>3
  <2>5. Unflushed \subseteq Unflushed'
    BY <1>4, <2>3 DEF Unflushed
  <2>6. Ids(b) \subseteq Unflushed'
    BY <1>3, <1>4, <2>4 DEF Unflushed, Ids
  <2>. QED  BY <2>2, <2>5, <2>6
<1>. HIDE DEF InVector, InCurrent, InBatch, Unflushed, Taken, Incoming
<1>. QED  BY <1>2, <1>4, <1>5 DEF Rounds, Between

LEMMA RecycleRounds ==
  ASSUME IInv, Rounds, Recycle
  PROVE  Rounds'
<1>1. Len(file) \in Nat /\ taken \in Nat
  BY LenProperties DEF IInv, TypeOK
<1>2. /\ at' = "wait" /\ settled' = taken /\ flushed' = Len(file)
      /\ UNCHANGED <<file, taken, big, offered, vectorbuffers, kBufferCurrent>>
  BY DEF Recycle, shared
<1>3. Unflushed' = {}
  <2>1. Len(file) + 1..Len(file) = {}
    BY <1>1
  <2>. QED  BY <1>2, <2>1 DEF Unflushed
<1>4. UNCHANGED <<InVector, InCurrent, Incoming>>
  BY <1>2 DEF InVector, InCurrent, Incoming
<1>. HIDE DEF InVector, InCurrent, Incoming, Unflushed
<1>. QED  BY <1>1, <1>2, <1>3, <1>4 DEF Rounds, Between

LEMMA StepRounds == IInv /\ Kept /\ Rounds /\ [Next]_vars => Rounds'
<1>. SUFFICES ASSUME IInv, Kept, Rounds, [Next]_vars PROVE Rounds'
  OBVIOUS
<1>1. CASE Flush \/ Start \/ Wake \/ Timeout \/ UNCHANGED vars
  BY <1>1, RoundsStay DEF Flush, Start, Wake, Timeout, vars, shared, own, output, history,
     Unwritten, Between
<1>2. CASE Swap \/ Trim \/ WriteOne \/ Recycle
  BY <1>2, SwapRounds, TrimRounds, WriteOneRounds, RecycleRounds
<1>. QED  BY <1>1, <1>2, AppendRounds DEF Next, Worker

-----------------------------------------------------------------------------
(* The refinement                                                           *)

Log == [i \in 1..flushed |-> file[i].id]

LEMMA PipeInit == Init => Pipe!Init
<1>. SUFFICES ASSUME Init PROVE Pipe!Init
  OBVIOUS
<1>1. Log = <<>>
  BY DEF Log, Init
<1>. QED  BY <1>1 DEF Init, Pipe!Init, Log

\* What is flushed is not touched again.
LEMMA LogStays ==
  ASSUME IInv, Kept, [Next]_vars, ~ Recycle
  PROVE  UNCHANGED <<Log, settled>>
<1>1. CASE WriteOne
  <2>1. file \in Seq(Msgs) /\ Len(file) \in Nat /\ flushed \in Nat /\ flushed <= Len(file)
    BY LenProperties DEF IInv, TypeOK, Kept, SettledKept
  <2>2. PICK b \in Buffers : file' = file \o b
    BY <1>1, WriteOneIds
  <2>3. \A i \in 1..flushed : file'[i] = file[i]
    <3>1. b \in Seq(Msgs)
      BY DEF Buffers
    <3>2. \A i \in 1..Len(file) : file'[i] = file[i]
      BY <2>1, <2>2, <3>1, ConcatProperties, LenProperties
    <3>. QED  BY <2>1, <3>2
  <2>4. flushed' = flushed /\ settled' = settled
    BY <1>1 DEF WriteOne, history
  <2>. QED  BY <2>3, <2>4 DEF Log
<1>2. CASE ~ WriteOne
  <2>1. UNCHANGED <<file, flushed, settled>>
    BY <1>2 DEF Next, Worker, AppendFits, AppendHandsOver, Flush, Start, Wake, Timeout, Swap, Trim,
       vars, output, history
  <2>. QED  BY <2>1 DEF Log
<1>. QED  BY <1>1, <1>2

\* Numbers in increasing order, at most as many as there are
LEMMA IncreasingFit ==
  ASSUME NEW a \in Nat, NEW b \in Nat, a <= b, NEW k \in Nat, NEW q \in [1..k -> a + 1..b],
         \A i, j \in 1..k : i < j => q[i] < q[j]
  PROVE  k <= b - a
<1>. SUFFICES ASSUME ~ k <= b - a PROVE FALSE
  OBVIOUS
<1>1. IsFiniteSet(1..k) /\ Cardinality(1..k) = k
  <2>1. 1 \in Int /\ k \in Int
    OBVIOUS
  <2>2. IsFiniteSet(1..k) /\ Cardinality(1..k) = IF 1 > k THEN 0 ELSE k - 1 + 1
    BY <2>1, FS_Interval
  <2>. QED  BY <2>2
<1>2. IsFiniteSet(a + 1..b) /\ Cardinality(a + 1..b) = b - a
  <2>1. a + 1 \in Int /\ b \in Int
    OBVIOUS
  <2>2. /\ IsFiniteSet(a + 1..b)
        /\ Cardinality(a + 1..b) = IF a + 1 > b THEN 0 ELSE b - (a + 1) + 1
    BY <2>1, FS_Interval
  <2>. QED  BY <2>2
<1>3. PICK i, j \in 1..k : i # j /\ q[i] = q[j]
  BY <1>1, <1>2, FS_PigeonHole
<1>4. q[i] \in Nat /\ q[j] \in Nat
  OBVIOUS
<1>5. i < j \/ j < i
  BY <1>3
<1>. QED  BY <1>3, <1>4, <1>5

LEMMA HeadOfConcat ==
  ASSUME NEW P \in Seq(Buffers), NEW R \in Seq(Buffers), P # <<>>
  PROVE  P \o R \in Seq(Buffers) /\ P \o R # <<>> /\ (P \o R)[1] = P[1] /\ 1 \in 1..Len(P \o R)
<1>1. Len(P) \in Nat /\ Len(R) \in Nat /\ Len(P) >= 1
  BY LenProperties, EmptySeq
<1>2. /\ P \o R \in Seq(Buffers) /\ Len(P \o R) = Len(P) + Len(R)
      /\ \A i \in 1..Len(P) + Len(R) : (P \o R)[i] = IF i <= Len(P) THEN P[i] ELSE R[i - Len(P)]
  BY ConcatProperties
<1>3. 1 \in 1..Len(P) + Len(R) /\ 1 <= Len(P)
  BY <1>1
<1>4. (P \o R)[1] = P[1]
  BY <1>2, <1>3
<1>5. P \o R # <<>>
  BY <1>1, <1>2, EmptySeq
<1>. QED  BY <1>2, <1>3, <1>4, <1>5

\* The file's messages are numbered in increasing order.
LEMMA FileIncreasing ==
  ASSUME IInv, Numbered(Pipeline, offered)
  PROVE  \A p, r \in 1..Len(file) : p < r => file[p].id < file[r].id
<1>. DEFINE X == <<file>> \o Unwritten
            Y == X \o vectorbuffers
<1>1. /\ <<file>> \in Seq(Buffers) /\ Unwritten \in Seq(Buffers)
      /\ vectorbuffers \in Seq(Buffers) /\ <<kBufferCurrent>> \in Seq(Buffers)
      /\ Pipeline = Y \o <<kBufferCurrent>>
  BY PipelineParts
<1>2. <<file>> # <<>> /\ <<file>>[1] = file
  OBVIOUS
<1>3. X \in Seq(Buffers) /\ X # <<>> /\ X[1] = file
  BY <1>1, <1>2, HeadOfConcat
<1>. HIDE DEF X
<1>4. Y \in Seq(Buffers) /\ Y # <<>> /\ Y[1] = file
  BY <1>1, <1>3, HeadOfConcat
<1>. HIDE DEF Y
<1>5. Pipeline[1] = file /\ 1 \in 1..Len(Pipeline)
  BY <1>1, <1>4, HeadOfConcat
<1>. QED  BY <1>5 DEF Numbered, Ordered

LEMMA FunctionIsSeq ==
  ASSUME NEW n \in Nat, NEW s \in [1..n -> Nat]
  PROVE  s \in Seq(Nat) /\ Len(s) = n
<1>1. s \in Seq(Nat)
  BY SeqDef
<1>2. 1..Len(s) = 1..n /\ Len(s) \in Nat
  BY <1>1, LenProperties
<1>3. Len(s) <= n /\ n <= Len(s)
  <2>1. Len(s) > 0 => Len(s) \in 1..n
    BY <1>2
  <2>2. n > 0 => n \in 1..Len(s)
    BY <1>2
  <2>. QED  BY <1>2, <2>1, <2>2
<1>. QED  BY <1>1, <1>2, <1>3

\* A file written on: the numbers of the part after the first n messages come
\* after those of the first n.
LEMMA NumbersOfRest ==
  ASSUME NEW f \in Seq(Msgs), NEW n \in 0..Len(f)
  PROVE  [i \in 1..Len(f) |-> f[i].id]
           = [i \in 1..n |-> f[i].id] \o [i \in 1..Len(f) - n |-> f[n + i].id]
<1>. DEFINE a == [i \in 1..n |-> f[i].id]
            b == [i \in 1..Len(f) - n |-> f[n + i].id]
            c == [i \in 1..Len(f) |-> f[i].id]
<1>1. Len(f) \in Nat /\ \A i \in 1..Len(f) : f[i] \in Msgs
  BY LenProperties, ElementOfSeq
<1>2. \A i \in 1..Len(f) : f[i].id \in Nat
  BY <1>1 DEF Msgs
<1>3. n \in Nat /\ Len(f) - n \in Nat /\ \A i \in 1..Len(f) - n : n + i \in 1..Len(f)
  BY <1>1
<1>4. a \in [1..n -> Nat] /\ b \in [1..Len(f) - n -> Nat] /\ c \in [1..Len(f) -> Nat]
  BY <1>1, <1>2, <1>3
<1>5. /\ a \in Seq(Nat) /\ Len(a) = n /\ b \in Seq(Nat) /\ Len(b) = Len(f) - n
      /\ c \in Seq(Nat) /\ Len(c) = Len(f)
  <2>. HIDE DEF a, b, c
  <2>. QED  BY <1>1, <1>3, <1>4, FunctionIsSeq
<1>6. /\ a \o b \in Seq(Nat) /\ Len(a \o b) = Len(f)
      /\ \A i \in 1..Len(f) : (a \o b)[i] = IF i <= n THEN a[i] ELSE b[i - n]
  <2>1. n + (Len(f) - n) = Len(f)
    BY <1>1
  <2>. HIDE DEF a, b
  <2>. QED  BY <1>5, <2>1, ConcatProperties
<1>7. \A i \in 1..Len(f) : c[i] = (a \o b)[i]
  <2>1. \A i \in 1..Len(f) : i <= n => i \in 1..n
    OBVIOUS
  <2>2. \A i \in 1..Len(f) : ~ i <= n => i - n \in 1..Len(f) - n /\ n + (i - n) = i
    BY <1>1
  <2>. QED  BY <1>6, <2>1, <2>2
<1>. HIDE DEF a, b, c
<1>8. c = a \o b
  BY <1>5, <1>6, <1>7, SeqEqual
<1>. QED  BY <1>8 DEF a, b, c

\* The end of a round: what it wrote goes to the log, in order.
LEMMA RecycleSettles ==
  ASSUME IInv, Kept, Rounds, Numbered(Pipeline, offered), Recycle
  PROVE  UNCHANGED Pipe!vars \/ Pipe!Round
<1>1. /\ file \in Seq(Msgs) /\ Len(file) \in Nat /\ flushed \in Nat /\ flushed <= Len(file)
      /\ taken \in Nat /\ settled \in Nat /\ offered \in Nat /\ settled <= taken /\ taken <= offered
  BY LenProperties DEF IInv, TypeOK, Kept, SettledKept, Counts, Rounds
<1>2. /\ flushed' = Len(file) /\ settled' = taken /\ UNCHANGED <<file, offered, big>>
  BY DEF Recycle
<1>3. /\ Unflushed \subseteq Taken
      /\ Unflushed = Taken \/ taken - settled >= DropAbove
  BY RecycleIds DEF Rounds, Recycle
<1>. DEFINE k == Len(file) - flushed
            q == [i \in 1..k |-> file[flushed + i].id]
<1>4. k \in Nat /\ \A i \in 1..k : flushed + i \in flushed + 1..Len(file)
  BY <1>1
<1>5. Unflushed = {q[i] : i \in DOMAIN q}
  <2>1. \A p \in flushed + 1..Len(file) : p - flushed \in 1..k /\ flushed + (p - flushed) = p
    BY <1>1
  <2>. QED  BY <1>4, <2>1 DEF Unflushed
<1>6. q \in [1..k -> settled + 1..taken]
  BY <1>3, <1>4 DEF Unflushed, Taken
<1>7. \A i, j \in 1..k : i < j => q[i] < q[j]
  <2>1. \A i, j \in 1..k : i < j => flushed + i \in 1..Len(file) /\ flushed + j \in 1..Len(file)
                                    /\ flushed + i < flushed + j
    BY <1>1
  <2>. QED  BY <2>1, FileIncreasing
<1>8. Log' = Log \o q
  <2>1. Log' = [i \in 1..Len(file) |-> file[i].id]
    BY <1>2 DEF Log
  <2>2. flushed \in 0..Len(file)
    BY <1>1
  <2>3. [i \in 1..Len(file) |-> file[i].id] = [i \in 1..flushed |-> file[i].id] \o q
    BY <1>1, <2>2, NumbersOfRest
  <2>. QED  BY <2>1, <2>3, Zenon DEF Log
<1>9. CASE taken = settled
  <2>1. Taken = {}
    <3>1. settled + 1..settled = {}
      BY <1>1
    <3>. QED  BY <1>9, <3>1 DEF Taken
  <2>2. Len(file) = flushed
    <3>. SUFFICES ASSUME Len(file) # flushed PROVE FALSE
      OBVIOUS
    <3>1. flushed + 1 \in flushed + 1..Len(file)
      BY <1>1
    <3>2. file[flushed + 1].id \in Unflushed
      BY <3>1 DEF Unflushed
    <3>. QED  BY <1>3, <2>1, <3>2
  <2>3. Log' = Log
    BY <1>2, <2>2 DEF Log
  <2>. QED  BY <1>2, <1>9, <2>3 DEF Pipe!vars, Log
<1>10. CASE taken # settled
  <2>. DEFINE round == settled + 1..taken
  <2>1. taken \in settled + 1..offered /\ k \in 0..taken - settled
    <3>1. k \in Nat
      BY <1>4
    <3>. HIDE DEF k, q
    <3>2. k <= taken - settled
      BY <1>1, <1>6, <1>7, <3>1, IncreasingFit
    <3>. QED  BY <1>1, <1>10, <3>1, <3>2
  <2>2. Taken = round \ big
    BY DEF Taken
  <2>3. \/ round \ Unflushed = big \cap round
        \/ taken - settled >= DropAbove /\ Unflushed \cap big = {}
    BY <1>3, <2>2
  <2>. HIDE DEF q, k
  <2>4. DOMAIN q = 1..k
    BY <1>6
  <2>5. \E s \in [1..k -> settled + 1..taken] : Pipe!Settle(taken, s)
    BY <1>2, <1>5, <1>6, <1>7, <1>8, <2>3, <2>4, Zenon DEF Pipe!Settle, Log
  <2>6. \E n \in settled + 1..offered : \E m \in 0..n - settled :
          \E s \in [1..m -> settled + 1..n] : Pipe!Settle(n, s)
    <3>. USE <2>1
    <3>. WITNESS taken \in settled + 1..offered
    <3>. WITNESS k \in 0..taken - settled
    <3>. QED  BY <2>5
  <2>. QED  BY <2>6 DEF Pipe!Round
<1>. QED  BY <1>9, <1>10

LEMMA PipeStep ==
  ASSUME IInv, Kept, Rounds, Numbered(Pipeline, offered), [Next]_vars
  PROVE  [Pipe!Next]_(Pipe!vars)
<1>1. CASE Recycle
  BY <1>1, RecycleSettles DEF Pipe!Next
<1>2. CASE \E n \in Sizes : AppendFits(n) \/ AppendHandsOver(n)
  <2>1. ~ Recycle
    <3>1. offered \in Nat
      BY DEF IInv, TypeOK
    <3>2. offered' = offered + 1
      BY <1>2 DEF AppendFits, AppendHandsOver
    <3>3. Recycle => offered' = offered
      BY DEF Recycle
    <3>. QED  BY <3>1, <3>2, <3>3
  <2>2. UNCHANGED <<Log, settled>>
    BY <2>1, LogStays
  <2>3. offered' = offered + 1 /\ big' \in {big, big \cup {offered + 1}}
    BY <1>2 DEF AppendFits, AppendHandsOver, history
  <2>. QED  BY <2>2, <2>3 DEF Pipe!Next, Pipe!Offer, Log
<1>3. CASE /\ ~ Recycle
           /\ Flush \/ Worker \/ UNCHANGED vars
  <2>1. UNCHANGED <<offered, big>>
    BY <1>3 DEF Worker, Flush, Start, Wake, Timeout, Swap, Trim, WriteOne, vars, history
  <2>. QED  BY <1>3, <2>1, LogStays DEF Pipe!vars, Log
<1>. QED  BY <1>1, <1>2, <1>3 DEF Next, Worker

\* AsyncLogFile keeps what LogPipe promises: all that the threads and the worker
\* do with the buffers (append and WorkerThreadProc, AsyncLogFile.cpp) is, seen
\* from the flushed part of the file, a step of LogPipe or none.  So a message
\* that fits into a buffer is lost only in a round in which DropAbove messages
\* came, and none overtakes another.  That each message comes to its end is
\* LogPipe's fairness, which this theorem leaves out of LogsInOrder.
THEOREM LogIsPipe == Spec => Pipe!Init /\ [][Pipe!Next]_(Pipe!vars)
<1>. DEFINE I == IInv /\ Kept /\ Rounds /\ Numbered(Pipeline, offered)
<1>1. Init => I
  BY InitInvariant, InitKept, InitRounds, InitOrder
<1>2. I /\ [Next]_vars => I'
  BY StepInvariant, StepKept, StepRounds, StepOrder
<1>3. I /\ [Next]_vars => [Pipe!Next]_(Pipe!vars)
  BY PipeStep
<1>. QED  BY <1>1, <1>2, <1>3, PipeInit, PTL DEF Spec
=============================================================================
