---------------------------- MODULE CkSend_proofs ----------------------------
(***************************************************************************)
(* Two arguments about the send path, for every set of threads and         *)
(* messages and every size of the buffers.                                 *)
(*                                                                         *)
(* What a handler found set is set when it uses it.  handSend tests        *)
(* kFunOnSend and pkCkListen and uses them later, without a lock; init()   *)
(* clears both.  SInv: bEnable, a thread about to post the DisconnectEx,   *)
(* the DisconnectEx, the thread in init() and the pool follow each other,  *)
(* one at a time, and each goes with one state of the connection.          *)
(*                                                                         *)
(* szSendBytes alone decides who posts, and yet the bytes go out in order. *)
(* Carried: as long as nothing was late for init(), the bytes that wait in *)
(* kSendList are the second part of a stream whose first part one holder   *)
(* at most has, the WSASend in the kernel or one thread; the counter is    *)
(* the length of the two, and what is left for autoPostSend to take off.   *)
(* Everything else about sending follows from it.                          *)
(*                                                                         *)
(* First come sums over finite sets and the folds of the library that      *)
(* Bytes and Unsent are made of, with induction over Nat from its well-    *)
(* foundedness; then what Rest, Sent, Filled and Unfilled do to a stream   *)
(* of buffers; then SInv; then Sound, step by step.                        *)
(***************************************************************************)
EXTENDS CkSend, FiniteSetTheorems, WellFoundedInduction, SequenceTheorems, TLAPS

-----------------------------------------------------------------------------
(* Induction, from the least counterexample                                 *)

LEMMA Least ==
  ASSUME NEW T \in SUBSET Nat, T # {} PROVE \E m \in T : \A n \in T : m <= n
<1>1. PICK m \in T : \A n \in T : ~ (<<n, m>> \in OpToRel(<, Nat))
  BY NatLessThanWellFounded, WFMin
<1>2. \A n \in T : ~ (n < m)
  BY <1>1 DEF OpToRel
<1>. QED  BY <1>2

LEMMA Induction ==
  ASSUME NEW P, 0 \in P, \A n \in Nat : n \in P => n + 1 \in P
  PROVE  \A n \in Nat : n \in P
<1>. SUFFICES ASSUME Nat \ P # {} PROVE FALSE
  OBVIOUS
<1>1. PICK m \in Nat \ P : \A n \in Nat \ P : m <= n
  BY Least
<1>2. m # 0 /\ m - 1 \in Nat
  BY <1>1
<1>3. m - 1 \in P /\ (m - 1) + 1 = m
  BY <1>1, <1>2
<1>. QED  BY <1>1, <1>2, <1>3

-----------------------------------------------------------------------------
(* Sums over the subsets of a finite set                                    *)

IsSum(g, f, S) ==
  /\ g \in [SUBSET S -> Nat] /\ g[{}] = 0
  /\ \A T \in SUBSET S : \A x \in S \ T : g[T \cup {x}] = g[T] + f[x]

LEMMA SumGrows ==
  ASSUME NEW S, NEW a, a \notin S, NEW f, \A x \in S \cup {a} : f[x] \in Nat,
         NEW g, IsSum(g, f, S)
  PROVE  \E h : IsSum(h, f, S \cup {a})
<1>. DEFINE h == [T \in SUBSET (S \cup {a}) |-> g[T \ {a}] + IF a \in T THEN f[a] ELSE 0]
<1>1. \A T \in SUBSET (S \cup {a}) : T \ {a} \in SUBSET S /\ g[T \ {a}] \in Nat
  BY DEF IsSum
<1>0. \A T \in SUBSET (S \cup {a}) : h[T] = g[T \ {a}] + IF a \in T THEN f[a] ELSE 0
  OBVIOUS
<1>2. h \in [SUBSET (S \cup {a}) -> Nat] /\ h[{}] = 0
  BY <1>1 DEF IsSum
<1>. HIDE DEF h
<1>3. ASSUME NEW T \in SUBSET (S \cup {a}), NEW x \in (S \cup {a}) \ T
      PROVE  h[T \cup {x}] = h[T] + f[x]
  <2>0. T \cup {x} \in SUBSET (S \cup {a})
    OBVIOUS
  <2>1. CASE x = a
    <3>1. (T \cup {x}) \ {a} = T \ {a} /\ a \notin T
      BY <2>1
    <3>2. h[T \cup {x}] = g[T \ {a}] + f[a] /\ h[T] = g[T \ {a}] + 0
      BY <1>0, <2>0, <2>1, <3>1
    <3>3. f[a] \in Nat /\ g[T \ {a}] \in Nat /\ f[x] = f[a]
      BY <1>1, <2>1
    <3>. QED  BY <3>2, <3>3
  <2>2. CASE x # a
    <3>1. (T \cup {x}) \ {a} = (T \ {a}) \cup {x} /\ x \in S \ (T \ {a})
      BY <2>2
    <3>2. g[(T \ {a}) \cup {x}] = g[T \ {a}] + f[x]
      BY <1>1, <3>1 DEF IsSum
    <3>3. f[x] \in Nat /\ f[a] \in Nat /\ g[T \ {a}] \in Nat
      BY <1>1
    <3>4. /\ h[T \cup {x}] = g[T \ {a}] + f[x] + IF a \in T THEN f[a] ELSE 0
          /\ h[T] = g[T \ {a}] + IF a \in T THEN f[a] ELSE 0
      BY <1>0, <2>0, <2>2, <3>1, <3>2
    <3>. QED  BY <3>3, <3>4
  <2>. QED  BY <2>1, <2>2
<1>4. IsSum(h, f, S \cup {a})
  BY <1>2, <1>3 DEF IsSum
<1>. QED  BY <1>4

LEMMA SumExists ==
  ASSUME NEW S, IsFiniteSet(S), NEW f, \A x \in S : f[x] \in Nat
  PROVE  \E g : IsSum(g, f, S)
<1>. DEFINE P == {n \in Nat : \A T \in SUBSET S : Cardinality(T) = n => \E g : IsSum(g, f, T)}
<1>1. 0 \in P
  <2>. SUFFICES ASSUME NEW T \in SUBSET S, Cardinality(T) = 0 PROVE \E g : IsSum(g, f, T)
    OBVIOUS
  <2>1. T = {}
    BY FS_EmptySet, FS_Subset
  <2>2. IsSum([U \in SUBSET T |-> 0], f, T)
    BY <2>1 DEF IsSum
  <2>. QED  BY <2>2
<1>2. ASSUME NEW n \in Nat, n \in P PROVE n + 1 \in P
  <2>. SUFFICES ASSUME NEW T \in SUBSET S, Cardinality(T) = n + 1 PROVE \E g : IsSum(g, f, T)
    OBVIOUS
  <2>1. IsFiniteSet(T) /\ T # {}
    BY FS_EmptySet, FS_Subset
  <2>2. PICK a \in T : TRUE
    BY <2>1
  <2>3. Cardinality(T \ {a}) = n
    <3>1. Cardinality(T \ {a}) = Cardinality(T) - 1
      BY <2>1, <2>2, FS_RemoveElement
    <3>. QED  BY <3>1
  <2>4. PICK g : IsSum(g, f, T \ {a})
    BY <1>2, <2>3
  <2>5. T = (T \ {a}) \cup {a} /\ \A x \in (T \ {a}) \cup {a} : f[x] \in Nat
    BY <2>2
  <2>6. \E h : IsSum(h, f, (T \ {a}) \cup {a})
    BY <2>4, <2>5, SumGrows
  <2>. QED  BY <2>5, <2>6
<1>. HIDE DEF P
<1>3. Cardinality(S) \in P
  BY <1>1, <1>2, Induction, FS_CardinalityType
<1>. QED  BY <1>3 DEF P

\* Two sums of the same numbers are the same.
LEMMA SumsAgree ==
  ASSUME NEW S, IsFiniteSet(S), NEW f, NEW e, \A x \in S : f[x] = e[x] /\ f[x] \in Nat,
         NEW Q, S \in SUBSET Q, NEW g, IsSum(g, f, Q),
         NEW R, S \in SUBSET R, NEW h, IsSum(h, e, R)
  PROVE  g[S] = h[S]
<1>. DEFINE P == {n \in Nat : \A T \in SUBSET S : Cardinality(T) = n => g[T] = h[T]}
<1>1. 0 \in P
  <2>. SUFFICES ASSUME NEW T \in SUBSET S, Cardinality(T) = 0 PROVE g[T] = h[T]
    OBVIOUS
  <2>1. T = {}
    BY FS_EmptySet, FS_Subset
  <2>. QED  BY <2>1 DEF IsSum
<1>2. ASSUME NEW n \in Nat, n \in P PROVE n + 1 \in P
  <2>. SUFFICES ASSUME NEW T \in SUBSET S, Cardinality(T) = n + 1 PROVE g[T] = h[T]
    OBVIOUS
  <2>1. IsFiniteSet(T) /\ T # {}
    BY FS_EmptySet, FS_Subset
  <2>2. PICK a \in T : TRUE
    BY <2>1
  <2>. DEFINE U == T \ {a}
  <2>3. Cardinality(U) = n
    <3>1. Cardinality(U) = Cardinality(T) - 1
      BY <2>1, <2>2, FS_RemoveElement
    <3>. QED  BY <3>1
  <2>4. g[U] = h[U]
    BY <1>2, <2>3
  <2>5. T = U \cup {a} /\ U \in SUBSET Q /\ U \in SUBSET R /\ a \in Q \ U /\ a \in R \ U
    BY <2>2
  <2>. HIDE DEF U
  <2>6. g[T] = g[U] + f[a] /\ h[T] = h[U] + e[a] /\ f[a] = e[a]
    BY <2>2, <2>5 DEF IsSum
  <2>. QED  BY <2>4, <2>6
<1>. HIDE DEF P
<1>3. Cardinality(S) \in P
  BY <1>1, <1>2, Induction, FS_CardinalityType
<1>. QED  BY <1>3 DEF P

Counts(f, S)  == \A x \in S : f[x] \in Nat
Chooses(c, S) == \A T \in SUBSET S : T # {} => c[T] \in T

\* Where h is folded over S, the elements chosen by c
Folds(h, f, c, S) ==
  /\ h[{}] = 0
  /\ \A T \in SUBSET S : T # {} => \/ h[T] = f[c[T]] + h[T \ {c[T]}]
                                   \/ h[T] = h[T \ {c[T]}] + f[c[T]]

\* What a fold comes to, in whatever order the elements are chosen
LEMMA FoldIsSum ==
  ASSUME NEW S, IsFiniteSet(S), NEW f, NEW g, IsSum(g, f, S), Counts(f, S),
         NEW c, Chooses(c, S), NEW h, Folds(h, f, c, S)
  PROVE  h[S] = g[S]
<1>. DEFINE P == {n \in Nat : \A T \in SUBSET S : Cardinality(T) = n => h[T] = g[T]}
<1>1. 0 \in P
  <2>. SUFFICES ASSUME NEW T \in SUBSET S, Cardinality(T) = 0 PROVE h[T] = g[T]
    OBVIOUS
  <2>1. T = {}
    BY FS_EmptySet, FS_Subset
  <2>. QED  BY <2>1 DEF IsSum, Folds
<1>2. ASSUME NEW n \in Nat, n \in P PROVE n + 1 \in P
  <2>. SUFFICES ASSUME NEW T \in SUBSET S, Cardinality(T) = n + 1 PROVE h[T] = g[T]
    OBVIOUS
  <2>1. IsFiniteSet(T) /\ T # {} /\ c[T] \in T
    BY FS_EmptySet, FS_Subset DEF Chooses
  <2>. DEFINE R == T \ {c[T]}
  <2>2. Cardinality(R) = n /\ R \in SUBSET S
    <3>1. Cardinality(R) = Cardinality(T) - 1
      BY <2>1, FS_RemoveElement
    <3>. QED  BY <3>1
  <2>3. h[R] = g[R] /\ (h[T] = f[c[T]] + h[R] \/ h[T] = h[R] + f[c[T]])
    BY <1>2, <2>1, <2>2 DEF Folds
  <2>4. T = R \cup {c[T]} /\ c[T] \in S \ R
    BY <2>1
  <2>. HIDE DEF R
  <2>5. g[T] = g[R] + f[c[T]] /\ g[R] \in Nat /\ f[c[T]] \in Nat
    BY <2>2, <2>4 DEF IsSum, Counts
  <2>. QED  BY <2>3, <2>5 DEF R
<1>. HIDE DEF P
<1>3. Cardinality(S) \in P
  BY <1>1, <1>2, Induction, FS_CardinalityType
<1>. QED  BY <1>3 DEF P

\* The sum itself is a solution of the fold's recursion.
LEMMA SumIsFold ==
  ASSUME NEW S, NEW f, NEW g, IsSum(g, f, S), Counts(f, S),
         NEW c, Chooses(c, S)
  PROVE  \A T \in SUBSET S : T # {} => /\ g[T] = f[c[T]] + g[T \ {c[T]}]
                                       /\ g[T] = g[T \ {c[T]}] + f[c[T]]
<1>1. ASSUME NEW T \in SUBSET S, T # {}
      PROVE  g[T] = f[c[T]] + g[T \ {c[T]}] /\ g[T] = g[T \ {c[T]}] + f[c[T]]
  <2>. DEFINE R == T \ {c[T]}
  <2>1. R \in SUBSET S /\ c[T] \in S \ R /\ T = R \cup {c[T]}
    BY <1>1 DEF Chooses
  <2>. HIDE DEF R
  <2>2. g[T] = g[R] + f[c[T]] /\ g[R] \in Nat /\ f[c[T]] \in Nat
    BY <2>1 DEF IsSum, Counts
  <2>. QED  BY <2>2 DEF R
<1>. QED  BY <1>1

-----------------------------------------------------------------------------
(* Sums over a sequence of numbers                                          *)

Total(s) == (CHOOSE g : IsSum(g, s, 1..Len(s)))[1..Len(s)]

LEMMA TotalIs ==
  ASSUME NEW s \in Seq(Nat)
  PROVE  \E g : IsSum(g, s, 1..Len(s)) /\ Total(s) = g[1..Len(s)]
<1>1. Len(s) \in Nat /\ IsFiniteSet(1..Len(s)) /\ \A i \in 1..Len(s) : s[i] \in Nat
  <2>1. Len(s) \in Nat /\ \A i \in 1..Len(s) : s[i] \in Nat
    OBVIOUS
  <2>2. IsFiniteSet(1..Len(s))
    BY <2>1, FS_Interval
  <2>. QED  BY <2>1, <2>2
<1>2. \E g : IsSum(g, s, 1..Len(s))
  BY <1>1, SumExists
<1>. QED  BY <1>2 DEF Total

LEMMA TotalNat == ASSUME NEW s \in Seq(Nat) PROVE Total(s) \in Nat
<1>1. PICK g : IsSum(g, s, 1..Len(s)) /\ Total(s) = g[1..Len(s)]
  BY TotalIs
<1>. QED  BY <1>1 DEF IsSum

LEMMA TotalEmpty == Total(<<>>) = 0
<1>1. <<>> \in Seq(Nat) /\ 1..Len(<<>>) = {}
  OBVIOUS
<1>2. PICK g : IsSum(g, <<>>, 1..Len(<<>>)) /\ Total(<<>>) = g[1..Len(<<>>)]
  BY <1>1, TotalIs
<1>. QED  BY <1>1, <1>2 DEF IsSum

LEMMA TotalAppend ==
  ASSUME NEW s \in Seq(Nat), NEW m \in Nat PROVE Total(Append(s, m)) = Total(s) + m
<1>. DEFINE r == Append(s, m)
            n == Len(s)
<1>1. /\ r \in Seq(Nat) /\ n \in Nat /\ Len(r) = n + 1 /\ r[n + 1] = m
      /\ \A i \in 1..n : r[i] = s[i] /\ r[i] \in Nat
  OBVIOUS
<1>. HIDE DEF r
<1>2. PICK g : IsSum(g, r, 1..Len(r)) /\ Total(r) = g[1..Len(r)]
  BY <1>1, TotalIs
<1>3. PICK h : IsSum(h, s, 1..n) /\ Total(s) = h[1..n]
  BY TotalIs
<1>. HIDE DEF n
<1>4. 1..Len(r) = (1..n) \cup {n + 1} /\ n + 1 \in (1..Len(r)) \ (1..n)
  BY <1>1
<1>5. g[1..Len(r)] = g[1..n] + m
  <2>1. 1..n \in SUBSET (1..Len(r))
    BY <1>4
  <2>2. g[(1..n) \cup {n + 1}] = g[1..n] + r[n + 1]
    BY <1>2, <1>4, <2>1 DEF IsSum
  <2>. QED  BY <1>1, <1>4, <2>2
<1>6. g[1..n] = h[1..n]
  <2>1. 1..n \in SUBSET (1..Len(r)) /\ 1..n \in SUBSET (1..n)
    BY <1>4
  <2>2. IsFiniteSet(1..n)
    BY <1>1, FS_Interval
  <2>3. \A i \in 1..n : r[i] = s[i] /\ r[i] \in Nat
    BY <1>1
  <2>4. IsSum(g, r, 1..Len(r)) /\ IsSum(h, s, 1..n)
    BY <1>2, <1>3
  <2>. DEFINE A == 1..n
              B == 1..Len(r)
  <2>5. /\ IsFiniteSet(A) /\ (\A i \in A : r[i] = s[i] /\ r[i] \in Nat)
        /\ A \in SUBSET B /\ A \in SUBSET A /\ IsSum(g, r, B) /\ IsSum(h, s, A)
    BY <2>1, <2>2, <2>3, <2>4
  <2>. HIDE DEF A, B
  <2>6. g[A] = h[A]
    BY <2>5, SumsAgree
  <2>. QED  BY <2>6 DEF A
<1>. QED  BY <1>2, <1>3, <1>5, <1>6 DEF r

LEMMA TotalConcat ==
  ASSUME NEW s \in Seq(Nat), NEW r \in Seq(Nat) PROVE Total(s \o r) = Total(s) + Total(r)
<1>. DEFINE P == {n \in Nat : n <= Len(r) =>
                    Total(s \o SubSeq(r, 1, n)) = Total(s) + Total(SubSeq(r, 1, n))}
<1>0. Total(s) \in Nat /\ Len(r) \in Nat
  BY TotalNat
<1>1. 0 \in P
  <2>1. SubSeq(r, 1, 0) = <<>> /\ s \o <<>> = s
    OBVIOUS
  <2>2. Total(s \o SubSeq(r, 1, 0)) = Total(s) /\ Total(SubSeq(r, 1, 0)) = 0
    BY <2>1, TotalEmpty
  <2>. QED  BY <1>0, <2>2
<1>2. ASSUME NEW n \in Nat, n \in P PROVE n + 1 \in P
  <2>. SUFFICES ASSUME n + 1 <= Len(r)
                PROVE  Total(s \o SubSeq(r, 1, n + 1)) = Total(s) + Total(SubSeq(r, 1, n + 1))
    OBVIOUS
  <2>. DEFINE u == SubSeq(r, 1, n)
              t == SubSeq(r, 1, n + 1)
              c == r[n + 1]
  <2>1. u \in Seq(Nat) /\ c \in Nat /\ t = Append(u, c)
    BY <1>0
  <2>. HIDE DEF u, c, t
  <2>2. s \o Append(u, c) = Append(s \o u, c) /\ s \o u \in Seq(Nat)
    <3>1. u \in Seq(Nat) /\ c \in Nat
      BY <2>1
    <3>. QED  BY <3>1
  <2>3. Total(s \o u) = Total(s) + Total(u)
    BY <1>0, <1>2 DEF u
  <2>4. /\ Total(Append(u, c)) = Total(u) + c
        /\ Total(Append(s \o u, c)) = Total(s \o u) + c
    BY <2>1, <2>2, TotalAppend
  <2>5. Total(u) \in Nat
    BY <2>1, TotalNat
  <2>6. Total(s \o t) = Total(s) + Total(t)
    BY <1>0, <2>1, <2>2, <2>3, <2>4, <2>5
  <2>. QED  BY <2>6 DEF t
<1>. HIDE DEF P
<1>3. Len(r) \in P
  BY <1>0, <1>1, <1>2, Induction
<1>4. SubSeq(r, 1, Len(r)) = r
  OBVIOUS
<1>5. Total(s \o SubSeq(r, 1, Len(r))) = Total(s) + Total(SubSeq(r, 1, Len(r)))
  BY <1>0, <1>3 DEF P
<1>. QED  BY <1>4, <1>5

LEMMA Greatest ==
  ASSUME NEW n \in Nat, NEW T \in SUBSET (1..n), T # {}
  PROVE  Max(T) \in T /\ \A m \in T : m <= Max(T)
<1>. DEFINE D == {n - m : m \in T}
<1>1. D \in SUBSET Nat /\ D # {}
  <2>1. \A m \in T : m \in 1..n /\ n - m \in Nat
    OBVIOUS
  <2>. QED  BY <2>1
<1>2. PICK d \in D : \A e \in D : d <= e
  BY <1>1, Least
<1>3. PICK m \in T : d = n - m
  BY <1>2
<1>4. \A k \in T : n - k \in D
  OBVIOUS
<1>5. \A k \in T : m >= k
  BY <1>2, <1>3, <1>4
<1>. QED  BY <1>5 DEF Max

\* A fold over a sequence takes the greatest index first.
Folded(h, f, n) == h = [T \in SUBSET (1..n) |->
                          IF T = {} THEN 0 ELSE h[T \ {Max(T)}] + f[Max(T)]]

LEMMA MaxFolds ==
  ASSUME NEW n \in Nat, NEW f, Counts(f, 1..n), NEW g, IsSum(g, f, 1..n)
  PROVE  Folded(g, f, n) /\ \A h : Folded(h, f, n) => h[1..n] = g[1..n]
<1>. DEFINE D == 1..n
            c == [T \in SUBSET D |-> Max(T)]
<1>1. IsFiniteSet(D) /\ Counts(f, D) /\ IsSum(g, f, D)
  BY FS_Interval
<1>2. \A T \in SUBSET D : T # {} => c[T] = Max(T) /\ c[T] \in T
  BY Greatest
<1>. HIDE DEF D, c
<1>3. Chooses(c, D)
  BY <1>2 DEF Chooses
<1>4. g = [T \in SUBSET D |-> IF T = {} THEN 0 ELSE g[T \ {Max(T)}] + f[Max(T)]]
  <2>1. \A T \in SUBSET D : T # {} => g[T] = g[T \ {c[T]}] + f[c[T]]
    BY <1>1, <1>3, SumIsFold
  <2>2. g \in [SUBSET D -> Nat] /\ g[{}] = 0
    BY <1>1 DEF IsSum
  <2>. QED  BY <1>2, <2>1, <2>2
<1>5. ASSUME NEW h, h = [T \in SUBSET D |-> IF T = {} THEN 0 ELSE h[T \ {Max(T)}] + f[Max(T)]]
      PROVE  h[D] = g[D]
  <2>1. h[{}] = 0 /\ \A T \in SUBSET D : T # {} => h[T] = h[T \ {c[T]}] + f[c[T]]
    BY <1>2, <1>5
  <2>2. Folds(h, f, c, D)
    BY <2>1 DEF Folds
  <2>. QED  BY <1>1, <1>3, <2>2, FoldIsSum
<1>. QED  BY <1>4, <1>5 DEF D, Folded

LEMMA FoldedIs ==
  ASSUME NEW s \in Seq(Nat)
  PROVE  /\ \E h : Folded(h, s, Len(s))
         /\ \A h : Folded(h, s, Len(s)) => h[1..Len(s)] = Total(s)
<1>1. PICK g : IsSum(g, s, 1..Len(s)) /\ Total(s) = g[1..Len(s)]
  BY TotalIs
<1>2. Len(s) \in Nat /\ Counts(s, 1..Len(s))
  BY DEF Counts
<1>3. Folded(g, s, Len(s))
  BY <1>1, <1>2, MaxFolds
<1>4. ASSUME NEW h, Folded(h, s, Len(s)) PROVE h[1..Len(s)] = Total(s)
  BY <1>1, <1>2, <1>4, MaxFolds
<1>. QED  BY <1>3, <1>4

-----------------------------------------------------------------------------
(* The bytes of a sequence of buffers                                       *)

Buffer  == {c \in Chunks : c.from < c.to}
Buffers == Seq(Buffer)
Sizes(q) == [i \in 1..Len(q) |-> Size(q[i])]

LEMMA BufferIs ==
  ASSUME NEW c \in Buffer
  PROVE  /\ c.e \in 1..MaxEpoch /\ c.from \in 0..MaxNext /\ c.to \in 0..MaxNext
         /\ c.from \in Nat /\ c.to \in Nat /\ c.from < c.to
         /\ Size(c) \in Nat \ {0} /\ c.from + Size(c) = c.to
<1>1. MaxNext \in Nat
  BY SendAssumption
<1>. QED  BY <1>1 DEF Buffer, Chunks, Size

LEMMA BuffersAre ==
  ASSUME NEW q \in Buffers
  PROVE  /\ Len(q) \in Nat /\ DOMAIN q = 1..Len(q)
         /\ Sizes(q) \in Seq(Nat) /\ Len(Sizes(q)) = Len(q)
         /\ \A i \in 1..Len(q) : /\ q[i] \in Buffer
                                 /\ Size(q[i]) \in Nat \ {0} /\ Sizes(q)[i] = Size(q[i])
<1>1. Len(q) \in Nat /\ DOMAIN q = 1..Len(q) /\ \A i \in 1..Len(q) : q[i] \in Buffer
  BY DEF Buffers
<1>2. \A i \in 1..Len(q) : Size(q[i]) \in Nat \ {0}
  BY <1>1, BufferIs
<1>3. Sizes(q) \in Seq(Nat) /\ Len(Sizes(q)) = Len(q)
  BY <1>1, <1>2 DEF Sizes
<1>. QED  BY <1>1, <1>2, <1>3 DEF Sizes

LEMMA BytesIs == ASSUME NEW q \in Buffers PROVE Bytes(q) = Total(Sizes(q))
<1>. DEFINE D == 1..Len(q)
            s == Sizes(q)
            I(h) == h = [T \in SUBSET D |-> IF T = {} THEN 0
                                           ELSE h[T \ {Max(T)}] + Size(q[Max(T)])]
            it   == CHOOSE h : I(h)
<1>1. Len(q) \in Nat /\ DOMAIN q = D /\ s \in Seq(Nat) /\ Len(s) = Len(q)
  BY BuffersAre
<1>2. \A T \in SUBSET D : T # {} => s[Max(T)] = Size(q[Max(T)])
  BY <1>1, BuffersAre, Greatest
<1>3. \A h : I(h) <=> Folded(h, s, Len(s))
  <2>. HIDE DEF s
  <2>. QED  BY <1>1, <1>2 DEF Folded
<1>4. Bytes(q) = it[D]
  BY <1>1 DEF Bytes, FoldLeft, MapThenFoldSet
<1>. HIDE DEF I, s
<1>5. \E h : I(h)
  BY <1>1, <1>3, FoldedIs
<1>6. I(it)
  BY <1>5
<1>7. it[1..Len(s)] = Total(s)
  BY <1>1, <1>3, <1>6, FoldedIs
<1>. QED  BY <1>1, <1>4, <1>7 DEF s

LEMMA BytesNat == ASSUME NEW q \in Buffers PROVE Bytes(q) \in Nat
BY BytesIs, TotalNat, BuffersAre

LEMMA BytesEmpty == Bytes(<<>>) = 0
<1>1. <<>> \in Buffers /\ Sizes(<<>>) = <<>>
  BY DEF Buffers, Sizes
<1>. QED  BY <1>1, BytesIs, TotalEmpty

LEMMA BytesAppend ==
  ASSUME NEW q \in Buffers, NEW c \in Buffer
  PROVE  Bytes(Append(q, c)) = Bytes(q) + Size(c)
<1>1. Append(q, c) \in Buffers /\ Sizes(Append(q, c)) = Append(Sizes(q), Size(c))
  BY DEF Buffers, Sizes
<1>2. Sizes(q) \in Seq(Nat) /\ Size(c) \in Nat
  BY BuffersAre, BufferIs
<1>. QED  BY <1>1, <1>2, BytesIs, TotalAppend

LEMMA BytesConcat ==
  ASSUME NEW q \in Buffers, NEW r \in Buffers
  PROVE  q \o r \in Buffers /\ Bytes(q \o r) = Bytes(q) + Bytes(r)
<1>1. q \o r \in Buffers /\ Sizes(q \o r) = Sizes(q) \o Sizes(r)
  BY DEF Buffers, Sizes
<1>2. Sizes(q) \in Seq(Nat) /\ Sizes(r) \in Seq(Nat)
  BY BuffersAre
<1>. QED  BY <1>1, <1>2, BytesIs, TotalConcat

LEMMA BytesPositive ==
  ASSUME NEW q \in Buffers, q # <<>> PROVE Bytes(q) \in Nat \ {0}
<1>. DEFINE n == Len(q) - 1
            s == SubSeq(q, 1, n)
            c == q[n + 1]
<1>1. n \in Nat /\ s \in Buffers /\ c \in Buffer /\ q = Append(s, c)
  BY DEF Buffers
<1>. HIDE DEF n, s, c
<1>2. Bytes(q) = Bytes(s) + Size(c) /\ Bytes(s) \in Nat /\ Size(c) \in Nat \ {0}
  BY <1>1, BytesAppend, BytesNat, BufferIs
<1>. QED  BY <1>2

-----------------------------------------------------------------------------
(* The place of a buffer among the bytes                                    *)

\* The bytes in the first i buffers of q
Upto(q, i) == Bytes(SubSeq(q, 1, i))

LEMMA UptoIs ==
  ASSUME NEW q \in Buffers
  PROVE  /\ Upto(q, 0) = 0 /\ Upto(q, Len(q)) = Bytes(q)
         /\ \A i \in 0..Len(q) : Upto(q, i) \in Nat /\ Upto(q, i) <= Bytes(q)
         /\ \A i \in 1..Len(q) : Upto(q, i) = Upto(q, i - 1) + Size(q[i])
<1>1. SubSeq(q, 1, 0) = <<>> /\ SubSeq(q, 1, Len(q)) = q /\ Len(q) \in Nat
  BY DEF Buffers
<1>2. ASSUME NEW i \in 0..Len(q) PROVE Upto(q, i) \in Nat /\ Upto(q, i) <= Bytes(q)
  <2>. DEFINE s == SubSeq(q, 1, i)
              r == SubSeq(q, i + 1, Len(q))
  <2>1. s \in Buffers /\ r \in Buffers
    BY <1>1 DEF Buffers
  <2>3. SubSeq(q, 1, i) \o SubSeq(q, i + 1, Len(q)) = SubSeq(q, 1, Len(q))
    <3>1. /\ q \in Seq(Buffer) /\ 1 \in 1..Len(q) + 1 /\ i \in (1 - 1)..Len(q)
          /\ Len(q) \in i..Len(q)
      BY <1>1 DEF Buffers
    <3>. QED  BY <3>1, ConcatAdjacentSubSeq
  <2>. HIDE DEF s, r
  <2>4. q = s \o r
    BY <1>1, <2>3 DEF s, r
  <2>2. Bytes(q) = Bytes(s) + Bytes(r) /\ Bytes(s) \in Nat /\ Bytes(r) \in Nat
    BY <2>1, <2>4, BytesConcat, BytesNat
  <2>. QED  BY <2>2 DEF s, Upto
<1>3. ASSUME NEW i \in 1..Len(q) PROVE Upto(q, i) = Upto(q, i - 1) + Size(q[i])
  <2>. DEFINE s == SubSeq(q, 1, i - 1)
  <2>1. s \in Buffers /\ q[i] \in Buffer /\ SubSeq(q, 1, i) = Append(s, q[i])
    BY <1>1 DEF Buffers
  <2>. HIDE DEF s
  <2>2. Bytes(Append(s, q[i])) = Bytes(s) + Size(q[i])
    BY <2>1, BytesAppend
  <2>. QED  BY <2>1, <2>2 DEF s, Upto
<1>. QED  BY <1>1, <1>2, <1>3, BytesEmpty DEF Upto

LEMMA UptoGrows ==
  ASSUME NEW q \in Buffers, NEW i \in 0..Len(q), NEW j \in i..Len(q)
  PROVE  Upto(q, i) <= Upto(q, j)
<1>. DEFINE P == {n \in Nat : i + n <= Len(q) => Upto(q, i) <= Upto(q, i + n)}
<1>0. Len(q) \in Nat /\ \A k \in 0..Len(q) : Upto(q, k) \in Nat
  BY UptoIs, BuffersAre
<1>1. 0 \in P
  BY <1>0
<1>2. ASSUME NEW n \in Nat, n \in P PROVE n + 1 \in P
  <2>. SUFFICES ASSUME i + n + 1 <= Len(q) PROVE Upto(q, i) <= Upto(q, i + n + 1)
    OBVIOUS
  <2>1. i + n + 1 \in 1..Len(q) /\ (i + n + 1) - 1 = i + n /\ i + n \in 0..Len(q)
    BY <1>0
  <2>2. Upto(q, i + n + 1) = Upto(q, i + n) + Size(q[i + n + 1])
    BY <2>1, UptoIs
  <2>3. Size(q[i + n + 1]) \in Nat
    BY <2>1, BuffersAre
  <2>. QED  BY <1>0, <1>2, <2>1, <2>2, <2>3
<1>. HIDE DEF P
<1>3. j - i \in Nat /\ i + (j - i) = j /\ j <= Len(q)
  BY <1>0
<1>4. j - i \in P
  BY <1>1, <1>2, <1>3, Induction
<1>. QED  BY <1>3, <1>4 DEF P

LEMMA UptoConcat ==
  ASSUME NEW q \in Buffers, NEW r \in Buffers
  PROVE  /\ \A i \in 0..Len(q) : Upto(q \o r, i) = Upto(q, i)
         /\ \A i \in 0..Len(r) : Upto(q \o r, Len(q) + i) = Bytes(q) + Upto(r, i)
<1>1. Len(q) \in Nat /\ Len(r) \in Nat
  BY BuffersAre
<1>2. \A i \in 0..Len(q) : SubSeq(q \o r, 1, i) = SubSeq(q, 1, i)
  BY <1>1 DEF Buffers
<1>3. ASSUME NEW i \in 0..Len(r) PROVE Upto(q \o r, Len(q) + i) = Bytes(q) + Upto(r, i)
  <2>1. SubSeq(q \o r, 1, Len(q) + i) = q \o SubSeq(r, 1, i) /\ SubSeq(r, 1, i) \in Buffers
    BY <1>1 DEF Buffers
  <2>. QED  BY <2>1, BytesConcat DEF Upto
<1>. QED  BY <1>2, <1>3 DEF Upto

-----------------------------------------------------------------------------
(* The bytes of the pending sends                                           *)

InKernel(o) == FoldLeft(LAMBDA n, q : n + Bytes(q), 0, o)
Loads(o)    == [i \in 1..Len(o) |-> Bytes(o[i])]

LEMMA LoadsAre ==
  ASSUME NEW o \in Seq(Buffers)
  PROVE  /\ Len(o) \in Nat /\ DOMAIN o = 1..Len(o)
         /\ Loads(o) \in Seq(Nat) /\ Len(Loads(o)) = Len(o)
         /\ \A i \in 1..Len(o) : o[i] \in Buffers /\ Bytes(o[i]) \in Nat
                                 /\ Loads(o)[i] = Bytes(o[i])
<1>1. Len(o) \in Nat /\ DOMAIN o = 1..Len(o) /\ \A i \in 1..Len(o) : o[i] \in Buffers
  OBVIOUS
<1>2. \A i \in 1..Len(o) : Bytes(o[i]) \in Nat
  BY <1>1, BytesNat
<1>3. Loads(o) \in Seq(Nat) /\ Len(Loads(o)) = Len(o)
  BY <1>1, <1>2 DEF Loads
<1>. QED  BY <1>1, <1>2, <1>3 DEF Loads

LEMMA LoadsAppend ==
  ASSUME NEW o \in Seq(Buffers), NEW q \in Buffers
  PROVE  Append(o, q) \in Seq(Buffers) /\ Loads(Append(o, q)) = Append(Loads(o), Bytes(q))
BY DEF Loads

LEMMA ConcatOnRange ==
  ASSUME NEW s \in Seq(Nat), NEW r \in Seq(Nat)
  PROVE  s \o r = [i \in 1..Len(s) + Len(r) |-> (s \o r)[i]]
<1>1. s \o r \in Seq(Nat) /\ Len(s \o r) = Len(s) + Len(r)
  OBVIOUS
<1>2. ASSUME NEW c \in Seq(Nat) PROVE c = [i \in 1..Len(c) |-> c[i]]
  OBVIOUS
<1>. QED  BY <1>1, <1>2

LEMMA LoadsConcat ==
  ASSUME NEW o \in Seq(Buffers), NEW u \in Seq(Buffers)
  PROVE  Loads(o \o u) = Loads(o) \o Loads(u)
<1>1. /\ Len(o) \in Nat /\ Len(u) \in Nat /\ Len(o \o u) = Len(o) + Len(u)
      /\ Len(Loads(o)) = Len(o) /\ Len(Loads(u)) = Len(u)
  BY DEF Loads
<1>2. ASSUME NEW i \in 1..Len(o) + Len(u)
      PROVE  Bytes((o \o u)[i]) = (Loads(o) \o Loads(u))[i]
  <2>1. CASE i <= Len(o)
    <3>1. (o \o u)[i] = o[i] /\ i \in 1..Len(o)
      BY <1>1, <2>1
    <3>2. (Loads(o) \o Loads(u))[i] = Loads(o)[i]
      BY <1>1, <2>1, LoadsAre
    <3>. QED  BY <3>1, <3>2 DEF Loads
  <2>2. CASE ~(i <= Len(o))
    <3>1. (o \o u)[i] = u[i - Len(o)] /\ i - Len(o) \in 1..Len(u)
      BY <1>1, <2>2
    <3>2. (Loads(o) \o Loads(u))[i] = Loads(u)[i - Len(o)]
      BY <1>1, <2>2, LoadsAre
    <3>. QED  BY <3>1, <3>2 DEF Loads
  <2>. QED  BY <2>1, <2>2
<1>3. Loads(o \o u) = [i \in 1..Len(o) + Len(u) |-> Bytes((o \o u)[i])]
  BY <1>1 DEF Loads
<1>4. Loads(o) \o Loads(u) = [i \in 1..Len(o) + Len(u) |-> (Loads(o) \o Loads(u))[i]]
  <2>1. Loads(o) \in Seq(Nat) /\ Loads(u) \in Seq(Nat)
    BY LoadsAre
  <2>. QED  BY <1>1, <2>1, ConcatOnRange
<1>. QED  BY <1>2, <1>3, <1>4

LEMMA InKernelIs == ASSUME NEW o \in Seq(Buffers) PROVE InKernel(o) = Total(Loads(o))
<1>. DEFINE D == 1..Len(o)
            s == Loads(o)
            I(h) == h = [T \in SUBSET D |-> IF T = {} THEN 0
                                           ELSE h[T \ {Max(T)}] + Bytes(o[Max(T)])]
            it   == CHOOSE h : I(h)
<1>1. Len(o) \in Nat /\ DOMAIN o = D /\ s \in Seq(Nat) /\ Len(s) = Len(o)
  BY LoadsAre
<1>2. \A T \in SUBSET D : T # {} => s[Max(T)] = Bytes(o[Max(T)])
  BY <1>1, LoadsAre, Greatest
<1>3. \A h : I(h) <=> Folded(h, s, Len(s))
  <2>. HIDE DEF s
  <2>. QED  BY <1>1, <1>2 DEF Folded
<1>4. InKernel(o) = it[D]
  BY <1>1 DEF InKernel, FoldLeft, MapThenFoldSet
<1>. HIDE DEF I, s
<1>5. \E h : I(h)
  BY <1>1, <1>3, FoldedIs
<1>6. I(it)
  BY <1>5
<1>7. it[1..Len(s)] = Total(s)
  BY <1>1, <1>3, <1>6, FoldedIs
<1>. QED  BY <1>1, <1>4, <1>7 DEF s

LEMMA InKernelNone == InKernel(<<>>) = 0
<1>1. <<>> \in Seq(Buffers) /\ Loads(<<>>) = <<>>
  BY DEF Loads
<1>. QED  BY <1>1, InKernelIs, TotalEmpty

LEMMA InKernelAppend ==
  ASSUME NEW o \in Seq(Buffers), NEW q \in Buffers
  PROVE  /\ InKernel(o) \in Nat
         /\ InKernel(Append(o, q)) = InKernel(o) + Bytes(q)
<1>1. Append(o, q) \in Seq(Buffers) /\ Loads(Append(o, q)) = Append(Loads(o), Bytes(q))
  BY DEF Loads
<1>2. Loads(o) \in Seq(Nat) /\ Bytes(q) \in Nat
  BY LoadsAre, BytesNat
<1>. QED  BY <1>1, <1>2, InKernelIs, TotalAppend, TotalNat

LEMMA InKernelRemove ==
  ASSUME NEW o \in Seq(Buffers), NEW i \in 1..Len(o)
  PROVE  LET r == SubSeq(o, 1, i - 1) \o SubSeq(o, i + 1, Len(o))
         IN  r \in Seq(Buffers) /\ InKernel(r) \in Nat /\ InKernel(o) = InKernel(r) + Bytes(o[i])
<1>. DEFINE s == SubSeq(o, 1, i - 1)
            u == SubSeq(o, i + 1, Len(o))
<1>0. Len(o) \in Nat /\ i \in 1..Len(o) /\ o[i] \in Buffers
  BY LoadsAre
<1>1. s \in Seq(Buffers) /\ u \in Seq(Buffers) /\ s \o u \in Seq(Buffers)
  BY <1>0
<1>2. Append(s, o[i]) \o u = o
  <2>1. Append(s, o[i]) = SubSeq(o, 1, i)
    BY <1>0
  <2>2. /\ o \in Seq(Buffers) /\ 1 \in 1..Len(o) + 1 /\ i \in (1 - 1)..Len(o)
        /\ Len(o) \in i..Len(o)
    BY <1>0
  <2>3. SubSeq(o, 1, i) \o SubSeq(o, i + 1, Len(o)) = SubSeq(o, 1, Len(o))
    BY <2>2, ConcatAdjacentSubSeq
  <2>4. SubSeq(o, 1, Len(o)) = o
    OBVIOUS
  <2>. QED  BY <2>1, <2>3, <2>4
<1>. HIDE DEF s, u
<1>3. /\ Loads(s \o u) = Loads(s) \o Loads(u)
      /\ Loads(Append(s, o[i]) \o u) = Append(Loads(s), Bytes(o[i])) \o Loads(u)
  <2>1. Append(s, o[i]) \in Seq(Buffers) /\ Loads(Append(s, o[i])) = Append(Loads(s), Bytes(o[i]))
    BY <1>0, <1>1, LoadsAppend
  <2>. QED  BY <1>1, <2>1, LoadsConcat
<1>4. Loads(s) \in Seq(Nat) /\ Loads(u) \in Seq(Nat) /\ Bytes(o[i]) \in Nat
  BY <1>0, <1>1, LoadsAre
<1>5. /\ Total(Loads(s) \o Loads(u)) = Total(Loads(s)) + Total(Loads(u))
      /\ Append(Loads(s), Bytes(o[i])) \in Seq(Nat)
      /\ Total(Append(Loads(s), Bytes(o[i])) \o Loads(u))
           = Total(Append(Loads(s), Bytes(o[i]))) + Total(Loads(u))
      /\ Total(Append(Loads(s), Bytes(o[i]))) = Total(Loads(s)) + Bytes(o[i])
      /\ Total(Loads(s)) \in Nat /\ Total(Loads(u)) \in Nat
  <2>1. Append(Loads(s), Bytes(o[i])) \in Seq(Nat)
    BY <1>4
  <2>. QED  BY <1>4, <2>1, TotalConcat, TotalAppend, TotalNat
<1>6. InKernel(s \o u) = Total(Loads(s)) + Total(Loads(u))
  BY <1>1, <1>3, <1>5, InKernelIs
<1>7. InKernel(o) = Total(Loads(s)) + Bytes(o[i]) + Total(Loads(u))
  BY <1>2, <1>3, <1>5, InKernelIs
<1>. QED  BY <1>1, <1>4, <1>5, <1>6, <1>7 DEF s, u

-----------------------------------------------------------------------------
(* The bytes in the hands of the threads                                    *)

InHands(f) == (CHOOSE g : IsSum(g, f, Threads))[Threads]

LEMMA InHandsIs ==
  ASSUME NEW f, Counts(f, Threads)
  PROVE  /\ \E g : IsSum(g, f, Threads) /\ InHands(f) = g[Threads]
         /\ InHands(f) \in Nat
<1>1. \E g : IsSum(g, f, Threads)
  BY SumExists, SendAssumption DEF Counts
<1>2. PICK g : IsSum(g, f, Threads) /\ InHands(f) = g[Threads]
  BY <1>1 DEF InHands
<1>. QED  BY <1>2 DEF IsSum

\* One thread's share changes.
LEMMA InHandsMoves ==
  ASSUME NEW f, Counts(f, Threads), NEW e, Counts(e, Threads),
         NEW t \in Threads, \A u \in Threads : u # t => e[u] = f[u]
  PROVE  InHands(e) + f[t] = InHands(f) + e[t]
<1>. DEFINE S == Threads \ {t}
<1>1. PICK g : IsSum(g, f, Threads) /\ InHands(f) = g[Threads]
  BY InHandsIs
<1>2. PICK h : IsSum(h, e, Threads) /\ InHands(e) = h[Threads]
  BY InHandsIs
<1>3. S \in SUBSET Threads /\ t \in Threads \ S /\ Threads = S \cup {t}
  OBVIOUS
<1>4. IsFiniteSet(S) /\ \A x \in S : f[x] = e[x] /\ f[x] \in Nat
  BY FS_Subset, SendAssumption DEF Counts
<1>. HIDE DEF S
<1>5. g[S] = h[S]
  BY <1>1, <1>2, <1>3, <1>4, SumsAgree
<1>6. g[Threads] = g[S] + f[t] /\ h[Threads] = h[S] + e[t] /\ g[S] \in Nat
  BY <1>1, <1>2, <1>3 DEF IsSum
<1>7. f[t] \in Nat /\ e[t] \in Nat
  BY DEF Counts
<1>. QED  BY <1>1, <1>2, <1>5, <1>6, <1>7

LEMMA InHandsNone ==
  ASSUME NEW f, \A t \in Threads : f[t] = 0
  PROVE  InHands(f) = 0
<1>. DEFINE z == [T \in SUBSET Threads |-> 0]
<1>1. Counts(f, Threads) /\ IsSum(z, f, Threads)
  BY DEF IsSum, Counts
<1>. HIDE DEF z
<1>2. PICK g : IsSum(g, f, Threads) /\ InHands(f) = g[Threads]
  BY <1>1, InHandsIs
<1>3. Threads \in SUBSET Threads /\ \A x \in Threads : f[x] = f[x] /\ f[x] \in Nat
  OBVIOUS
<1>4. g[Threads] = z[Threads]
  BY <1>1, <1>2, <1>3, SumsAgree, SendAssumption
<1>5. z[Threads] = 0
  BY DEF z
<1>. QED  BY <1>2, <1>4, <1>5

LEMMA InHandsOne ==
  ASSUME NEW f, Counts(f, Threads), NEW t \in Threads,
         \A u \in Threads : u # t => f[u] = 0
  PROVE  InHands(f) = f[t]
<1>. DEFINE z == [u \in Threads |-> 0]
<1>1. Counts(z, Threads) /\ \A u \in Threads : z[u] = 0
  BY DEF Counts
<1>. HIDE DEF z
<1>2. InHands(f) + z[t] = InHands(z) + f[t]
  BY <1>1, InHandsMoves
<1>3. InHands(z) = 0 /\ z[t] = 0
  BY <1>1, InHandsNone
<1>4. InHands(f) \in Nat /\ f[t] \in Nat
  BY InHandsIs DEF Counts
<1>. QED  BY <1>2, <1>3, <1>4

\* Unsent comes to the three sums.
Shares == [t \in Threads |-> Held(t)]

LEMMA UnsentIs ==
  ASSUME Counts(Shares, Threads)
  PROVE  Unsent = Bytes(kSendList) + InKernel(ops) + InHands(Shares)
<1>. DEFINE I(h) == h = [T \in SUBSET Threads |->
                           IF T = {} THEN 0
                           ELSE Held(CHOOSE x \in T : TRUE) + h[T \ {CHOOSE x \in T : TRUE}]]
            it == CHOOSE h : I(h)
            c  == [T \in SUBSET Threads |-> CHOOSE x \in T : TRUE]
            f  == Shares
<1>1. MapThenSumSet(Held, Threads) = it[Threads]
  BY DEF MapThenSumSet, MapThenFoldSet
<1>2. \A T \in SUBSET Threads : T # {} => /\ c[T] \in T /\ c[T] = CHOOSE x \in T : TRUE
                                          /\ f[c[T]] = Held(CHOOSE x \in T : TRUE)
  BY DEF Shares
<1>3. PICK g : IsSum(g, f, Threads) /\ InHands(f) = g[Threads]
  BY InHandsIs
<1>. HIDE DEF c, f
<1>4. Chooses(c, Threads)
  BY <1>2 DEF Chooses
<1>5. \A T \in SUBSET Threads : T # {} => g[T] = f[c[T]] + g[T \ {c[T]}]
  BY <1>3, <1>4, SumIsFold DEF f
<1>6. I(g)
  BY <1>2, <1>3, <1>5 DEF IsSum
<1>7. I(it)
  BY <1>6
<1>. HIDE DEF it
<1>8. it[{}] = 0 /\ \A T \in SUBSET Threads : T # {} => it[T] = f[c[T]] + it[T \ {c[T]}]
  BY <1>2, <1>7
<1>. HIDE DEF I
<1>9. Folds(it, f, c, Threads)
  BY <1>8 DEF Folds
<1>10. it[Threads] = g[Threads]
  BY <1>3, <1>4, <1>9, FoldIsSum, SendAssumption DEF f
<1>. QED  BY <1>1, <1>3, <1>10 DEF f, Unsent, InKernel

-----------------------------------------------------------------------------
(* hasRead: what is left of the buffers                                     *)

LEMMA MinMaxIs ==
  ASSUME NEW a \in Int, NEW b \in Int
  PROVE  /\ Min({a, b}) = IF a <= b THEN a ELSE b
         /\ Max({a, b}) = IF a <= b THEN b ELSE a
<1>1. ASSUME NEW x \in {a, b}, \A y \in {a, b} : x <= y
      PROVE  x = IF a <= b THEN a ELSE b
  BY <1>1
<1>2. ASSUME NEW x \in {a, b}, \A y \in {a, b} : x >= y
      PROVE  x = IF a <= b THEN b ELSE a
  BY <1>2
<1>3. (IF a <= b THEN a ELSE b) \in {x \in {a, b} : \A y \in {a, b} : x <= y}
  OBVIOUS
<1>4. (IF a <= b THEN b ELSE a) \in {x \in {a, b} : \A y \in {a, b} : x >= y}
  OBVIOUS
<1>5. Min({a, b}) = IF a <= b THEN a ELSE b
  BY <1>1, <1>3 DEF Min
<1>6. Max({a, b}) = IF a <= b THEN b ELSE a
  BY <1>2, <1>4 DEF Max
<1>. QED  BY <1>5, <1>6

\* How much of buffer i the first k bytes take
Taken(q, k, i) == Min({Size(q[i]), Max({0, k - Upto(q, i - 1)})})

LEMMA TakenIs ==
  ASSUME NEW q \in Buffers, NEW k \in Nat, NEW i \in 1..Len(q)
  PROVE  /\ Taken(q, k, i) \in 0..Size(q[i])
         /\ k <= Upto(q, i - 1) => Taken(q, k, i) = 0
         /\ Upto(q, i - 1) <= k /\ k < Upto(q, i) => Taken(q, k, i) = k - Upto(q, i - 1)
         /\ Taken(q, k, i) = Size(q[i]) <=> Upto(q, i) <= k
<1>1. /\ Upto(q, i - 1) \in Nat /\ Upto(q, i) \in Nat /\ Size(q[i]) \in Nat \ {0}
      /\ Upto(q, i) = Upto(q, i - 1) + Size(q[i])
  <2>1. i - 1 \in 0..Len(q) /\ i \in 0..Len(q) /\ i \in 1..Len(q)
    BY BuffersAre
  <2>. QED  BY <2>1, UptoIs, BuffersAre
<1>2. Max({0, k - Upto(q, i - 1)}) = IF 0 <= k - Upto(q, i - 1) THEN k - Upto(q, i - 1) ELSE 0
  <2>1. 0 \in Int /\ k - Upto(q, i - 1) \in Int
    BY <1>1
  <2>. QED  BY <2>1, MinMaxIs
<1>. DEFINE m == Max({0, k - Upto(q, i - 1)})
<1>3. m \in Nat
  BY <1>1, <1>2
<1>4. Taken(q, k, i) = IF Size(q[i]) <= m THEN Size(q[i]) ELSE m
  <2>. HIDE DEF m
  <2>1. Min({Size(q[i]), m}) = IF Size(q[i]) <= m THEN Size(q[i]) ELSE m
    BY <1>1, <1>3, MinMaxIs
  <2>. QED  BY <2>1 DEF Taken, m
<1>. HIDE DEF m
<1>5. m = IF 0 <= k - Upto(q, i - 1) THEN k - Upto(q, i - 1) ELSE 0
  BY <1>2 DEF m
<1>. QED  BY <1>1, <1>3, <1>4, <1>5

Left(q, k)    == [i \in 1..Len(q) |-> [q[i] EXCEPT !.from = @ + Taken(q, k, i)]]
Emptied(q, k) == Max({0} \cup {i \in 1..Len(q) : Size(Left(q, k)[i]) = 0})

LEMMA RestDef == \A q, k : Rest(q, k) = SubSeq(Left(q, k), Emptied(q, k) + 1, Len(q))
BY DEF Rest, Left, Emptied, Taken, Upto

LEMMA LeftIs ==
  ASSUME NEW q \in Buffers, NEW k \in Nat, NEW i \in 1..Len(q)
  PROVE  /\ Left(q, k)[i] = [q[i] EXCEPT !.from = @ + Taken(q, k, i)]
         /\ Left(q, k)[i].from = q[i].from + Taken(q, k, i)
         /\ Left(q, k)[i].to = q[i].to /\ Left(q, k)[i].e = q[i].e
         /\ Size(Left(q, k)[i]) = Size(q[i]) - Taken(q, k, i)
         /\ Upto(q, i) <= k <=> Size(Left(q, k)[i]) = 0
         /\ k < Upto(q, i) => Left(q, k)[i] \in Buffer
         /\ k <= Upto(q, i - 1) => Left(q, k)[i] = q[i]
<1>. DEFINE c == q[i]
            d == [c EXCEPT !.from = @ + Taken(q, k, i)]
<1>1. c \in Buffer /\ c \in [e : 1..MaxEpoch, from : 0..MaxNext, to : 0..MaxNext]
  BY BuffersAre DEF Buffer, Chunks
<1>2. Left(q, k)[i] = d
  BY DEF Left
<1>3. /\ Taken(q, k, i) \in 0..Size(c) /\ Size(c) = c.to - c.from
      /\ Taken(q, k, i) = Size(c) <=> Upto(q, i) <= k
      /\ k <= Upto(q, i - 1) => Taken(q, k, i) = 0
  BY TakenIs DEF Size
<1>4. Upto(q, i) \in Nat
  BY UptoIs, BuffersAre
<1>. HIDE DEF c
<1>5. /\ c.from \in 0..MaxNext /\ c.to \in 0..MaxNext /\ c.e \in 1..MaxEpoch /\ c.from < c.to
      /\ c.from \in Nat /\ c.to \in Nat /\ MaxNext \in Nat
  BY <1>1, BufferIs, SendAssumption
<1>6. d.from = c.from + Taken(q, k, i) /\ d.to = c.to /\ d.e = c.e
  BY <1>1
<1>7. Size(d) = Size(c) - Taken(q, k, i)
  BY <1>3, <1>5, <1>6 DEF Size
<1>8. Upto(q, i) <= k <=> Size(d) = 0
  BY <1>3, <1>5, <1>7
<1>9. k < Upto(q, i) => d \in Buffer
  <2>1. SUFFICES ASSUME k < Upto(q, i) PROVE d \in Buffer
    OBVIOUS
  <2>2. Taken(q, k, i) < Size(c) /\ Taken(q, k, i) \in Nat
    BY <1>3, <1>4, <1>5, <2>1
  <2>3. d.from < d.to /\ d.from \in 0..MaxNext
    BY <1>3, <1>5, <1>6, <2>2
  <2>4. d \in Chunks
    BY <1>1, <1>6, <2>3 DEF Chunks
  <2>. QED  BY <2>3, <2>4 DEF Buffer
<1>10. k <= Upto(q, i - 1) => d = c
  <2>1. SUFFICES ASSUME k <= Upto(q, i - 1) PROVE d = c
    OBVIOUS
  <2>2. c.from + Taken(q, k, i) = c.from
    BY <1>3, <1>5, <2>1
  <2>. QED  BY <1>1, <2>2
<1>. QED  BY <1>2, <1>6, <1>7, <1>8, <1>9, <1>10 DEF c

LEMMA LeftFields ==
  ASSUME NEW q \in Buffers, NEW k \in Nat, NEW i \in 1..Len(q)
  PROVE  /\ Left(q, k)[i].from = q[i].from + Taken(q, k, i)
         /\ Left(q, k)[i].to = q[i].to
         /\ Left(q, k)[i].e = q[i].e
BY LeftIs

\* The number of buffers read to their end
LEMMA EmptiedIs ==
  ASSUME NEW q \in Buffers, NEW k \in 0..Bytes(q)
  PROVE  /\ Emptied(q, k) \in 0..Len(q) /\ Upto(q, Emptied(q, k)) <= k
         /\ \A i \in Emptied(q, k) + 1..Len(q) : k < Upto(q, i)
         /\ Emptied(q, k) = Len(q) => k = Bytes(q)
<1>. DEFINE E == {i \in 1..Len(q) : Size(Left(q, k)[i]) = 0}
            d == Emptied(q, k)
<1>0. Len(q) \in Nat /\ k \in Nat /\ k <= Bytes(q) /\ Bytes(q) \in Nat
  BY BuffersAre, BytesNat
<1>1. d = Max({0} \cup E)
  BY DEF Emptied
<1>2. \A i \in 1..Len(q) : i \in E <=> Upto(q, i) <= k
  BY <1>0, LeftIs
<1>3. d \in {0} \cup E /\ \A i \in {0} \cup E : i <= d
  <2>1. CASE E = {}
    <3>1. d = Max({0, 0}) /\ {0, 0} = {0} \cup E
      BY <1>1, <2>1
    <3>2. Max({0, 0}) = 0
      BY MinMaxIs
    <3>. QED  BY <2>1, <3>1, <3>2
  <2>2. CASE E # {}
    <3>. DEFINE g == Max(E)
    <3>1. g \in E /\ \A i \in E : i <= g
      BY <1>0, <2>2, Greatest
    <3>2. g \in Nat
      BY <3>1
    <3>. HIDE DEF g, E
    <3>3. \A x \in {0} \cup E : (\A y \in {0} \cup E : x >= y) <=> x = g
      <4>1. E \subseteq Nat \ {0}
        BY DEF E
      <4>. QED  BY <3>1, <3>2, <4>1
    <3>4. Max({0} \cup E) = g
      BY <3>1, <3>3 DEF Max
    <3>. QED  BY <1>1, <3>1, <3>2, <3>4
  <2>. QED  BY <2>1, <2>2
<1>. HIDE DEF E, d
<1>4. d \in 0..Len(q)
  BY <1>0, <1>3 DEF E
<1>5. Upto(q, d) <= k
  <2>1. CASE d = 0
    BY <1>0, <2>1, UptoIs
  <2>2. CASE d # 0
    BY <1>0, <1>2, <1>3, <1>4, <2>2
  <2>. QED  BY <2>1, <2>2
<1>6. ASSUME NEW i \in d + 1..Len(q) PROVE k < Upto(q, i)
  <2>1. i \in 1..Len(q) /\ ~ (i <= d) /\ Upto(q, i) \in Nat
    BY <1>0, <1>4, UptoIs
  <2>2. i \notin E
    BY <1>3, <2>1
  <2>. QED  BY <1>0, <1>2, <2>1, <2>2
<1>7. d = Len(q) => k = Bytes(q)
  BY <1>0, <1>5, UptoIs
<1>. QED  BY <1>4, <1>5, <1>6, <1>7 DEF d

LEMMA RestIs ==
  ASSUME NEW q \in Buffers, NEW k \in 0..Bytes(q)
  PROVE  /\ Rest(q, k) \in Buffers /\ Len(Rest(q, k)) = Len(q) - Emptied(q, k)
         /\ \A i \in 1..Len(Rest(q, k)) : Rest(q, k)[i] = Left(q, k)[Emptied(q, k) + i]
         /\ Bytes(Rest(q, k)) = Bytes(q) - k
         /\ \A i \in 1..Len(Rest(q, k)) : Upto(Rest(q, k), i) = Upto(q, Emptied(q, k) + i) - k
<1>. DEFINE d == Emptied(q, k)
            r == Rest(q, k)
<1>0. /\ Len(q) \in Nat /\ k \in Nat /\ k <= Bytes(q) /\ Bytes(q) \in Nat
      /\ d \in 0..Len(q) /\ Upto(q, d) <= k /\ Upto(q, d) \in Nat
      /\ d = Len(q) => k = Bytes(q)
  BY BuffersAre, BytesNat, EmptiedIs, UptoIs
<1>1. ASSUME NEW i \in d + 1..Len(q)
      PROVE  i \in 1..Len(q) /\ k < Upto(q, i) /\ Left(q, k)[i] \in Buffer
  <2>1. i \in 1..Len(q) /\ k < Upto(q, i)
    BY <1>0, EmptiedIs
  <2>. QED  BY <1>0, <2>1, LeftIs
<1>2. r = SubSeq(Left(q, k), d + 1, Len(q))
  BY RestDef
<1>. HIDE DEF d, r
<1>3. /\ r \in Buffers /\ Len(r) = Len(q) - d
      /\ \A i \in 1..Len(r) : r[i] = Left(q, k)[d + i]
  <2>1. d + 1 \in Int /\ Len(q) \in Int
    BY <1>0
  <2>2. /\ r \in Seq(Buffer)
        /\ Len(r) = IF d + 1 <= Len(q) THEN Len(q) - (d + 1) + 1 ELSE 0
        /\ \A i \in 1..Len(q) - (d + 1) + 1 : r[i] = Left(q, k)[(d + 1) + i - 1]
    BY <1>1, <1>2, <2>1, SubSeqProperties
  <2>3. Len(r) = Len(q) - d
    BY <1>0, <2>2
  <2>4. ASSUME NEW i \in 1..Len(r) PROVE r[i] = Left(q, k)[d + i]
    <3>1. i \in 1..Len(q) - (d + 1) + 1 /\ (d + 1) + i - 1 = d + i
      BY <1>0, <2>3
    <3>. QED  BY <2>2, <3>1
  <2>. QED  BY <2>2, <2>3, <2>4 DEF Buffers
<1>. DEFINE P == {n \in Nat : n + 1 <= Len(r) => Upto(r, n + 1) = Upto(q, d + (n + 1)) - k}
<1>4. 0 \in P
  <2>1. SUFFICES ASSUME 1 <= Len(r) PROVE Upto(r, 1) = Upto(q, d + 1) - k
    OBVIOUS
  <2>2. /\ 1 \in 1..Len(r) /\ d + 1 \in 1..Len(q) /\ r[1] = Left(q, k)[d + 1] /\ (d + 1) - 1 = d
        /\ k < Upto(q, d + 1)
    BY <1>0, <1>1, <1>3, <2>1
  <2>3. Upto(r, 1) = Upto(r, 0) + Size(r[1]) /\ Upto(r, 0) = 0
    <3>1. 1 - 1 = 0
      OBVIOUS
    <3>. QED  BY <1>3, <2>2, <3>1, UptoIs
  <2>4. Upto(q, d + 1) = Upto(q, d) + Size(q[d + 1])
    BY <2>2, UptoIs
  <2>5. Size(Left(q, k)[d + 1]) = Size(q[d + 1]) - Taken(q, k, d + 1)
    BY <1>0, <2>2, LeftIs
  <2>6. Taken(q, k, d + 1) = k - Upto(q, d)
    BY <1>0, <2>2, TakenIs
  <2>7. Size(q[d + 1]) \in Nat
    BY <2>2, BuffersAre
  <2>. QED  BY <1>0, <2>2, <2>3, <2>4, <2>5, <2>6, <2>7
<1>5. ASSUME NEW n \in Nat, n \in P PROVE n + 1 \in P
  <2>1. SUFFICES ASSUME n + 2 <= Len(r) PROVE Upto(r, n + 2) = Upto(q, d + (n + 2)) - k
    <3>1. (n + 1) + 1 = n + 2
      OBVIOUS
    <3>. QED  BY <3>1
  <2>. DEFINE i == n + 2
  <2>2. /\ i \in 1..Len(r) /\ d + i \in 1..Len(q) /\ r[i] = Left(q, k)[d + i] /\ i - 1 = n + 1
        /\ (d + i) - 1 = d + (n + 1) /\ d + (n + 1) \in d + 1..Len(q)
    BY <1>0, <1>3, <2>1
  <2>3. Upto(r, n + 1) = Upto(q, d + (n + 1)) - k
    BY <1>0, <1>3, <1>5, <2>1
  <2>. HIDE DEF i
  <2>4. Upto(r, i) = Upto(r, n + 1) + Size(r[i])
    BY <1>3, <2>2, UptoIs
  <2>5. Upto(q, d + i) = Upto(q, d + (n + 1)) + Size(q[d + i])
    BY <2>2, UptoIs
  <2>6. k < Upto(q, d + (n + 1)) /\ Upto(q, d + (n + 1)) \in Nat
    BY <1>0, <1>1, <2>2, UptoIs
  <2>7. Left(q, k)[d + i] = q[d + i]
    <3>1. k <= Upto(q, (d + i) - 1)
      BY <1>0, <2>2, <2>6
    <3>. QED  BY <1>0, <2>2, <3>1, LeftIs
  <2>8. Size(q[d + i]) \in Nat
    BY <2>2, BuffersAre
  <2>9. Upto(r, i) = Upto(q, d + i) - k
    BY <1>0, <2>2, <2>3, <2>4, <2>5, <2>6, <2>7, <2>8
  <2>. QED  BY <2>9 DEF i
<1>. HIDE DEF P
<1>6. \A n \in Nat : n \in P
  BY <1>4, <1>5, Induction
<1>7. ASSUME NEW i \in 1..Len(r) PROVE Upto(r, i) = Upto(q, d + i) - k
  <2>1. i - 1 \in Nat /\ (i - 1) + 1 = i /\ i <= Len(r)
    BY <1>0, <1>3
  <2>2. i - 1 \in P
    BY <1>6, <2>1
  <2>. QED  BY <2>1, <2>2 DEF P
<1>8. Bytes(r) = Bytes(q) - k
  <2>1. CASE d = Len(q)
    <3>1. r = <<>>
      BY <1>0, <1>3, <2>1 DEF Buffers
    <3>. QED  BY <1>0, <2>1, <3>1, BytesEmpty
  <2>2. CASE d # Len(q)
    <3>1. Len(r) \in 1..Len(r) /\ d + Len(r) = Len(q)
      BY <1>0, <1>3, <2>2
    <3>2. Upto(r, Len(r)) = Upto(q, Len(q)) - k
      BY <1>7, <3>1
    <3>. QED  BY <1>3, <3>2, UptoIs
  <2>. QED  BY <2>1, <2>2
<1>. QED  BY <1>3, <1>7, <1>8 DEF d, r

-----------------------------------------------------------------------------
(* The bytes that were sent                                                 *)

\* What FlattenSeq is defined by
Flattens(f, s, n) == f = [i \in 1..n |-> IF i = 1 THEN s[i] ELSE f[i - 1] \o s[i]]

LEMMA FlattenExists == ASSUME NEW s, NEW n \in Nat PROVE \E f : Flattens(f, s, n)
<1>. DEFINE P == {m \in Nat : \E f : Flattens(f, s, m)}
<1>1. 0 \in P
  <2>1. Flattens([i \in 1..0 |-> 0], s, 0)
    BY DEF Flattens
  <2>. QED  BY <2>1
<1>2. ASSUME NEW m \in Nat, m \in P PROVE m + 1 \in P
  <2>1. PICK f : Flattens(f, s, m)
    BY <1>2
  <2>. DEFINE last == IF m + 1 = 1 THEN s[m + 1] ELSE f[m] \o s[m + 1]
              g == [i \in 1..m + 1 |-> IF i = m + 1 THEN last ELSE f[i]]
  <2>2. \A i \in 1..m : g[i] = f[i]
    OBVIOUS
  <2>3. g[m + 1] = last
    OBVIOUS
  <2>4. ASSUME NEW i \in 1..m + 1 PROVE g[i] = IF i = 1 THEN s[i] ELSE g[i - 1] \o s[i]
    <3>. HIDE DEF g
    <3>1. CASE i = m + 1
      <4>1. i = 1 => g[i] = s[i]
        BY <2>3, <3>1
      <4>2. i # 1 => i - 1 \in 1..m /\ i - 1 = m
        BY <3>1
      <4>3. i # 1 => g[i] = f[m] \o s[i]
        BY <2>3, <3>1
      <4>. QED  BY <2>2, <4>1, <4>2, <4>3
    <3>2. CASE i # m + 1
      <4>1. i \in 1..m /\ (i # 1 => i - 1 \in 1..m)
        BY <3>2
      <4>2. f[i] = IF i = 1 THEN s[i] ELSE f[i - 1] \o s[i]
        BY <2>1, <4>1 DEF Flattens
      <4>. QED  BY <2>2, <4>1, <4>2
    <3>. QED  BY <3>1, <3>2
  <2>5. Flattens(g, s, m + 1)
    BY <2>4 DEF Flattens
  <2>. QED  BY <2>5
<1>. HIDE DEF P
<1>3. n \in P
  BY <1>1, <1>2, Induction
<1>. QED  BY <1>3 DEF P

Piece(q, i) == [j \in 1..Size(q[i]) |-> <<q[i].e, q[i].from + j - 1>>]

\* Where byte j of q is: in buffer m
Place(q, j, m) == m \in 1..Len(q) /\ Upto(q, m - 1) < j /\ j <= Upto(q, m)
ByteAt(q, j, m) == <<q[m].e, q[m].from + (j - Upto(q, m - 1)) - 1>>

LEMMA PieceIs ==
  ASSUME NEW q \in Buffers, NEW i \in 1..Len(q)
  PROVE  Piece(q, i) \in Seq(Byte) /\ Len(Piece(q, i)) = Size(q[i])
<1>1. q[i] \in Buffer
  BY BuffersAre
<1>2. /\ q[i].e \in 1..MaxEpoch /\ q[i].from \in Nat /\ q[i].to \in 0..MaxNext /\ MaxNext \in Nat
      /\ Size(q[i]) \in Nat /\ q[i].from + Size(q[i]) = q[i].to
  BY <1>1, BufferIs, SendAssumption
<1>3. ASSUME NEW j \in 1..Size(q[i]) PROVE <<q[i].e, q[i].from + j - 1>> \in Byte
  <2>1. q[i].from + j - 1 \in 0..MaxNext
    BY <1>2
  <2>. QED  BY <1>2, <2>1 DEF Byte
<1>. QED  BY <1>2, <1>3 DEF Piece

LEMMA FlattenIs ==
  ASSUME NEW q \in Buffers, NEW f, Flattens(f, [i \in 1..Len(q) |-> Piece(q, i)], Len(q)),
         NEW i \in 1..Len(q)
  PROVE  /\ f[i] \in Seq(Byte) /\ Len(f[i]) = Upto(q, i)
         /\ \A j \in 1..Upto(q, i) : \E m \in 1..i : Place(q, j, m) /\ f[i][j] = ByteAt(q, j, m)
<1>. DEFINE Flat(n) == /\ f[n] \in Seq(Byte) /\ Len(f[n]) = Upto(q, n)
                       /\ \A j \in 1..Upto(q, n) : \E m \in 1..n :
                            Place(q, j, m) /\ f[n][j] = ByteAt(q, j, m)
            P == {n \in Nat : n + 1 <= Len(q) => Flat(n + 1)}
<1>0. Len(q) \in Nat
  BY BuffersAre
<1>1. \A n \in 1..Len(q) : f[n] = IF n = 1 THEN Piece(q, n) ELSE f[n - 1] \o Piece(q, n)
  BY DEF Flattens
<1>2. 0 \in P
  <2>1. SUFFICES ASSUME 1 <= Len(q) PROVE Flat(1)
    OBVIOUS
  <2>2. 1 \in 1..Len(q) /\ 1 - 1 = 0
    BY <1>0, <2>1
  <2>3. f[1] = Piece(q, 1) /\ Upto(q, 0) = 0 /\ Upto(q, 1) = Upto(q, 1 - 1) + Size(q[1])
    BY <1>1, <2>2, UptoIs
  <2>4. Size(q[1]) \in Nat /\ f[1] \in Seq(Byte) /\ Len(f[1]) = Size(q[1])
    BY <2>2, <2>3, BuffersAre, PieceIs
  <2>5. Upto(q, 1) = Size(q[1])
    BY <2>2, <2>3, <2>4
  <2>6. ASSUME NEW j \in 1..Upto(q, 1) PROVE Place(q, j, 1) /\ f[1][j] = ByteAt(q, j, 1)
    <3>1. f[1][j] = <<q[1].e, q[1].from + j - 1>> /\ j - Upto(q, 1 - 1) = j
      BY <2>2, <2>3, <2>5 DEF Piece
    <3>. QED  BY <2>2, <2>3, <3>1 DEF Place, ByteAt
  <2>7. 1 \in 1..1
    OBVIOUS
  <2>. QED  BY <2>4, <2>5, <2>6, <2>7
<1>3. ASSUME NEW n \in Nat, n \in P PROVE n + 1 \in P
  <2>1. SUFFICES ASSUME n + 2 <= Len(q) PROVE Flat(n + 2)
    <3>1. (n + 1) + 1 = n + 2
      OBVIOUS
    <3>. QED  BY <3>1
  <2>. DEFINE k == n + 1
              l == n + 2
  <2>2. k \in 1..Len(q) /\ l \in 1..Len(q) /\ l - 1 = k /\ l # 1 /\ 1..k \subseteq 1..l /\ l \in 1..l
        /\ k \in 0..Len(q)
    BY <1>0, <2>1
  <2>3. Flat(k)
    BY <1>0, <1>3, <2>1
  <2>. HIDE DEF k, l
  <2>4. f[l] = f[k] \o Piece(q, l) /\ Upto(q, l) = Upto(q, k) + Size(q[l])
    BY <1>1, <2>2, UptoIs
  <2>5. /\ Piece(q, l) \in Seq(Byte) /\ Len(Piece(q, l)) = Size(q[l])
        /\ Upto(q, k) \in Nat /\ Size(q[l]) \in Nat
    BY <2>2, PieceIs, UptoIs, BuffersAre
  <2>a. f[k] \in Seq(Byte) /\ Len(f[k]) = Upto(q, k)
    BY <2>3
  <2>b. \A j \in 1..Upto(q, k) : \E m \in 1..k : Place(q, j, m) /\ f[k][j] = ByteAt(q, j, m)
    BY <2>3
  <2>. HIDE DEF Flat
  <2>c. f[l] \in Seq(Byte) /\ Len(f[l]) = Len(f[k]) + Len(Piece(q, l))
    BY <2>4, <2>5, <2>a, ConcatProperties
  <2>6. f[l] \in Seq(Byte) /\ Len(f[l]) = Upto(q, l)
    BY <2>4, <2>5, <2>a, <2>c
  <2>7. ASSUME NEW j \in 1..Upto(q, l)
        PROVE  \E m \in 1..l : Place(q, j, m) /\ f[l][j] = ByteAt(q, j, m)
    <3>0. j \in Nat /\ 1 <= j /\ j <= Upto(q, k) + Size(q[l])
      BY <2>4, <2>5
    <3>1. CASE j <= Upto(q, k)
      <4>1. j \in 1..Upto(q, k)
        BY <2>5, <3>0, <3>1
      <4>2. f[l][j] = f[k][j]
        BY <2>4, <2>5, <2>a, <4>1
      <4>3. PICK m \in 1..k : Place(q, j, m) /\ f[k][j] = ByteAt(q, j, m)
        BY <2>b, <4>1
      <4>. QED  BY <2>2, <4>2, <4>3
    <3>2. CASE Upto(q, k) < j
      <4>1. j - Upto(q, k) \in 1..Size(q[l]) /\ Place(q, j, l)
        BY <2>2, <2>4, <2>5, <3>0, <3>2 DEF Place
      <4>2. f[l][j] = Piece(q, l)[j - Upto(q, k)]
        BY <2>2, <2>4, <2>5, <2>a, <3>0, <3>2
      <4>3. f[l][j] = ByteAt(q, j, l)
        BY <2>2, <4>1, <4>2 DEF Piece, ByteAt
      <4>. QED  BY <2>2, <4>1, <4>3
    <3>3. j <= Upto(q, k) \/ Upto(q, k) < j
      BY <2>5, <3>0
    <3>. QED  BY <3>1, <3>2, <3>3
  <2>. QED  BY <2>6, <2>7 DEF l, Flat
<1>. HIDE DEF P
<1>4. i - 1 \in P /\ (i - 1) + 1 = i /\ i <= Len(q)
  BY <1>0, <1>2, <1>3, Induction
<1>. QED  BY <1>4 DEF P

LEMMA SentIs ==
  ASSUME NEW q \in Buffers, NEW k \in 0..Bytes(q)
  PROVE  /\ Sent(q, k) \in Seq(Byte) /\ Len(Sent(q, k)) = k
         /\ \A j \in 1..k : \E m \in 1..Len(q) : Place(q, j, m) /\ Sent(q, k)[j] = ByteAt(q, j, m)
<1>. DEFINE s == [i \in 1..Len(q) |-> Piece(q, i)]
            F == CHOOSE f : Flattens(f, s, Len(q))
<1>0. Len(q) \in Nat /\ Len(s) = Len(q) /\ Bytes(q) \in Nat
  BY BuffersAre, BytesNat
<1>1. Sent(q, k) = SubSeq(FlattenSeq(s), 1, k)
  BY DEF Sent, Piece
<1>2. CASE q = <<>>
  <2>1. Len(q) = 0 /\ k = 0
    BY <1>2, BytesEmpty
  <2>. HIDE DEF s
  <2>2. FlattenSeq(s) = <<>>
    BY <1>0, <2>1 DEF FlattenSeq
  <2>3. Sent(q, k) = <<>>
    BY <1>1, <2>1, <2>2
  <2>4. 1..0 = {} /\ Len(<<>>) = 0 /\ <<>> \in Seq(Byte)
    OBVIOUS
  <2>. QED  BY <2>1, <2>3, <2>4
<1>3. CASE q # <<>>
  <2>1. Len(q) \in 1..Len(q) /\ Len(s) # 0
    BY <1>0, <1>3 DEF Buffers
  <2>2. FlattenSeq(s) = F[Len(q)]
    <3>. HIDE DEF s
    <3>. QED  BY <1>0, <2>1 DEF FlattenSeq, Flattens
  <2>3. Flattens(F, s, Len(q))
    <3>. HIDE DEF s
    <3>. QED  BY <1>0, FlattenExists
  <2>. HIDE DEF F
  <2>4. /\ F[Len(q)] \in Seq(Byte) /\ Len(F[Len(q)]) = Upto(q, Len(q))
        /\ \A j \in 1..Upto(q, Len(q)) : \E m \in 1..Len(q) :
              Place(q, j, m) /\ F[Len(q)][j] = ByteAt(q, j, m)
    BY <2>1, <2>3, FlattenIs
  <2>5. Upto(q, Len(q)) = Bytes(q)
    BY UptoIs
  <2>. HIDE DEF s
  <2>. DEFINE w == F[Len(q)]
  <2>6. /\ w \in Seq(Byte) /\ Len(w) = Bytes(q) /\ Sent(q, k) = SubSeq(w, 1, k)
        /\ \A j \in 1..k : j \in 1..Upto(q, Len(q))
    BY <1>0, <1>1, <2>2, <2>4, <2>5
  <2>. HIDE DEF w
  <2>7. /\ SubSeq(w, 1, k) \in Seq(Byte) /\ Len(SubSeq(w, 1, k)) = k
        /\ \A j \in 1..k : SubSeq(w, 1, k)[j] = w[j]
    BY <1>0, <2>6
  <2>. QED  BY <2>4, <2>6, <2>7 DEF w
<1>. QED  BY <1>2, <1>3

-----------------------------------------------------------------------------
(* What the lock-protected operations do to a stream of buffers             *)

\* The buffers of q continue, in order, a stream of connection e that has come
\* to b, and end before n
Follows(q, b, e, n) ==
  /\ b <= n
  /\ \A i \in 1..Len(q) :
       /\ q[i].e = e /\ b <= q[i].from /\ q[i].to <= n
       /\ \A j \in i + 1..Len(q) : q[i].to <= q[j].from

\* and leave no gap
Gapless(q, b) == \A i \in 1..Len(q) : q[i].from = b + Upto(q, i - 1)

LEMMA ConcatIs ==
  ASSUME NEW q \in Buffers, NEW r \in Buffers
  PROVE  /\ q \o r \in Buffers /\ Len(q \o r) = Len(q) + Len(r)
         /\ \A i \in 1..Len(q) : (q \o r)[i] = q[i]
         /\ \A i \in 1..Len(r) : (q \o r)[Len(q) + i] = r[i]
BY ConcatProperties, BytesConcat DEF Buffers

LEMMA AppendIs ==
  ASSUME NEW q \in Buffers, NEW c \in Buffer
  PROVE  /\ Append(q, c) \in Buffers /\ Len(Append(q, c)) = Len(q) + 1
         /\ \A i \in 1..Len(q) : Append(q, c)[i] = q[i]
         /\ Append(q, c)[Len(q) + 1] = c
         /\ Append(q, c) = q \o <<c>>
BY AppendProperties DEF Buffers

LEMMA EmptyIs ==
  /\ <<>> \in Buffers /\ Bytes(<<>>) = 0
  /\ \A q \in Buffers : <<>> \o q = q /\ q \o <<>> = q
<1>1. ASSUME NEW q \in Buffers PROVE <<>> \o q = q /\ q \o <<>> = q
  <2>1. q \in Seq(Buffer)
    BY DEF Buffers
  <2>. QED  BY <2>1, ConcatEmptySeq
<1>. QED  BY <1>1, BytesEmpty DEF Buffers

LEMMA FollowsPart ==
  ASSUME NEW q \in Buffers, NEW r \in Buffers, NEW b \in Nat, NEW e, NEW n \in Nat,
         Follows(q \o r, b, e, n)
  PROVE  Follows(q, b, e, n) /\ Follows(r, b, e, n)
<1>. DEFINE s == q \o r
<1>1. /\ Len(q) \in Nat /\ Len(r) \in Nat /\ Len(s) = Len(q) + Len(r)
      /\ \A i \in 1..Len(q) : s[i] = q[i]
      /\ \A i \in 1..Len(r) : s[Len(q) + i] = r[i]
  BY ConcatIs, BuffersAre
<1>2. Follows(s, b, e, n)
  OBVIOUS
<1>. HIDE DEF s
<1>3. Follows(q, b, e, n)
  BY <1>1, <1>2 DEF Follows
<1>4. ASSUME NEW i \in 1..Len(r)
      PROVE  /\ r[i].e = e /\ b <= r[i].from /\ r[i].to <= n
             /\ \A j \in i + 1..Len(r) : r[i].to <= r[j].from
  <2>1. Len(q) + i \in 1..Len(s) /\ r[i] = s[Len(q) + i]
    BY <1>1
  <2>2. ASSUME NEW j \in i + 1..Len(r) PROVE r[i].to <= r[j].from
    <3>1. Len(q) + j \in (Len(q) + i) + 1..Len(s) /\ r[j] = s[Len(q) + j]
      BY <1>1
    <3>. QED  BY <1>2, <2>1, <3>1 DEF Follows
  <2>. QED  BY <1>2, <2>1, <2>2 DEF Follows
<1>5. b <= n
  BY <1>2 DEF Follows
<1>. QED  BY <1>3, <1>4, <1>5 DEF Follows

LEMMA GaplessPart ==
  ASSUME NEW q \in Buffers, NEW r \in Buffers, NEW b \in Nat, Gapless(q \o r, b)
  PROVE  Gapless(q, b)
<1>1. ASSUME NEW i \in 1..Len(q) PROVE q[i].from = b + Upto(q, i - 1)
  <2>0. /\ Len(q) \in Nat /\ Len(r) \in Nat /\ Len(q \o r) = Len(q) + Len(r)
        /\ (q \o r)[i] = q[i]
    BY ConcatIs, BuffersAre
  <2>1. i \in 1..Len(q \o r) /\ (q \o r)[i] = q[i] /\ i - 1 \in 0..Len(q)
    BY <2>0
  <2>2. Upto(q \o r, i - 1) = Upto(q, i - 1)
    BY <2>1, UptoConcat
  <2>. QED  BY <2>1, <2>2 DEF Gapless
<1>. QED  BY <1>1 DEF Gapless

\* reqSend adds a buffer.
LEMMA FollowsAppend ==
  ASSUME NEW q \in Buffers, NEW c \in Buffer, NEW b \in Nat, NEW n \in Nat, NEW e,
         Follows(q, b, e, n), c.e = e, c.from = n
  PROVE  Follows(Append(q, c), b, e, c.to)
<1>. DEFINE s == Append(q, c)
<1>1. /\ Len(q) \in Nat /\ Len(s) = Len(q) + 1
      /\ \A i \in 1..Len(q) : s[i] = q[i] /\ q[i].to \in Nat
      /\ s[Len(q) + 1] = c /\ c.to \in Nat /\ n < c.to
  BY AppendIs, BuffersAre, BufferIs DEF Buffer
<1>. HIDE DEF s
<1>2. /\ b <= n
      /\ \A i \in 1..Len(q) :
           /\ q[i].e = e /\ b <= q[i].from /\ q[i].to <= n
           /\ \A j \in i + 1..Len(q) : q[i].to <= q[j].from
  BY DEF Follows
<1>3. ASSUME NEW i \in 1..Len(s)
      PROVE  /\ s[i].e = e /\ b <= s[i].from /\ s[i].to <= c.to
             /\ \A j \in i + 1..Len(s) : s[i].to <= s[j].from
  <2>1. CASE i = Len(q) + 1
    <3>1. i + 1..Len(s) = {} /\ s[i] = c
      BY <1>1, <2>1
    <3>. QED  BY <1>1, <1>2, <3>1
  <2>2. CASE i \in 1..Len(q)
    <3>1. s[i] = q[i] /\ s[i].to <= n
      BY <1>1, <1>2, <2>2
    <3>2. ASSUME NEW j \in i + 1..Len(s) PROVE s[i].to <= s[j].from
      <4>1. CASE j = Len(q) + 1
        BY <1>1, <3>1, <4>1
      <4>2. CASE j \in i + 1..Len(q)
        <5>1. j \in 1..Len(q)
          BY <4>2, <2>2, <1>1
        <5>. QED  BY <1>1, <1>2, <2>2, <3>1, <4>2, <5>1
      <4>. QED  BY <1>1, <2>2, <4>1, <4>2
    <3>3. s[i].to <= c.to
      BY <1>1, <2>2, <3>1
    <3>. QED  BY <1>2, <2>2, <3>1, <3>2, <3>3
  <2>. QED  BY <1>1, <2>1, <2>2
<1>4. b <= c.to
  BY <1>1, <1>2
<1>. QED  BY <1>3, <1>4 DEF Follows, s

LEMMA GaplessAppend ==
  ASSUME NEW q \in Buffers, NEW c \in Buffer, NEW b \in Nat,
         Gapless(q, b), c.from = b + Bytes(q)
  PROVE  Gapless(Append(q, c), b)
<1>. DEFINE s == Append(q, c)
<1>1. /\ Len(q) \in Nat /\ Len(s) = Len(q) + 1
      /\ \A i \in 1..Len(q) : s[i] = q[i]
      /\ s[Len(q) + 1] = c /\ s = q \o <<c>>
  BY AppendIs, BuffersAre
<1>2. <<c>> \in Buffers
  BY DEF Buffers
<1>3. \A i \in 0..Len(q) : Upto(s, i) = Upto(q, i)
  BY <1>1, <1>2, UptoConcat
<1>4. Upto(q, Len(q)) = Bytes(q)
  BY UptoIs
<1>. HIDE DEF s
<1>5. ASSUME NEW i \in 1..Len(s) PROVE s[i].from = b + Upto(s, i - 1)
  <2>1. CASE i = Len(q) + 1
    <3>1. i - 1 = Len(q) /\ Len(q) \in 0..Len(q)
      BY <1>1, <2>1
    <3>. QED  BY <1>1, <1>3, <1>4, <2>1, <3>1
  <2>2. CASE i \in 1..Len(q)
    <3>1. i - 1 \in 0..Len(q)
      BY <1>1, <2>2
    <3>. QED  BY <1>1, <1>3, <2>2, <3>1 DEF Gapless
  <2>. QED  BY <1>1, <2>1, <2>2
<1>. QED  BY <1>5 DEF Gapless, s

-----------------------------------------------------------------------------
(* What a completion does to it                                             *)

\* Byte k of q is in one buffer only.
LEMMA PlaceOrder ==
  ASSUME NEW q \in Buffers, NEW j \in Nat, NEW m, NEW i \in 0..Len(q),
         Place(q, j, m), j <= Upto(q, i)
  PROVE  m <= i
<1>1. /\ Len(q) \in Nat /\ m \in 1..Len(q) /\ m - 1 \in 0..Len(q)
      /\ Upto(q, m - 1) \in Nat /\ Upto(q, i) \in Nat /\ Upto(q, m - 1) < j
  BY BuffersAre, UptoIs DEF Place
<1>2. ASSUME i < m PROVE FALSE
  <2>1. m - 1 \in i..Len(q)
    BY <1>1, <1>2
  <2>2. Upto(q, i) <= Upto(q, m - 1)
    BY <2>1, UptoGrows
  <2>. QED  BY <1>1, <2>2
<1>. QED  BY <1>1, <1>2

\* Where the first k bytes of q end, the last of them being in buffer m
Reach(q, k, m) == q[m].from + (k - Upto(q, m - 1))

LEMMA ReachIs ==
  ASSUME NEW q \in Buffers, NEW k \in Nat, NEW m, Place(q, k, m)
  PROVE  /\ Reach(q, k, m) \in Nat /\ Reach(q, k, m) <= q[m].to
         /\ ByteAt(q, k, m) = <<q[m].e, Reach(q, k, m) - 1>>
         /\ q[m].from < Reach(q, k, m)
<1>1. /\ m \in 1..Len(q) /\ m - 1 \in 0..Len(q) /\ m \in 0..Len(q) /\ Len(q) \in Nat
      /\ Upto(q, m - 1) < k /\ k <= Upto(q, m)
  BY BuffersAre DEF Place
<1>2. /\ Upto(q, m - 1) \in Nat /\ Upto(q, m) \in Nat
      /\ Upto(q, m) = Upto(q, m - 1) + Size(q[m])
  BY <1>1, UptoIs
<1>3. q[m].from \in Nat /\ q[m].to \in Nat /\ Size(q[m]) \in Nat /\ q[m].from + Size(q[m]) = q[m].to
  BY <1>1, BuffersAre, BufferIs
<1>4. /\ k - Upto(q, m - 1) \in Nat \ {0} /\ k - Upto(q, m - 1) <= Size(q[m])
  BY <1>1, <1>2, <1>3
<1>5. ByteAt(q, k, m) = <<q[m].e, Reach(q, k, m) - 1>>
  BY <1>3, <1>4 DEF Reach, ByteAt
<1>6. Reach(q, k, m) = q[m].from + (k - Upto(q, m - 1))
  BY DEF Reach
<1>. QED  BY <1>3, <1>4, <1>5, <1>6

LEMMA RestFollows ==
  ASSUME NEW q \in Buffers, NEW k \in 1..Bytes(q), NEW m, Place(q, k, m),
         NEW b \in Nat, NEW n \in Nat, NEW e, Follows(q, b, e, n)
  PROVE  Follows(Rest(q, k), Reach(q, k, m), e, n)
<1>. DEFINE r == Rest(q, k)
            d == Emptied(q, k)
            c == Reach(q, k, m)
<1>0. Bytes(q) \in Nat /\ k \in Nat /\ k \in 0..Bytes(q) /\ k # 0
  BY BytesNat
<1>1. /\ Len(q) \in Nat /\ d \in 0..Len(q) /\ Len(r) = Len(q) - d
      /\ \A i \in 1..Len(r) : r[i] = Left(q, k)[d + i]
      /\ \A i \in d + 1..Len(q) : k < Upto(q, i)
  BY <1>0, BuffersAre, EmptiedIs, RestIs
<1>2. /\ m \in 1..Len(q) /\ c \in Nat /\ c <= q[m].to /\ q[m].to \in Nat
  BY <1>0, ReachIs, BuffersAre, BufferIs DEF Place
<1>3. /\ b <= n
      /\ \A i \in 1..Len(q) :
           /\ q[i].e = e /\ b <= q[i].from /\ q[i].to <= n
           /\ \A j \in i + 1..Len(q) : q[i].to <= q[j].from
  BY DEF Follows
<1>. HIDE DEF r, d, c
<1>4. ASSUME NEW i \in d + 1..Len(q)
      PROVE  /\ Left(q, k)[i].e = e /\ Left(q, k)[i].to = q[i].to
             /\ Left(q, k)[i].from \in Nat /\ q[i].from <= Left(q, k)[i].from
             /\ c <= Left(q, k)[i].from
  <2>1. i \in 1..Len(q) /\ i - 1 \in 0..Len(q) /\ i \in 0..Len(q)
    BY <1>1
  <2>2. /\ Left(q, k)[i].from = q[i].from + Taken(q, k, i)
        /\ Left(q, k)[i].to = q[i].to /\ Left(q, k)[i].e = q[i].e
    BY <1>0, <2>1, LeftFields
  <2>3. /\ q[i].from \in Nat /\ Size(q[i]) \in Nat
    BY <2>1, BuffersAre, BufferIs
  <2>4. /\ Taken(q, k, i) \in 0..Size(q[i])
        /\ Upto(q, i - 1) <= k /\ k < Upto(q, i) => Taken(q, k, i) = k - Upto(q, i - 1)
    BY <1>0, <2>1, TakenIs
  <2>5. k < Upto(q, i) /\ Upto(q, i) \in Nat /\ Upto(q, i - 1) \in Nat
    BY <1>1, <2>1, UptoIs
  <2>6. m <= i
    BY <1>0, <2>1, <2>5, PlaceOrder
  <2>7. q[i].from <= Left(q, k)[i].from /\ Left(q, k)[i].from \in Nat
    BY <2>2, <2>3, <2>4
  <2>8. CASE m = i
    <3>1. Upto(q, i - 1) <= k
      BY <1>0, <2>5, <2>8 DEF Place
    <3>2. c = q[i].from + (k - Upto(q, i - 1))
      BY <2>8 DEF c, Reach
    <3>3. Left(q, k)[i].from = q[i].from + (k - Upto(q, i - 1))
      BY <2>2, <2>4, <2>5, <3>1
    <3>4. c = Left(q, k)[i].from
      BY <3>2, <3>3
    <3>. QED  BY <1>3, <2>1, <2>2, <2>7, <3>4
  <2>9. CASE m # i
    <3>1. i \in m + 1..Len(q)
      BY <1>2, <2>1, <2>6, <2>9
    <3>2. q[m].to <= q[i].from
      BY <1>2, <1>3, <3>1
    <3>. QED  BY <1>2, <1>3, <2>1, <2>2, <2>3, <2>7, <3>2
  <2>. QED  BY <2>8, <2>9
<1>5. ASSUME NEW i \in 1..Len(r)
      PROVE  /\ r[i].e = e /\ c <= r[i].from /\ r[i].to <= n
             /\ \A j \in i + 1..Len(r) : r[i].to <= r[j].from
  <2>1. d + i \in d + 1..Len(q) /\ d + i \in 1..Len(q)
    BY <1>1
  <2>2. r[i] = Left(q, k)[d + i]
    BY <1>1
  <2>3. ASSUME NEW j \in i + 1..Len(r) PROVE r[i].to <= r[j].from
    <3>1. /\ d + j \in d + 1..Len(q) /\ d + j \in (d + i) + 1..Len(q) /\ d + j \in 1..Len(q)
          /\ j \in 1..Len(r)
      BY <1>1
    <3>2. r[j] = Left(q, k)[d + j]
      BY <1>1, <3>1
    <3>3. q[d + i].to <= q[d + j].from
      BY <1>3, <2>1, <3>1
    <3>4. q[d + j].from <= r[j].from /\ r[i].to = q[d + i].to /\ r[j].from \in Nat
      BY <1>4, <2>1, <2>2, <3>1, <3>2
    <3>5. q[d + i].to \in Nat /\ q[d + j].from \in Nat
      BY <2>1, <3>1, BuffersAre, BufferIs
    <3>. QED  BY <3>3, <3>4, <3>5
  <2>. QED  BY <1>3, <1>4, <2>1, <2>2, <2>3
<1>6. c <= n
  BY <1>2, <1>3
<1>. QED  BY <1>5, <1>6 DEF Follows, r, c

LEMMA RestGapless ==
  ASSUME NEW q \in Buffers, NEW k \in 1..Bytes(q), NEW m, Place(q, k, m),
         NEW b \in Nat, Gapless(q, b)
  PROVE  Reach(q, k, m) = b + k /\ Gapless(Rest(q, k), b + k)
<1>. DEFINE r == Rest(q, k)
            d == Emptied(q, k)
<1>0. Bytes(q) \in Nat /\ k \in Nat /\ k \in 0..Bytes(q)
  BY BytesNat
<1>1. /\ Len(q) \in Nat /\ d \in 0..Len(q) /\ Len(r) = Len(q) - d
      /\ \A i \in 1..Len(r) : r[i] = Left(q, k)[d + i]
      /\ \A i \in 1..Len(r) : Upto(r, i) = Upto(q, d + i) - k
      /\ \A i \in d + 1..Len(q) : k < Upto(q, i)
      /\ Upto(q, d) <= k /\ r \in Buffers
  BY <1>0, BuffersAre, EmptiedIs, RestIs
<1>2. Reach(q, k, m) = b + k
  <2>1. m \in 1..Len(q) /\ m - 1 \in 0..Len(q)
    BY <1>1 DEF Place
  <2>2. q[m].from = b + Upto(q, m - 1) /\ Upto(q, m - 1) \in Nat
    BY <2>1, UptoIs DEF Gapless
  <2>. QED  BY <1>0, <2>2 DEF Reach
<1>3. Upto(r, 0) = 0
  BY <1>1, UptoIs
<1>. HIDE DEF r, d
<1>4. ASSUME NEW i \in 1..Len(r) PROVE r[i].from = (b + k) + Upto(r, i - 1)
  <2>. DEFINE l == d + i
  <2>1. /\ l \in 1..Len(q) /\ l - 1 \in 0..Len(q) /\ l \in 0..Len(q) /\ l \in d + 1..Len(q)
        /\ l - 1 = d + (i - 1)
    BY <1>1
  <2>2. r[i] = Left(q, k)[l]
    BY <1>1
  <2>. HIDE DEF l
  <2>3. r[i].from = q[l].from + Taken(q, k, l)
    <3>1. Left(q, k)[l].from = q[l].from + Taken(q, k, l)
      BY <1>0, <2>1, LeftIs
    <3>. QED  BY <2>2, <3>1
  <2>4. q[l].from = b + Upto(q, l - 1) /\ Upto(q, l - 1) \in Nat /\ Upto(q, l) \in Nat
        /\ k < Upto(q, l)
    BY <1>1, <2>1, UptoIs DEF Gapless
  <2>5. /\ k <= Upto(q, l - 1) => Taken(q, k, l) = 0
        /\ Upto(q, l - 1) <= k /\ k < Upto(q, l) => Taken(q, k, l) = k - Upto(q, l - 1)
    BY <1>0, <2>1, TakenIs
  <2>6. CASE i = 1
    <3>1. l - 1 = d /\ i - 1 = 0
      BY <1>1, <2>1, <2>6
    <3>2. Taken(q, k, l) = k - Upto(q, l - 1)
      BY <1>1, <2>4, <2>5, <3>1
    <3>. QED  BY <1>0, <1>3, <2>3, <2>4, <3>1, <3>2
  <2>7. CASE i # 1
    <3>1. i - 1 \in 1..Len(r) /\ l - 1 \in d + 1..Len(q)
      BY <1>1, <2>1, <2>7
    <3>2. k < Upto(q, l - 1) /\ Upto(r, i - 1) = Upto(q, l - 1) - k
      BY <1>1, <2>1, <3>1
    <3>3. Taken(q, k, l) = 0
      BY <1>0, <2>4, <2>5, <3>2
    <3>. QED  BY <1>0, <2>3, <2>4, <3>2, <3>3
  <2>. QED  BY <2>6, <2>7
<1>. QED  BY <1>2, <1>4 DEF Gapless, r

\* hasRead of nothing changes nothing.
LEMMA RestNone == ASSUME NEW q \in Buffers PROVE Rest(q, 0) = q /\ Sent(q, 0) = <<>>
<1>. DEFINE r == Rest(q, 0)
            d == Emptied(q, 0)
<1>0. Bytes(q) \in Nat /\ 0 \in 0..Bytes(q)
  BY BytesNat
<1>1. /\ Len(q) \in Nat /\ d \in 0..Len(q) /\ Len(r) = Len(q) - d
      /\ \A i \in 1..Len(r) : r[i] = Left(q, 0)[d + i]
      /\ Upto(q, d) <= 0 /\ r \in Buffers
  BY <1>0, BuffersAre, EmptiedIs, RestIs
<1>. HIDE DEF r, d
<1>2. d = 0
  <2>1. SUFFICES ASSUME d # 0 PROVE FALSE
    OBVIOUS
  <2>2. d \in 1..Len(q) /\ d - 1 \in 0..Len(q)
    BY <1>1, <2>1
  <2>3. Upto(q, d) = Upto(q, d - 1) + Size(q[d]) /\ Upto(q, d - 1) \in Nat
    BY <2>2, UptoIs
  <2>4. Size(q[d]) \in Nat \ {0}
    BY <2>2, BuffersAre, BufferIs
  <2>. QED  BY <1>1, <2>3, <2>4
<1>3. Len(r) = Len(q) /\ \A i \in 1..Len(q) : r[i] = Left(q, 0)[i]
  BY <1>1, <1>2
<1>4. ASSUME NEW i \in 1..Len(q) PROVE r[i] = q[i]
  <2>1. i - 1 \in 0..Len(q) /\ 0 \in Nat
    BY <1>1
  <2>2. 0 <= Upto(q, i - 1)
    BY <2>1, UptoIs
  <2>. QED  BY <1>3, <2>1, <2>2, LeftIs
<1>5. r = q
  BY <1>1, <1>3, <1>4 DEF Buffers
<1>6. Sent(q, 0) \in Seq(Byte) /\ Len(Sent(q, 0)) = 0
  BY <1>0, SentIs
<1>. QED  BY <1>5, <1>6 DEF r

LEMMA RestConcat ==
  ASSUME NEW q \in Buffers, NEW r \in Buffers, NEW k \in 0..Bytes(q)
  PROVE  Rest(q \o r, k) = Rest(q, k) \o r
<1>. DEFINE s == q \o r
            d == Emptied(q, k)
            c == Emptied(s, k)
            x == Rest(q, k)
            y == Rest(s, k)
<1>1. /\ Bytes(q) \in Nat /\ Bytes(r) \in Nat /\ Bytes(s) = Bytes(q) + Bytes(r)
      /\ k \in Nat /\ k <= Bytes(q) /\ k \in 0..Bytes(s)
  BY BytesNat, BytesConcat
<1>2. /\ s \in Buffers /\ Len(s) = Len(q) + Len(r) /\ Len(q) \in Nat /\ Len(r) \in Nat
      /\ \A i \in 1..Len(q) : s[i] = q[i]
      /\ \A i \in 1..Len(r) : s[Len(q) + i] = r[i]
  BY ConcatIs, BuffersAre
<1>3. /\ \A i \in 0..Len(q) : Upto(s, i) = Upto(q, i)
      /\ \A i \in 0..Len(r) : Upto(s, Len(q) + i) = Bytes(q) + Upto(r, i)
  BY UptoConcat
<1>4. /\ d \in 0..Len(q) /\ Upto(q, d) <= k /\ x \in Buffers /\ Len(x) = Len(q) - d
      /\ \A i \in d + 1..Len(q) : k < Upto(q, i)
      /\ \A i \in 1..Len(x) : x[i] = Left(q, k)[d + i]
  BY EmptiedIs, RestIs
<1>5. /\ c \in 0..Len(s) /\ Upto(s, c) <= k
      /\ \A i \in c + 1..Len(s) : k < Upto(s, i)
  BY <1>1, <1>2, EmptiedIs
<1>6. /\ y \in Buffers /\ Len(y) = Len(s) - c
      /\ \A i \in 1..Len(y) : y[i] = Left(s, k)[c + i]
  BY <1>1, <1>2, RestIs
<1>. HIDE DEF s, d, c, x, y
<1>7. ASSUME NEW i \in d + 1..Len(s) PROVE k < Upto(s, i)
  <2>1. CASE i \in 1..Len(q)
    <3>1. i \in 0..Len(q) /\ i \in d + 1..Len(q)
      BY <1>4, <2>1
    <3>. QED  BY <1>3, <1>4, <3>1
  <2>2. CASE i \in Len(q) + 1..Len(s)
    <3>. DEFINE j == i - Len(q)
    <3>1. j \in 1..Len(r) /\ j \in 0..Len(r) /\ i = Len(q) + j /\ j - 1 \in 0..Len(r)
      BY <1>2, <2>2
    <3>. HIDE DEF j
    <3>2. Upto(s, i) = Bytes(q) + Upto(r, j)
      BY <1>3, <3>1
    <3>3. Upto(r, j) = Upto(r, j - 1) + Size(r[j]) /\ Upto(r, j - 1) \in Nat
      BY <3>1, UptoIs
    <3>4. Size(r[j]) \in Nat \ {0}
      BY <3>1, BuffersAre, BufferIs
    <3>. QED  BY <1>1, <3>2, <3>3, <3>4
  <2>. QED  BY <1>2, <1>4, <2>1, <2>2
<1>8. c = d
  <2>1. ASSUME c < d PROVE FALSE
    <3>1. d \in c + 1..Len(s) /\ d \in 0..Len(q)
      BY <1>2, <1>4, <1>5, <2>1
    <3>2. k < Upto(s, d) /\ Upto(s, d) = Upto(q, d) /\ Upto(q, d) \in Nat
      BY <1>3, <1>5, <3>1, UptoIs
    <3>. QED  BY <1>1, <1>4, <3>2
  <2>2. ASSUME d < c PROVE FALSE
    <3>1. c \in d + 1..Len(s) /\ c \in 0..Len(s)
      BY <1>4, <1>5, <2>2
    <3>2. k < Upto(s, c) /\ Upto(s, c) \in Nat
      BY <1>2, <1>7, <3>1, UptoIs
    <3>. QED  BY <1>1, <1>5, <3>2
  <2>. QED  BY <1>4, <1>5, <2>1, <2>2
<1>9. /\ x \o r \in Buffers /\ Len(x \o r) = Len(x) + Len(r) /\ Len(x) \in Nat
      /\ \A i \in 1..Len(x) : (x \o r)[i] = x[i]
      /\ \A i \in 1..Len(r) : (x \o r)[Len(x) + i] = r[i]
  BY <1>4, ConcatIs, BuffersAre
<1>10. Len(y) = Len(x \o r)
  BY <1>2, <1>4, <1>6, <1>8, <1>9
<1>11. ASSUME NEW i \in 1..Len(y) PROVE y[i] = (x \o r)[i]
  <2>0. d + i \in 1..Len(s) /\ y[i] = Left(s, k)[d + i]
    BY <1>2, <1>4, <1>6, <1>8
  <2>1. CASE i \in 1..Len(x)
    <3>1. d + i \in 1..Len(q) /\ (d + i) - 1 \in 0..Len(q)
      BY <1>2, <1>4, <2>1
    <3>2. s[d + i] = q[d + i] /\ Upto(s, (d + i) - 1) = Upto(q, (d + i) - 1)
      BY <1>2, <1>3, <3>1
    <3>3. Taken(s, k, d + i) = Taken(q, k, d + i)
      BY <3>2 DEF Taken
    <3>4. Left(s, k)[d + i] = Left(q, k)[d + i]
      BY <2>0, <3>1, <3>2, <3>3 DEF Left
    <3>5. y[i] = x[i]
      BY <1>4, <2>0, <2>1, <3>4
    <3>. QED  BY <1>9, <2>1, <3>5
  <2>2. CASE i \in Len(x) + 1..Len(y)
    <3>. DEFINE j == i - Len(x)
    <3>1. j \in 1..Len(r) /\ i = Len(x) + j /\ d + i = Len(q) + j /\ j - 1 \in 0..Len(r)
      <4>1. i \in Nat /\ Len(x) + 1 <= i /\ i <= Len(x) + Len(r)
        BY <1>2, <1>9, <1>10, <2>2
      <4>2. Len(x) = Len(q) - d /\ d \in Nat
        BY <1>2, <1>4
      <4>. QED  BY <1>2, <1>9, <4>1, <4>2
    <3>2. (d + i) - 1 = Len(q) + (j - 1)
      BY <1>2, <3>1
    <3>. HIDE DEF j
    <3>3. Upto(s, (d + i) - 1) = Bytes(q) + Upto(r, j - 1) /\ Upto(r, j - 1) \in Nat
      BY <1>3, <3>1, <3>2, UptoIs
    <3>4. k <= Upto(s, (d + i) - 1)
      BY <1>1, <3>3
    <3>5. Left(s, k)[d + i] = s[d + i]
      <4>. DEFINE l == d + i
      <4>1. s \in Buffers /\ k \in Nat /\ l \in 1..Len(s) /\ k <= Upto(s, l - 1)
        BY <1>1, <1>2, <2>0, <3>4
      <4>. HIDE DEF l
      <4>2. Left(s, k)[l] = s[l]
        BY <4>1, LeftIs
      <4>. QED  BY <4>2 DEF l
    <3>6. s[d + i] = r[j]
      BY <1>2, <3>1
    <3>. QED  BY <1>9, <2>0, <3>1, <3>5, <3>6
  <2>. QED  BY <1>9, <1>10, <2>1, <2>2
<1>12. y = x \o r
  <2>. DEFINE w == x \o r
  <2>1. y \in Seq(Buffer) /\ w \in Seq(Buffer) /\ Len(y) = Len(w)
        /\ \A i \in 1..Len(y) : y[i] = w[i]
    BY <1>6, <1>9, <1>10, <1>11 DEF Buffers
  <2>. HIDE DEF w
  <2>2. y = w
    BY <2>1
  <2>. QED  BY <2>2 DEF w
<1>. QED  BY <1>12 DEF x, y, s

LEMMA OneFurther == \A f, i, u \in Nat : f + (i - u) = (f + ((i - 1) - u)) + 1
OBVIOUS

LEMMA Between == \A a, c, d, f \in Nat : a <= c /\ c <= d /\ d < f => a < f
OBVIOUS

\* What goes out of q: in order, from b, and without a gap if q has none
LEMMA SentFollows ==
  ASSUME NEW q \in Buffers, NEW k \in 0..Bytes(q), NEW b \in Nat, NEW n \in Nat, NEW e,
         Follows(q, b, e, n)
  PROVE  /\ \A i \in 1..k : Sent(q, k)[i][1] = e /\ b <= Sent(q, k)[i][2]
         /\ \A i \in 1..k : i > 1 => Sent(q, k)[i][2] > Sent(q, k)[i - 1][2]
         /\ Gapless(q, b) => \A i \in 1..k : Sent(q, k)[i][2] = b + i - 1
<1>. DEFINE s == Sent(q, k)
<1>0. Bytes(q) \in Nat /\ k \in Nat /\ k <= Bytes(q) /\ Len(q) \in Nat
  BY BytesNat, BuffersAre
<1>1. \A j \in 1..k : \E m \in 1..Len(q) : Place(q, j, m) /\ s[j] = ByteAt(q, j, m)
  BY SentIs
<1>. HIDE DEF s
<1>2. /\ \A i \in 1..Len(q) :
           /\ q[i].e = e /\ b <= q[i].from /\ q[i].to <= n
           /\ \A j \in i + 1..Len(q) : q[i].to <= q[j].from
  BY DEF Follows
<1>3. ASSUME NEW i \in 1..k, NEW m, Place(q, i, m), s[i] = ByteAt(q, i, m)
      PROVE  /\ m \in 1..Len(q) /\ s[i][1] = e /\ s[i][2] = Reach(q, i, m) - 1
             /\ q[m].from \in Nat /\ b <= q[m].from /\ q[m].to \in Nat
             /\ Reach(q, i, m) \in Nat /\ q[m].from < Reach(q, i, m) /\ Reach(q, i, m) <= q[m].to
  <2>1. m \in 1..Len(q) /\ i \in Nat
    BY <1>3 DEF Place
  <2>2. /\ Reach(q, i, m) \in Nat /\ q[m].from < Reach(q, i, m) /\ Reach(q, i, m) <= q[m].to
        /\ ByteAt(q, i, m) = <<q[m].e, Reach(q, i, m) - 1>>
    BY <1>3, <2>1, ReachIs
  <2>. QED  BY <1>2, <1>3, <2>1, <2>2, BuffersAre, BufferIs
<1>4. ASSUME NEW i \in 1..k PROVE s[i][1] = e /\ b <= s[i][2]
  <2>1. PICK m \in 1..Len(q) : Place(q, i, m) /\ s[i] = ByteAt(q, i, m)
    BY <1>1
  <2>. QED  BY <1>3, <2>1
<1>5. ASSUME NEW i \in 1..k, i > 1 PROVE s[i][2] > s[i - 1][2]
  <2>0. i - 1 \in 1..k /\ i - 1 \in Nat /\ i \in Nat
    BY <1>0, <1>5
  <2>1. PICK m \in 1..Len(q) : Place(q, i, m) /\ s[i] = ByteAt(q, i, m)
    BY <1>1
  <2>2. PICK l \in 1..Len(q) : Place(q, i - 1, l) /\ s[i - 1] = ByteAt(q, i - 1, l)
    BY <1>1, <2>0
  <2>3. s[i][2] = Reach(q, i, m) - 1 /\ s[i - 1][2] = Reach(q, i - 1, l) - 1
    BY <1>3, <2>0, <2>1, <2>2
  <2>4. /\ q[m].from \in Nat /\ Reach(q, i, m) \in Nat /\ q[m].from < Reach(q, i, m)
        /\ q[l].to \in Nat /\ Reach(q, i - 1, l) \in Nat /\ Reach(q, i - 1, l) <= q[l].to
    BY <1>3, <2>0, <2>1, <2>2
  <2>5. m \in 0..Len(q) /\ i - 1 <= Upto(q, m) /\ Upto(q, m - 1) \in Nat
    <3>1. m \in 0..Len(q) /\ m - 1 \in 0..Len(q)
      BY <1>0
    <3>2. Upto(q, m) \in Nat /\ i <= Upto(q, m)
      BY <2>1, <3>1, UptoIs DEF Place
    <3>. QED  BY <2>0, <3>1, <3>2, UptoIs
  <2>6. l <= m
    BY <2>0, <2>2, <2>5, PlaceOrder
  <2>7. CASE l = m
    <3>1. /\ Reach(q, i, m) = q[m].from + (i - Upto(q, m - 1))
          /\ Reach(q, i - 1, l) = q[m].from + ((i - 1) - Upto(q, m - 1))
      BY <2>7 DEF Reach
    <3>2. Reach(q, i, m) = Reach(q, i - 1, l) + 1
      <4>1. q[m].from + (i - Upto(q, m - 1)) = (q[m].from + ((i - 1) - Upto(q, m - 1))) + 1
        <5>1. q[m].from \in Nat /\ i \in Nat /\ Upto(q, m - 1) \in Nat
          BY <2>0, <2>4, <2>5
        <5>. QED  BY <5>1, OneFurther
      <4>. QED  BY <3>1, <4>1
    <3>3. Reach(q, i - 1, l) < Reach(q, i, m)
      BY <2>4, <3>2
    <3>. QED  BY <2>3, <2>4, <3>3
  <2>8. CASE l # m
    <3>1. m \in l + 1..Len(q)
      BY <2>6, <2>8
    <3>2. q[l].to <= q[m].from
      BY <1>2, <3>1
    <3>3. Reach(q, i - 1, l) < Reach(q, i, m)
      BY <2>4, <3>2, Between
    <3>. QED  BY <2>3, <2>4, <3>3
  <2>. QED  BY <2>7, <2>8
<1>6. ASSUME Gapless(q, b), NEW i \in 1..k PROVE s[i][2] = b + i - 1
  <2>1. PICK m \in 1..Len(q) : Place(q, i, m) /\ s[i] = ByteAt(q, i, m)
    BY <1>1
  <2>2. s[i][2] = Reach(q, i, m) - 1
    BY <1>3, <2>1
  <2>3. i \in 1..Bytes(q)
    BY <1>0
  <2>4. Reach(q, i, m) = b + i
    BY <1>6, <2>1, <2>3, RestGapless
  <2>. QED  BY <1>0, <2>2, <2>4
<1>. QED  BY <1>4, <1>5, <1>6 DEF s

\* autoPostSend moves the head of kSendList behind q.
LEMMA FilledIs ==
  ASSUME NEW q \in Buffers, kSendList \in Buffers
  PROVE  /\ Filled(q) \in Buffers /\ Unfilled(q) \in Buffers
         /\ Filled(q) \o Unfilled(q) = q \o kSendList
         /\ Filled(q) = <<>> => q = <<>> /\ Unfilled(q) = <<>>
<1>. DEFINE z == Max({0, BufNum - Len(q)})
            m == Min({z, Len(kSendList)})
            h == SubSeq(kSendList, 1, m)
            u == SubSeq(kSendList, m + 1, Len(kSendList))
<1>1. Len(q) \in Nat /\ Len(kSendList) \in Nat /\ BufNum \in Nat \ {0}
  BY BuffersAre, SendAssumption
<1>2. z = (IF 0 <= BufNum - Len(q) THEN BufNum - Len(q) ELSE 0) /\ z \in Nat
  <2>1. 0 \in Int /\ BufNum - Len(q) \in Int
    BY <1>1
  <2>2. z = IF 0 <= BufNum - Len(q) THEN BufNum - Len(q) ELSE 0
    BY <2>1, MinMaxIs
  <2>. QED  BY <2>1, <2>2
<1>. HIDE DEF z
<1>3. m = (IF z <= Len(kSendList) THEN z ELSE Len(kSendList))
  <2>1. z \in Int /\ Len(kSendList) \in Int
    BY <1>1, <1>2
  <2>. QED  BY <2>1, MinMaxIs
<1>. HIDE DEF m
<1>4. m \in 0..Len(kSendList)
  BY <1>1, <1>2, <1>3
<1>5. h \in Seq(Buffer) /\ u \in Seq(Buffer) /\ Len(h) = m /\ Len(u) = Len(kSendList) - m
  BY <1>1, <1>4 DEF Buffers
<1>6. h \o u = kSendList
  <2>1. /\ kSendList \in Seq(Buffer) /\ 1 \in 1..Len(kSendList) + 1
        /\ m \in 1 - 1..Len(kSendList) /\ Len(kSendList) \in m..Len(kSendList)
    BY <1>1, <1>4 DEF Buffers
  <2>2. h \o u = SubSeq(kSendList, 1, Len(kSendList))
    BY <2>1, ConcatAdjacentSubSeq
  <2>3. SubSeq(kSendList, 1, Len(kSendList)) = kSendList
    BY <2>1, SubSeqFull
  <2>. QED  BY <2>2, <2>3
<1>7. Filled(q) = q \o h /\ Unfilled(q) = u
  BY DEF Filled, Unfilled, m, z
<1>. HIDE DEF h, u
<1>8. (q \o h) \o u = q \o (h \o u)
  <2>1. q \in Seq(Buffer)
    BY DEF Buffers
  <2>. QED  BY <1>5, <2>1, ConcatAssociative
<1>9. q \o h \in Buffers /\ u \in Buffers /\ Len(q \o h) = Len(q) + m
  BY <1>5, ConcatProperties DEF Buffers
<1>10. ASSUME q \o h = <<>> PROVE q = <<>> /\ u = <<>>
  <2>1. Len(q \o h) = 0
    BY <1>10
  <2>2. Len(q) = 0 /\ m = 0
    BY <1>1, <1>4, <1>9, <2>1
  <2>3. Len(kSendList) = 0
    BY <1>1, <1>2, <1>3, <2>2
  <2>. QED  BY <1>5, <2>2, <2>3 DEF Buffers
<1>. QED  BY <1>6, <1>7, <1>8, <1>9, <1>10

-----------------------------------------------------------------------------
(* Whose turn it is: what a handler may use                                 *)

Fields == {"at", "op", "last", "sent", "err", "back"}

\* The records of the threads, and where handError goes on
Records ==
  /\ DOMAIN th = Threads
  /\ \A t \in Threads : DOMAIN th[t] = Fields /\ th[t].back \in {"idle", "undo"}

Clearing == {"init", "clear"}

\* Whose turn it is with the connection
Turns ==
  /\ bEnable => conn = "up" /\ disc = "none" /\ ~ pooled
  /\ disc = "posted" => conn = "closing" /\ ~ pooled
  /\ disc = "failed" => conn = "up" /\ ~ pooled
  /\ pooled => conn \in {"none", "stuck"} /\ disc = "none"
  /\ \A t \in Threads :
       /\ At(t, "postDisc") => ~ bEnable /\ conn = "up" /\ disc = "none"
       /\ th[t].at \in Clearing => conn \in {"none", "stuck"} /\ disc = "none" /\ ~ pooled
  /\ \A t, u \in Threads :
       /\ At(t, "postDisc") /\ At(u, "postDisc") => t = u
       /\ th[t].at \in Clearing /\ th[u].at \in Clearing => t = u

\* What a handler may use
Usable ==
  /\ pkCkListen => Accepted
  /\ \A t \in Threads : At(t, "add") => Accepted
  /\ conn \in {"up", "closing"} =>
       /\ kFunOnSend /\ pkCkListen = Accepted
       /\ \A t \in Threads : ~ At(t, "crash")

SInv == Records /\ Turns /\ Usable

-----------------------------------------------------------------------------
(* Moves of one thread                                                      *)

Moves(t) == \A u \in Threads : u # t => th'[u] = th[u]

LEMMA BecomeIs ==
  ASSUME Records, NEW t \in Threads, NEW r, Become(t, r)
  PROVE  th'[t] = r /\ Moves(t) /\ DOMAIN th' = Threads
BY DEF Records, Become, Moves

LEMMA IdleIs == DOMAIN Idle = Fields /\ Idle.back = "idle" /\ Idle.at = "idle"
BY DEF Idle, Fields

\* Where th[t] keeps its form
Formed(t) == DOMAIN th'[t] = Fields /\ th'[t].back \in {"idle", "undo"}

LEMMA MoveIs ==
  ASSUME Records, NEW t \in Threads, NEW p, Become(t, [th[t] EXCEPT !.at = p])
  PROVE  th'[t].at = p /\ Formed(t) /\ Moves(t) /\ DOMAIN th' = Threads
<1>1. th'[t] = [th[t] EXCEPT !.at = p] /\ Moves(t) /\ DOMAIN th' = Threads
  BY BecomeIs
<1>2. DOMAIN th[t] = Fields /\ th[t].back \in {"idle", "undo"}
  BY DEF Records
<1>. QED  BY <1>1, <1>2 DEF Formed, Fields

LEMMA GotoIs ==
  ASSUME Records, NEW t \in Threads, NEW p, Goto(t, p)
  PROVE  th'[t].at = p /\ Formed(t) /\ Moves(t) /\ DOMAIN th' = Threads
<1>1. /\ th'[t] = IF p = "idle" THEN Idle ELSE [th[t] EXCEPT !.at = p, !.back = "idle"]
      /\ Moves(t) /\ DOMAIN th' = Threads
  BY BecomeIs DEF Goto
<1>2. DOMAIN th[t] = Fields
  BY DEF Records
<1>. QED  BY <1>1, <1>2, IdleIs DEF Formed, Fields

LEMMA EndSendIs ==
  ASSUME Records, NEW t \in Threads, EndSend(t)
  PROVE  th'[t].at \in {"error", "idle"} /\ Formed(t) /\ Moves(t) /\ DOMAIN th' = Threads
<1>1. /\ th'[t] = Idle \/ th'[t] = [Idle EXCEPT !.at = "error"]
      /\ Moves(t) /\ DOMAIN th' = Threads
  BY BecomeIs DEF EndSend
<1>. QED  BY <1>1 DEF Formed, Fields, Idle

Ordinary == {"idle", "post", "auto", "repost", "undo", "error", "count", "test", "call"}

\* A step within sending leaves everything to whose turn it is.
LEMMA SendingKeeps ==
  ASSUME SInv, NEW t \in Threads, Moves(t), DOMAIN th' = Threads, Formed(t),
         th'[t].at \in Ordinary \/ (th'[t].at = "add" /\ pkCkListen)
           \/ (th'[t].at = "crash" /\ conn \notin {"up", "closing"}),
         UNCHANGED <<bEnable, conn, disc, pooled, kFunOnSend, pkCkListen>>
  PROVE  SInv'
<1>1. Records'
  BY DEF SInv, Records, Formed, Moves
<1>2. Turns'
  BY DEF SInv, Turns, Moves, At, Clearing, Ordinary
<1>3. Usable'
  BY DEF SInv, Usable, Moves, At, Ordinary
<1>. QED  BY <1>1, <1>2, <1>3 DEF SInv

-----------------------------------------------------------------------------
(* The steps                                                                *)

LEMMA ReqSendKeeps ==
  ASSUME SInv, NEW t \in Threads, NEW n \in Lens, ReqSend(t, n) PROVE SInv'
<1>0. Records
  BY DEF SInv
<1>1. CASE ReqSendPosts(t, n)
  <2>1. /\ Become(t, [Idle EXCEPT !.at = "post", !.op = <<Chunk(n)>>])
        /\ UNCHANGED <<bEnable, conn, disc, pooled, kFunOnSend, pkCkListen>>
    BY <1>1 DEF ReqSendPosts, tellVars
  <2>2. /\ th'[t] = [Idle EXCEPT !.at = "post", !.op = <<Chunk(n)>>]
        /\ Moves(t) /\ DOMAIN th' = Threads
    BY <1>0, <2>1, BecomeIs
  <2>3. th'[t].at = "post" /\ Formed(t)
    BY <2>2 DEF Formed, Fields, Idle
  <2>. QED  BY <2>1, <2>2, <2>3, SendingKeeps DEF Ordinary
<1>2. CASE ReqSendQueues(t, n)
  BY <1>2 DEF ReqSendQueues, tellVars, SInv, Records, Turns, Usable, At
<1>3. CASE ReqSendOverflow(t, n)
  <2>1. /\ bEnable /\ bEnable' = FALSE /\ UNCHANGED <<pooled, th, kFunOnSend, pkCkListen>>
        /\ \/ disc' = "posted" /\ conn' = "closing"
           \/ disc' = "failed" /\ UNCHANGED conn
    BY <1>3 DEF ReqSendOverflow, MaySend, PostDisc, tellVars
  <2>2. Records' /\ Usable'
    BY <2>1 DEF SInv, Records, Turns, Usable, At
  <2>3. Turns'
    BY <2>1 DEF SInv, Turns, At
  <2>. QED  BY <2>2, <2>3 DEF SInv
<1>. QED  BY <1>1, <1>2, <1>3 DEF ReqSend

LEMMA CompleteSendKeeps ==
  ASSUME SInv, NEW t \in Threads, NEW i, NEW k, CompleteSend(t, i, k) PROVE SInv'
<1>0. Records
  BY DEF SInv
<1>. DEFINE r == [Idle EXCEPT !.at = IF k = 0 THEN "auto" ELSE "count", !.op = Rest(ops[i], k),
                              !.last = k, !.sent = Sent(ops[i], k), !.err = (k = 0)]
<1>1. Become(t, r) /\ UNCHANGED <<bEnable, conn, disc, pooled, kFunOnSend, pkCkListen>>
  BY DEF CompleteSend, tellVars
<1>2. r.at \in {"auto", "count"} /\ DOMAIN r = Fields /\ r.back = "idle"
  BY DEF Idle, Fields
<1>. HIDE DEF r
<1>3. th'[t] = r /\ Moves(t) /\ DOMAIN th' = Threads
  BY <1>0, <1>1, BecomeIs
<1>. QED  BY <1>1, <1>2, <1>3, SendingKeeps DEF Ordinary, Formed

LEMMA TellKeeps ==
  ASSUME SInv, NEW t \in Threads,
         TestListen(t) \/ UseListen(t) \/ TestFunOnSend(t) \/ CallFunOnSend(t)
           \/ CallEmptyFunOnSend(t)
  PROVE  SInv'
<1>0. Records
  BY DEF SInv
<1>1. UNCHANGED <<bEnable, conn, disc, pooled, kFunOnSend, pkCkListen>>
  BY DEF TestListen, UseListen, TestFunOnSend, CallFunOnSend, CallEmptyFunOnSend, Proceed
<1>2. CASE CallFunOnSend(t)
  <2>1. /\ th'[t] = [th[t] EXCEPT !.at = "auto", !.sent = <<>>]
        /\ Moves(t) /\ DOMAIN th' = Threads
    BY <1>0, <1>2, BecomeIs DEF CallFunOnSend
  <2>2. DOMAIN th[t] = Fields /\ th[t].back \in {"idle", "undo"}
    BY <1>0 DEF Records
  <2>3. th'[t].at = "auto" /\ Formed(t)
    BY <2>1, <2>2 DEF Formed, Fields
  <2>. QED  BY <1>1, <2>1, <2>3, SendingKeeps DEF Ordinary
<1>3. ASSUME NEW p, Become(t, [th[t] EXCEPT !.at = p]),
             p \in Ordinary \/ (p = "add" /\ pkCkListen) \/ (p = "crash" /\ conn \notin {"up", "closing"})
      PROVE  SInv'
  BY <1>0, <1>1, <1>3, MoveIs, SendingKeeps
<1>4. CASE TestListen(t) \/ TestFunOnSend(t)
  BY <1>3, <1>4 DEF TestListen, TestFunOnSend, Proceed, Ordinary
<1>5. CASE UseListen(t)
  <2>1. pkCkListen \/ conn \notin {"up", "closing"}
    BY <1>5 DEF UseListen, SInv, Usable
  <2>. QED  BY <1>3, <1>5, <2>1 DEF UseListen, Proceed, Ordinary
<1>6. CASE CallEmptyFunOnSend(t)
  <2>1. conn \notin {"up", "closing"}
    BY <1>6 DEF CallEmptyFunOnSend, SInv, Usable
  <2>. QED  BY <1>3, <1>6, <2>1 DEF CallEmptyFunOnSend, Proceed
<1>. QED  BY <1>2, <1>4, <1>5, <1>6

LEMMA PostingKeeps ==
  ASSUME SInv, NEW t \in Threads,
         PostSend(t) \/ PostSendFails(t) \/ Undo(t) \/ AutoPostSend(t)
           \/ AutoPostSendDisabled(t) \/ Repost(t) \/ RepostFails(t)
  PROVE  SInv'
<1>0. Records /\ DOMAIN th[t] = Fields /\ th[t].back \in {"idle", "undo"}
  BY DEF SInv, Records
<1>1. UNCHANGED <<bEnable, conn, disc, pooled, kFunOnSend, pkCkListen>>
  BY DEF PostSend, PostSendFails, Undo, AutoPostSend, AutoPostSendDisabled, Repost, RepostFails,
     tellVars
<1>2. CASE EndSend(t)
  BY <1>0, <1>1, <1>2, EndSendIs, SendingKeeps DEF Ordinary
<1>3. CASE Become(t, Idle)
  BY <1>0, <1>1, <1>3, BecomeIs, IdleIs, SendingKeeps DEF Ordinary, Formed
<1>4. ASSUME NEW r, Become(t, r), DOMAIN r = Fields, r.back \in {"idle", "undo"},
             r.at \in Ordinary
      PROVE  SInv'
  BY <1>0, <1>1, <1>4, BecomeIs, SendingKeeps DEF Formed
<1>5. CASE PostSendFails(t)
  <2>1. Become(t, [th[t] EXCEPT !.at = "error", !.back = "undo"])
    BY <1>5 DEF PostSendFails
  <2>. DEFINE r == [th[t] EXCEPT !.at = "error", !.back = "undo"]
  <2>2. DOMAIN r = Fields /\ r.back = "undo" /\ r.at \in Ordinary
    BY <1>0 DEF Fields, Ordinary
  <2>. QED  BY <1>4, <2>1, <2>2
<1>6. CASE RepostFails(t)
  <2>1. Become(t, [th[t] EXCEPT !.at = "undo", !.err = TRUE])
    BY <1>6 DEF RepostFails
  <2>. DEFINE r == [th[t] EXCEPT !.at = "undo", !.err = TRUE]
  <2>2. DOMAIN r = Fields /\ r.back \in {"idle", "undo"} /\ r.at \in Ordinary
    BY <1>0 DEF Fields, Ordinary
  <2>. QED  BY <1>4, <2>1, <2>2
<1>7. CASE AutoPostSend(t)
  <2>. DEFINE r == [th[t] EXCEPT !.at = "repost", !.op = Filled(th[t].op), !.last = 0]
  <2>1. EndSend(t) \/ Become(t, r)
    BY <1>7 DEF AutoPostSend
  <2>2. DOMAIN r = Fields /\ r.back \in {"idle", "undo"} /\ r.at \in Ordinary
    BY <1>0 DEF Fields, Ordinary
  <2>. QED  BY <1>2, <1>4, <2>1, <2>2
<1>. QED  BY <1>2, <1>3, <1>5, <1>6, <1>7 DEF PostSend, Undo, AutoPostSendDisabled, Repost

\* The thread that finds bEnable true goes on to post the DisconnectEx.
LEMMA DisableKeeps ==
  ASSUME SInv, NEW t \in Threads, NEW b \in {"idle", "undo"}, Disable(t, b),
         UNCHANGED <<conn, disc, pooled, kFunOnSend, pkCkListen>>
  PROVE  SInv'
<1>1. /\ bEnable /\ bEnable' = FALSE
      /\ th'[t] = [th[t] EXCEPT !.at = "postDisc", !.back = b]
      /\ Moves(t) /\ DOMAIN th' = Threads /\ DOMAIN th[t] = Fields
  BY BecomeIs DEF SInv, Disable, Records
<1>2. th'[t].at = "postDisc" /\ Formed(t)
  BY <1>1 DEF Formed, Fields
<1>3. Records' /\ Usable'
  BY <1>1, <1>2 DEF SInv, Records, Usable, Formed, Moves, At
<1>4. Turns'
  BY <1>1, <1>2 DEF SInv, Turns, Moves, At, Clearing
<1>. QED  BY <1>3, <1>4 DEF SInv

LEMMA HandErrorKeeps ==
  ASSUME SInv, NEW t \in Threads, HandError(t) PROVE SInv'
<1>1. /\ Records /\ th[t].back \in {"idle", "undo"}
      /\ UNCHANGED <<conn, disc, pooled, kFunOnSend, pkCkListen>>
  BY DEF SInv, Records, HandError, tellVars
<1>2. CASE Disable(t, th[t].back)
  BY <1>1, <1>2, DisableKeeps
<1>3. CASE Goto(t, th[t].back) /\ UNCHANGED bEnable
  BY <1>1, <1>3, GotoIs, SendingKeeps DEF Ordinary
<1>. QED  BY <1>2, <1>3 DEF HandError

LEMMA PostDisconnectKeeps ==
  ASSUME SInv, NEW t \in Threads, PostDisconnect(t) PROVE SInv'
<1>1. /\ Records /\ th[t].back \in {"idle", "undo"} /\ th[t].at = "postDisc"
      /\ UNCHANGED <<bEnable, pooled, kFunOnSend, pkCkListen>>
      /\ \/ disc' = "posted" /\ conn' = "closing"
         \/ disc' = "failed" /\ UNCHANGED conn
  BY DEF SInv, Records, PostDisconnect, PostDisc, tellVars, At
<1>2. th'[t].at \in {"idle", "undo"} /\ Formed(t) /\ Moves(t) /\ DOMAIN th' = Threads
  BY <1>1, GotoIs DEF PostDisconnect
<1>3. ~ bEnable /\ conn = "up" /\ ~ pooled
  BY <1>1 DEF SInv, Turns, At
<1>4. Records' /\ Usable'
  BY <1>1, <1>2, <1>3 DEF SInv, Records, Usable, Formed, Moves, At
<1>5. Turns'
  BY <1>1, <1>2, <1>3 DEF SInv, Turns, Moves, At, Clearing
<1>. QED  BY <1>4, <1>5 DEF SInv

LEMMA CompleteDisconnectKeeps ==
  ASSUME SInv, NEW t \in Threads, CompleteDisconnect(t) PROVE SInv'
<1>1. /\ Records /\ disc = "posted" /\ disc' = "none" /\ conn' \in {"none", "stuck"}
      /\ Become(t, [Idle EXCEPT !.at = "init"])
      /\ UNCHANGED <<bEnable, pooled, kFunOnSend, pkCkListen>>
  BY DEF SInv, CompleteDisconnect, tellVars
<1>2. th'[t] = [Idle EXCEPT !.at = "init"] /\ Moves(t) /\ DOMAIN th' = Threads
  BY <1>1, BecomeIs
<1>3. th'[t].at = "init" /\ Formed(t)
  BY <1>2 DEF Formed, Fields, Idle
<1>4. /\ ~ bEnable /\ ~ pooled
      /\ \A u \in Threads : th[u].at \notin Clearing \cup {"postDisc"}
  BY <1>1 DEF SInv, Turns, At, Clearing
<1>5. Records' /\ Usable'
  BY <1>1, <1>2, <1>3 DEF SInv, Records, Usable, Formed, Moves, At
<1>6. \A u \in Threads : /\ th'[u].at # "postDisc"
                         /\ th'[u].at \in Clearing => u = t
  BY <1>2, <1>3, <1>4 DEF Moves
<1>7. Turns'
  BY <1>1, <1>4, <1>6 DEF Turns, At
<1>. QED  BY <1>5, <1>7 DEF SInv

\* init(), when the connection is gone
LEMMA ClearingKeeps ==
  ASSUME SInv, NEW t \in Threads, InitFunctions(t) \/ HandDisconnect(t) PROVE SInv'
<1>1. /\ Records /\ th[t].at \in Clearing /\ conn \in {"none", "stuck"} /\ disc = "none"
      /\ ~ pooled
  BY DEF SInv, InitFunctions, HandDisconnect, At, Clearing, Turns
<1>2. ~ bEnable /\ \A u \in Threads : /\ th[u].at # "postDisc"
                                      /\ u # t => th[u].at \notin Clearing
  BY <1>1 DEF SInv, Turns, At
<1>3. CASE InitFunctions(t)
  <2>1. /\ th'[t].at = "clear" /\ Formed(t) /\ Moves(t) /\ DOMAIN th' = Threads
        /\ UNCHANGED <<bEnable, conn, disc, pooled, pkCkListen>>
    BY <1>1, <1>3, GotoIs DEF InitFunctions
  <2>2. Records' /\ Usable'
    BY <1>1, <2>1 DEF SInv, Records, Usable, Formed, Moves, At
  <2>3. Turns'
    BY <1>1, <1>2, <2>1 DEF Turns, Moves, At, Clearing
  <2>. QED  BY <2>2, <2>3 DEF SInv
<1>4. CASE HandDisconnect(t)
  <2>1. /\ th'[t] = Idle /\ Moves(t) /\ DOMAIN th' = Threads
        /\ bEnable' = FALSE /\ pooled' = TRUE /\ pkCkListen' = FALSE
        /\ UNCHANGED <<conn, disc, kFunOnSend>>
    BY <1>1, <1>4, BecomeIs DEF HandDisconnect
  <2>2. Records' /\ Usable'
    BY <1>1, <2>1, IdleIs DEF SInv, Records, Usable, Moves, At
  <2>3. Turns'
    BY <1>1, <1>2, <2>1, IdleIs DEF Turns, Moves, At, Clearing
  <2>. QED  BY <2>2, <2>3 DEF SInv
<1>. QED  BY <1>3, <1>4

LEMMA ReuseKeeps == ASSUME SInv, Reuse PROVE SInv'
<1>1. /\ pooled /\ pooled' = FALSE /\ conn' = "up" /\ bEnable' = TRUE /\ kFunOnSend' = TRUE
      /\ pkCkListen' = Accepted /\ UNCHANGED <<disc, th>>
      /\ \A t \in Threads : th[t].at = "idle"
  BY DEF Reuse, At
<1>2. disc = "none"
  BY <1>1 DEF SInv, Turns
<1>3. Records' /\ Usable'
  BY <1>1, SendAssumption DEF SInv, Records, Usable, At
<1>4. Turns'
  BY <1>1, <1>2 DEF Turns, At, Clearing
<1>. QED  BY <1>3, <1>4 DEF SInv

LEMMA SInit == Init => SInv
<1>. SUFFICES ASSUME Init PROVE SInv
  OBVIOUS
<1>1. \A t \in Threads : th[t] = Idle
  BY DEF Init
<1>2. Records /\ Turns
  BY <1>1, IdleIs DEF Init, Records, Turns, At, Clearing
<1>3. Usable
  BY <1>1, IdleIs, SendAssumption DEF Init, Usable, At
<1>. QED  BY <1>2, <1>3 DEF SInv

LEMMA SInductive == SInv /\ [Next]_vars => SInv'
<1>. SUFFICES ASSUME SInv, [Next]_vars PROVE SInv'
  OBVIOUS
<1>1. ASSUME NEW t \in Threads, Step(t) PROVE SInv'
  BY <1>1, TellKeeps, PostingKeeps, HandErrorKeeps, PostDisconnectKeeps, ClearingKeeps DEF Step
<1>2. ASSUME NEW t \in Threads, Completed(t) PROVE SInv'
  BY <1>2, CompleteSendKeeps DEF Completed
<1>3. ASSUME NEW t \in Threads, ReqDisconnect(t) PROVE SInv'
  BY <1>3, DisableKeeps DEF ReqDisconnect, tellVars
<1>4. CASE UNCHANGED vars
  BY <1>4 DEF vars, tellVars, SInv, Records, Turns, Usable, At
<1>. QED  BY <1>1, <1>2, <1>3, <1>4, ReqSendKeeps, CompleteDisconnectKeeps, ReuseKeeps DEF Next

\* As long as there is a connection, what handSend found set is set when it is
\* used, and no handler takes the process down, for any number of threads,
\* messages and connections.
THEOREM NothingTakenWhileConnected == Spec => []SetWhileConnected
<1>1. SInv => SetWhileConnected
  BY DEF SInv, Usable, SetWhileConnected, At
<1>. QED  BY <1>1, SInit, SInductive, PTL DEF Spec

-----------------------------------------------------------------------------
(* The invariant                                                            *)

Queued == Buffers \ {<<>>}

\* The record of a thread.  One that has to post, or to take a refused WSASend
\* off the counter, has nothing else to take off; one that comes from the kernel
\* has something to do.
Fits(r) ==
  /\ r.back = "undo" => r.at \in {"error", "postDisc"}
  /\ r.at \in {"post", "repost", "undo"} \/ r.back = "undo" => r.last = 0 /\ r.op # <<>>
  /\ r.at \in Telling => r.last > 0
  /\ r.at = "auto" => r.last > 0 \/ r.op # <<>>

Record == [at : Places, op : Buffers, last : 0..MaxNext, sent : Seq(Byte), err : BOOLEAN,
           back : {"idle", "undo"}]
Thread == {r \in Record : Fits(r)}

Typed ==
  /\ bEnable \in BOOLEAN /\ pooled \in BOOLEAN /\ failed \in BOOLEAN /\ settled \in BOOLEAN
  /\ szSendBytes \in 0..SizeMod - 1
  /\ kSendList \in Buffers /\ ops \in Seq(Queued)
  /\ conn \in {"none", "up", "closing", "stuck"} /\ disc \in {"none", "posted", "failed"}
  /\ th \in [Threads -> Thread]
  /\ epoch \in 1..MaxEpoch /\ next \in 0..MaxNext
  /\ wire \in Seq(Byte) /\ told \in Seq(Byte)
  /\ kFunOnSend \in BOOLEAN /\ pkCkListen \in BOOLEAN

\* A refused WSASend leads to handError, or the socket is disabled already.
Undoing ==
  \A t \in Threads :
    /\ At(t, "undo") \/ th[t].back = "undo" => failed
    /\ At(t, "undo") /\ ~ th[t].err => ~ bEnable

\* What is gone with the connection
Quiet ==
  /\ conn = "none" => ops = <<>>
  /\ pooled => ~ kFunOnSend
  /\ pooled /\ conn = "none" =>
       /\ kSendList = <<>> /\ wire = <<>> /\ told = <<>>
       /\ settled => szSendBytes = 0 /\ \A t \in Threads : ~ Owes(t)
  /\ \A t \in Threads : At(t, "clear") => ~ kFunOnSend
  /\ kFunOnSend => pkCkListen = Accepted

\* Where the bytes end that went out
End == IF wire = <<>> THEN 0 ELSE wire[Len(wire)][2] + 1

\* The unsent bytes are the l that handSend has to take off the counter yet, the
\* buffers q, and kSendList behind them.
Good(q, l) ==
  /\ bEnable => szSendBytes = l + Bytes(q \o kSendList) /\ szSendBytes <= SendMax
  /\ Follows(q \o kSendList, End, epoch, next)
  /\ ~ failed /\ (bEnable \/ q # <<>>) => Gapless(q \o kSendList, End)
  /\ ~ failed /\ bEnable => next = End + Bytes(q \o kSendList)

\* One at most has them, the kernel or a thread.
Carries(q, l) ==
  \/ q = <<>> /\ l = 0 /\ ops = <<>> /\ \A t \in Threads : ~ Owes(t)
  \/ l = 0 /\ ops = <<q>> /\ \A t \in Threads : ~ Owes(t)
  \/ \E t \in Threads : /\ th[t].op = q /\ th[t].last = l /\ ops = <<>>
                        /\ Owes(t) /\ \A u \in Threads : u # t => ~ Owes(u)

Carried == settled => \E q \in Buffers, l \in 0..MaxNext : Carries(q, l) /\ Good(q, l)

\* The bytes that are accounted for were accepted.
Kept == Bytes(kSendList) + InKernel(ops) + InHands(Shares)

Sound ==
  /\ Typed /\ Undoing /\ Quiet /\ Carried /\ Kept <= next
  /\ StreamIntact /\ NotStranded /\ ToldInOrder

Ind == SInv /\ Sound

-----------------------------------------------------------------------------
(* Records                                                                  *)

Owing(r)   == r.at \in Telling \cup {"post", "auto", "repost", "undo"} \/ r.back = "undo"
Holding(r) == IF Owing(r) THEN r.last + Bytes(r.op) ELSE 0

LEMMA RecordIs ==
  ASSUME NEW r \in Thread
  PROVE  /\ r.at \in Places /\ r.op \in Buffers /\ r.last \in 0..MaxNext /\ r.last \in Nat
         /\ r.sent \in Seq(Byte) /\ r.err \in BOOLEAN /\ r.back \in {"idle", "undo"}
         /\ Fits(r) /\ Holding(r) \in Nat
         /\ r \in Record
<1>1. r \in Record /\ Fits(r) /\ MaxNext \in Nat
  BY SendAssumption DEF Thread
<1>2. /\ r.at \in Places /\ r.op \in Buffers /\ r.last \in 0..MaxNext /\ r.last \in Nat
      /\ r.sent \in Seq(Byte) /\ r.err \in BOOLEAN /\ r.back \in {"idle", "undo"}
  BY <1>1 DEF Record
<1>4. Holding(r) \in Nat
  BY <1>2, BytesNat DEF Holding
<1>. QED  BY <1>1, <1>2, <1>4

LEMMA IdleThread ==
  /\ Idle \in Thread /\ [Idle EXCEPT !.at = "error"] \in Thread
  /\ [Idle EXCEPT !.at = "init"] \in Thread
  /\ \A p \in {"idle", "error", "init"} : ~ Owing([Idle EXCEPT !.at = p])
  /\ ~ Owing(Idle)
<1>1. MaxNext \in Nat /\ <<>> \in Buffers /\ <<>> \in Seq(Byte)
  BY SendAssumption DEF Buffers
<1>2. ASSUME NEW p \in {"idle", "error", "init"}
      PROVE  /\ [Idle EXCEPT !.at = p] \in Thread /\ ~ Owing([Idle EXCEPT !.at = p])
  <2>. DEFINE r == [Idle EXCEPT !.at = p]
  <2>a. p \in Places /\ "idle" \in Places /\ 0 \in 0..MaxNext
    BY <1>1 DEF Places
  <2>b. Idle \in Record
    BY <1>1, <2>a DEF Idle, Record
  <2>c. r \in Record
    BY <2>a, <2>b DEF Record
  <2>1. /\ r \in Record /\ r.at = p /\ r.op = <<>> /\ r.last = 0 /\ r.sent = <<>>
        /\ r.err = FALSE /\ r.back = "idle"
    BY <2>c DEF Idle
  <2>. HIDE DEF r
  <2>2. Fits(r) /\ ~ Owing(r)
    BY <2>1 DEF Fits, Telling, Owing
  <2>4. r \in Thread
    BY <2>1, <2>2 DEF Thread
  <2>. QED  BY <2>2, <2>4 DEF r
<1>3. Idle = [Idle EXCEPT !.at = "idle"]
  BY DEF Idle
<1>. QED  BY <1>2, <1>3

LEMMA OwesIs == \A t \in Threads : Owes(t) <=> Owing(th[t])
BY DEF Owes, Owing

LEMMA SharesAre ==
  ASSUME th \in [Threads -> Thread]
  PROVE  Counts(Shares, Threads) /\ \A t \in Threads : Shares[t] = Holding(th[t])
<1>1. ASSUME NEW t \in Threads PROVE Shares[t] = Holding(th[t]) /\ Holding(th[t]) \in Nat
  BY RecordIs DEF Shares, Held, Holding, Owes, Owing
<1>. QED  BY <1>1 DEF Counts

\* One thread moves.
Turn(t) == th \in [Threads -> Thread] /\ th' \in [Threads -> Thread] /\ Moves(t)

LEMMA TurnIs ==
  ASSUME th \in [Threads -> Thread], NEW t \in Threads, NEW r \in Thread, Become(t, r)
  PROVE  Turn(t) /\ th'[t] = r
BY DEF Become, Turn, Moves

LEMMA HandsMove ==
  ASSUME NEW t \in Threads, Turn(t)
  PROVE  /\ InHands(Shares)' + Holding(th[t]) = InHands(Shares) + Holding(th'[t])
         /\ InHands(Shares) \in Nat /\ InHands(Shares)' \in Nat
         /\ Holding(th[t]) \in Nat /\ Holding(th'[t]) \in Nat
<1>1. Counts(Shares, Threads) /\ \A u \in Threads : Shares[u] = Holding(th[u])
  BY SharesAre DEF Turn
<1>2. Counts(Shares', Threads) /\ \A u \in Threads : Shares'[u] = Holding(th'[u])
  <2>1. ASSUME NEW u \in Threads PROVE Shares'[u] = Holding(th'[u]) /\ Holding(th'[u]) \in Nat
    BY RecordIs DEF Turn, Shares, Held, Holding, Owes, Owing
  <2>. QED  BY <2>1 DEF Counts
<1>3. \A u \in Threads : u # t => Shares'[u] = Shares[u]
  BY <1>1, <1>2 DEF Turn, Moves
<1>4. InHands(Shares') + Shares[t] = InHands(Shares) + Shares'[t]
  BY <1>1, <1>2, <1>3, InHandsMoves
<1>5. InHands(Shares)' = InHands(Shares')
  BY DEF InHands
<1>6. InHands(Shares) \in Nat /\ InHands(Shares') \in Nat
  BY <1>1, <1>2, InHandsIs
<1>7. Holding(th[t]) \in Nat /\ Holding(th'[t]) \in Nat
  BY RecordIs DEF Turn
<1>. QED  BY <1>1, <1>2, <1>4, <1>5, <1>6, <1>7

-----------------------------------------------------------------------------
(* The counter, as long as it does not wrap                                 *)

LEMMA ModSmall == ASSUME NEW M \in Nat, NEW a \in Nat, a < M PROVE a % M = a
OBVIOUS

LEMMA ModOnce == ASSUME NEW M \in Nat, NEW a \in Nat, a < M PROVE (a + M) % M = a
OBVIOUS

LEMMA PlusIs ==
  ASSUME NEW a \in Nat, NEW b \in Nat, a + b < SizeMod
  PROVE  Plus(a, b) = a + b
BY SendAssumption, ModSmall DEF Plus

LEMMA MinusIs ==
  ASSUME NEW a \in Nat, NEW b \in Nat, a < SizeMod, b <= a
  PROVE  Minus(a, b) = a - b
<1>1. SizeMod \in Nat /\ b % SizeMod = b
  BY SendAssumption, ModSmall
<1>2. a - b \in Nat /\ a - b < SizeMod /\ a + SizeMod - b = (a - b) + SizeMod
  BY <1>1
<1>3. ((a - b) + SizeMod) % SizeMod = a - b
  BY <1>1, <1>2, ModOnce
<1>. QED  BY <1>1, <1>2, <1>3 DEF Minus

-----------------------------------------------------------------------------
(* What keeps the parts of the invariant                                    *)

LEMMA EndIs ==
  ASSUME wire \in Seq(Byte)
  PROVE  End \in Nat /\ \A w \in Seq(Byte) : w # <<>> => w[Len(w)][2] \in Nat
<1>1. ASSUME NEW w \in Seq(Byte), w # <<>> PROVE w[Len(w)][2] \in Nat
  <2>1. Len(w) \in 1..Len(w)
    BY <1>1
  <2>2. w[Len(w)] \in (1..MaxEpoch) \X (0..MaxNext)
    BY <2>1 DEF Byte
  <2>. QED  BY <2>2, SendAssumption
<1>2. CASE wire = <<>>
  BY <1>1, <1>2 DEF End
<1>3. CASE wire # <<>>
  <2>1. wire[Len(wire)][2] \in Nat
    BY <1>1, <1>3
  <2>. QED  BY <1>1, <1>3, <2>1 DEF End
<1>. QED  BY <1>2, <1>3

LEMMA GoodKeeps ==
  ASSUME NEW q, NEW l, Good(q, l), UNCHANGED <<kSendList, wire, epoch, next>>,
         bEnable' => bEnable /\ szSendBytes' = szSendBytes, failed => failed'
  PROVE  Good(q, l)'
<1>1. End' = End
  BY DEF End
<1>. QED  BY <1>1 DEF Good

\* t goes on with what it had: nothing moves between the threads, the kernel and
\* kSendList.
Calm(t) ==
  /\ Turn(t)
  /\ Owing(th[t]) <=> Owing(th'[t])
  /\ Owing(th[t]) => th'[t].op = th[t].op /\ th'[t].last = th[t].last
  /\ UNCHANGED <<kSendList, ops, epoch, next, wire, settled>>
  /\ bEnable' => bEnable /\ szSendBytes' = szSendBytes
  /\ failed => failed'

LEMMA CalmCarries ==
  ASSUME NEW t \in Threads, Calm(t), NEW q, NEW l, Carries(q, l)
  PROVE  Carries(q, l)'
<1>1. \A u \in Threads : /\ Owes(u) <=> Owing(th[u])
                         /\ Owes(u)' <=> Owing(th'[u])
  BY DEF Owes, Owing
<1>2. \A u \in Threads : Owes(u)' <=> Owes(u)
  BY <1>1 DEF Calm, Turn, Moves
<1>3. \A u \in Threads : Owes(u) => th'[u].op = th[u].op /\ th'[u].last = th[u].last
  BY <1>1 DEF Calm, Turn, Moves
<1>. QED  BY <1>2, <1>3 DEF Carries, Calm

LEMMA CalmKeeps ==
  ASSUME Carried, Kept <= next, NEW t \in Threads, Calm(t)
  PROVE  Carried' /\ (Kept <= next)'
<1>1. ASSUME settled' PROVE \E q \in Buffers, l \in 0..MaxNext : Carries(q, l)' /\ Good(q, l)'
  <2>1. PICK q \in Buffers, l \in 0..MaxNext : Carries(q, l) /\ Good(q, l)
    BY <1>1 DEF Carried, Calm
  <2>2. Carries(q, l)'
    BY <2>1, CalmCarries
  <2>3. Good(q, l)'
    BY <2>1, GoodKeeps DEF Calm
  <2>. QED  BY <2>2, <2>3
<1>2. Carried'
  BY <1>1 DEF Carried
<1>3. Holding(th'[t]) = Holding(th[t])
  BY DEF Calm, Holding
<1>4. InHands(Shares)' = InHands(Shares)
  BY <1>3, HandsMove DEF Calm
<1>5. InKernel(ops)' = InKernel(ops) /\ Bytes(kSendList)' = Bytes(kSendList) /\ next' = next
  BY DEF Calm
<1>. QED  BY <1>2, <1>4, <1>5 DEF Kept

\* t drops what it had; while the socket is enabled it takes it off the counter.
Drops(t) ==
  /\ Turn(t)
  /\ Owing(th[t]) /\ ~ Owing(th'[t])
  /\ UNCHANGED <<bEnable, kSendList, ops, epoch, next, wire, failed, settled>>
  /\ bEnable => /\ failed /\ th[t].last = 0
                /\ szSendBytes' = Minus(szSendBytes, Bytes(th[t].op))

LEMMA TakenOff ==
  ASSUME NEW q \in Buffers, kSendList \in Buffers, NEW l \in Nat, Good(q, l), bEnable,
         NEW d \in Nat, d <= l + Bytes(q)
  PROVE  /\ Minus(szSendBytes, d) = l + Bytes(q) + Bytes(kSendList) - d
         /\ szSendBytes = l + Bytes(q) + Bytes(kSendList)
         /\ Minus(szSendBytes, d) \in Nat /\ Minus(szSendBytes, d) <= SendMax
         /\ szSendBytes <= SendMax
<1>1. szSendBytes = l + Bytes(q \o kSendList) /\ szSendBytes <= SendMax
  BY DEF Good
<1>2. /\ Bytes(q \o kSendList) = Bytes(q) + Bytes(kSendList)
      /\ Bytes(q) \in Nat /\ Bytes(kSendList) \in Nat
  BY BytesConcat, BytesNat
<1>3. SizeMod \in Nat /\ SizeMod > SendMax /\ SendMax \in Nat
  BY SendAssumption
<1>4. szSendBytes \in Nat /\ szSendBytes < SizeMod /\ d <= szSendBytes
  BY <1>1, <1>2, <1>3
<1>5. Minus(szSendBytes, d) = szSendBytes - d
  BY <1>4, MinusIs
<1>. QED  BY <1>1, <1>2, <1>3, <1>4, <1>5

LEMMA DropsKeeps ==
  ASSUME Typed, Carried, Kept <= next, NEW t \in Threads, Drops(t)
  PROVE  Carried' /\ (Kept <= next)'
<1>1. ASSUME settled' PROVE \E q \in Buffers, l \in 0..MaxNext : Carries(q, l)' /\ Good(q, l)'
  <2>1. PICK q \in Buffers, l \in 0..MaxNext : Carries(q, l) /\ Good(q, l)
    BY <1>1 DEF Carried, Drops
  <2>2. \A u \in Threads : /\ Owes(u) <=> Owing(th[u])
                           /\ Owes(u)' <=> Owing(th'[u])
    BY DEF Owes, Owing
  <2>3. Owes(t) /\ ~ Owes(t)' /\ \A u \in Threads : u # t => (Owes(u)' <=> Owes(u))
    BY <2>2 DEF Drops, Turn, Moves
  <2>4. /\ th[t].op = q /\ th[t].last = l /\ ops = <<>> /\ \A u \in Threads : u # t => ~ Owes(u)
    BY <2>1, <2>3 DEF Carries
  <2>5. Carries(<<>>, 0)'
    BY <2>3, <2>4 DEF Carries, Drops
  <2>6. kSendList \in Buffers /\ 0 \in 0..MaxNext /\ l \in Nat /\ next \in Nat /\ wire \in Seq(Byte)
    BY SendAssumption DEF Typed
  <2>7. <<>> \o kSendList = kSendList /\ Bytes(kSendList) \in Nat /\ <<>> \in Buffers /\ Bytes(q) \in Nat
    BY <2>6, EmptyIs, BytesNat
  <2>8. End' = End /\ UNCHANGED <<bEnable, kSendList, epoch, next, failed>> /\ End \in Nat
    BY <2>6, EndIs DEF End, Drops
  <2>9. Follows(kSendList, End, epoch, next)
    BY <2>1, <2>6, <2>8, FollowsPart DEF Good
  <2>10. ASSUME bEnable
         PROVE  failed /\ szSendBytes' = 0 + Bytes(kSendList) /\ szSendBytes' <= SendMax
    <3>1. failed /\ l = 0 /\ szSendBytes' = Minus(szSendBytes, Bytes(q))
      BY <2>4, <2>10 DEF Drops
    <3>2. /\ Minus(szSendBytes, Bytes(q)) = l + Bytes(q) + Bytes(kSendList) - Bytes(q)
          /\ Minus(szSendBytes, Bytes(q)) <= SendMax
      BY <2>1, <2>6, <2>7, <2>10, <3>1, TakenOff
    <3>. QED  BY <2>7, <3>1, <3>2
  <2>11. Good(<<>>, 0)'
    BY <2>7, <2>8, <2>9, <2>10 DEF Good
  <2>. QED  BY <2>5, <2>6, <2>7, <2>11
<1>2. Carried'
  BY <1>1 DEF Carried
<1>3. Holding(th'[t]) = 0
  BY DEF Drops, Holding
<1>4. InHands(Shares)' <= InHands(Shares) /\ InHands(Shares) \in Nat /\ InHands(Shares)' \in Nat
  BY <1>3, HandsMove DEF Drops
<1>5. InKernel(ops)' = InKernel(ops) /\ Bytes(kSendList)' = Bytes(kSendList) /\ next' = next
  BY DEF Drops
<1>6. kSendList \in Buffers /\ ops \in Seq(Buffers) /\ next \in Nat
  BY SendAssumption DEF Typed, Queued
<1>7. Bytes(kSendList) \in Nat /\ InKernel(ops) \in Nat
  BY <1>6, BytesNat, BytesEmpty, InKernelAppend
<1>. QED  BY <1>2, <1>4, <1>5, <1>6, <1>7 DEF Kept

LEMMA StreamKeeps ==
  ASSUME StreamIntact, settled' => settled, UNCHANGED <<wire, epoch>>, failed => failed'
  PROVE  StreamIntact'
BY DEF StreamIntact

\* Somebody comes for kSendList.
Comes(r) == r.at \in Telling \cup {"post", "auto", "repost", "error"} \/ r.err

LEMMA StrandKeeps ==
  ASSUME NEW t \in Threads,
         bEnable' => kSendList' = <<>> \/ ops' # <<>> \/ Comes(th'[t])
  PROVE  NotStranded'
<1>1. ASSUME Comes(th'[t])
      PROVE  \/ (Senders # {})' \/ \E u \in Threads : (th[u].at = "error" \/ th[u].err)'
  BY <1>1 DEF Comes, Senders
<1>. QED  BY <1>1 DEF NotStranded

\* No callback is about to be made, or its bytes are the same as before.
LEMMA ToldKeeps ==
  ASSUME ToldInOrder, NEW t \in Threads, Turn(t), UNCHANGED <<wire, told>>,
         settled' => settled, kFunOnSend' => kFunOnSend,
         th[t].at \in Telling <=> th'[t].at \in Telling,
         th[t].at \in Telling => th'[t].sent = th[t].sent
  PROVE  ToldInOrder'
<1>. DEFINE tell  == {u \in Threads : th[u].at \in Telling}
            tell1 == {u \in Threads : th'[u].at \in Telling}
<1>1. tell1 = tell
  BY DEF Turn, Moves
<1>2. \A u \in Threads : th[u].at \in Telling => th'[u].sent = th[u].sent
  BY DEF Turn, Moves
<1>3. settled /\ kFunOnSend =>
        \/ tell = {} /\ wire = told
        \/ \E u \in Threads : tell = {u} /\ wire = told \o th[u].sent
  BY DEF ToldInOrder
<1>4. ASSUME settled', kFunOnSend'
      PROVE  \/ tell1 = {} /\ wire' = told'
             \/ \E u \in Threads : tell1 = {u} /\ wire' = told' \o th'[u].sent
  <2>1. CASE tell = {} /\ wire = told
    BY <1>1, <2>1
  <2>2. ASSUME NEW u \in Threads, tell = {u}, wire = told \o th[u].sent
        PROVE  tell1 = {u} /\ wire' = told' \o th'[u].sent
    <3>1. th[u].at \in Telling
      BY <2>2
    <3>. QED  BY <1>1, <1>2, <2>2, <3>1
  <2>. QED  BY <1>3, <1>4, <2>1, <2>2
<1>. QED  BY <1>4 DEF ToldInOrder

LEMMA UndoingKeeps ==
  ASSUME Undoing, NEW t \in Threads, Turn(t), bEnable' => bEnable, failed => failed',
         th'[t].at = "undo" \/ th'[t].back = "undo" => failed',
         th'[t].at = "undo" /\ ~ th'[t].err => ~ bEnable'
  PROVE  Undoing'
BY DEF Undoing, Turn, Moves, At

LEMMA QuietKeeps ==
  ASSUME Quiet, NEW t \in Threads, Turn(t),
         UNCHANGED <<pooled, kFunOnSend, pkCkListen, settled>>,
         conn' = "none" => ops' = <<>> /\ (pooled => conn = "none"), th'[t].at # "clear",
         pooled /\ conn = "none" =>
           /\ UNCHANGED <<kSendList, wire, told>>
           /\ ~ Owing(th[t]) => ~ Owing(th'[t]) /\ szSendBytes' = szSendBytes
  PROVE  Quiet'
<1>1. \A u \in Threads : /\ Owes(u) <=> Owing(th[u])
                         /\ Owes(u)' <=> Owing(th'[u])
  BY DEF Owes, Owing
<1>2. \A u \in Threads : u # t => th'[u] = th[u]
  BY DEF Turn, Moves
<1>3. ASSUME pooled', conn' = "none", settled'
      PROVE  szSendBytes' = 0 /\ \A u \in Threads : ~ Owes(u)'
  <2>1. pooled /\ conn = "none" /\ szSendBytes = 0 /\ \A u \in Threads : ~ Owes(u)
    BY <1>3 DEF Quiet
  <2>2. ~ Owing(th[t])
    BY <1>1, <2>1
  <2>. QED  BY <1>1, <1>2, <2>1, <2>2
<1>4. \A u \in Threads : At(u, "clear")' => ~ kFunOnSend'
  BY <1>2 DEF Quiet, At
<1>. QED  BY <1>3, <1>4 DEF Quiet

-----------------------------------------------------------------------------
(* Three kinds of steps                                                     *)

LEMMA TypedIs ==
  ASSUME Typed
  PROVE  /\ kSendList \in Buffers /\ Bytes(kSendList) \in Nat
         /\ ops \in Seq(Queued) /\ ops \in Seq(Buffers) /\ InKernel(ops) \in Nat
         /\ next \in Nat /\ End \in Nat /\ epoch \in Nat /\ szSendBytes \in Nat
         /\ \A t \in Threads : th[t] \in Thread
<1>1. /\ kSendList \in Buffers /\ ops \in Seq(Queued) /\ ops \in Seq(Buffers) /\ wire \in Seq(Byte)
      /\ next \in Nat /\ epoch \in Nat /\ szSendBytes \in Nat /\ \A t \in Threads : th[t] \in Thread
  BY SendAssumption DEF Typed, Queued
<1>2. <<>> \in Buffers
  BY EmptyIs
<1>. QED  BY <1>1, <1>2, BytesNat, InKernelAppend, EndIs

\* What Turns says of a socket that is disabled or pooled
LEMMA TurnsAre ==
  ASSUME SInv
  PROVE  /\ pooled => ~ bEnable /\ conn \in {"none", "stuck"}
         /\ bEnable => conn = "up" /\ ~ pooled
         /\ disc = "posted" => ~ bEnable /\ ~ pooled
         /\ \A t \in Threads :
              /\ th[t].at = "postDisc" => ~ bEnable /\ ~ pooled /\ conn = "up"
              /\ th[t].at \in {"init", "clear"} => ~ bEnable /\ ~ pooled /\ conn \in {"none", "stuck"}
              /\ th[t].at = "crash" => conn \notin {"up", "closing"}
         /\ pkCkListen => Accepted
         /\ conn \in {"up", "closing"} => kFunOnSend /\ pkCkListen = Accepted
BY DEF SInv, Turns, Usable, At, Clearing

LEMMA CalmStep ==
  ASSUME Ind, NEW t \in Threads, NEW r \in Thread, Become(t, r),
         Owing(th[t]) <=> Owing(r), Owing(th[t]) => r.op = th[t].op /\ r.last = th[t].last,
         UNCHANGED <<kSendList, ops, pooled, epoch, next, wire, settled, pkCkListen>>,
         bEnable' \in BOOLEAN, bEnable' => bEnable /\ szSendBytes' = szSendBytes,
         szSendBytes' \in 0..SizeMod - 1,
         conn' \in {"none", "up", "closing", "stuck"}, disc' \in {"none", "posted", "failed"},
         failed' \in BOOLEAN, failed => failed', kFunOnSend' \in BOOLEAN, told' \in Seq(Byte),
         r.at = "undo" \/ r.back = "undo" => failed',
         r.at = "undo" /\ ~ r.err => ~ bEnable',
         bEnable' => Comes(r)
  PROVE  /\ Turn(t) /\ th'[t] = r
         /\ Typed' /\ Undoing' /\ Carried' /\ (Kept <= next)' /\ StreamIntact' /\ NotStranded'
<1>1. Turn(t) /\ th'[t] = r
  BY TurnIs DEF Ind, Sound, Typed
<1>2. Calm(t)
  BY <1>1 DEF Calm
<1>3. Carried' /\ (Kept <= next)'
  BY <1>2, CalmKeeps DEF Ind, Sound
<1>4. StreamIntact'
  BY StreamKeeps DEF Ind, Sound
<1>5. NotStranded'
  BY <1>1, StrandKeeps
<1>6. Undoing'
  BY <1>1, UndoingKeeps DEF Ind, Sound
<1>7. Typed'
  BY <1>1 DEF Ind, Sound, Typed, Turn
<1>. QED  BY <1>1, <1>3, <1>4, <1>5, <1>6, <1>7

LEMMA DropStep ==
  ASSUME Ind, NEW t \in Threads, NEW r \in Thread, Become(t, r),
         Owing(th[t]), ~ Owing(r),
         UNCHANGED <<bEnable, kSendList, ops, conn, disc, pooled, netVars, tellVars>>,
         szSendBytes' \in 0..SizeMod - 1,
         bEnable => /\ failed /\ th[t].last = 0 /\ Comes(r)
                    /\ szSendBytes' = Minus(szSendBytes, Bytes(th[t].op)),
         r.at # "clear", th[t].at \in Telling => ~ kFunOnSend
  PROVE  Sound'
<1>1. Turn(t) /\ th'[t] = r
  BY TurnIs DEF Ind, Sound, Typed
<1>2. Drops(t)
  BY <1>1 DEF Drops, netVars
<1>3. Carried' /\ (Kept <= next)'
  BY <1>2, DropsKeeps DEF Ind, Sound
<1>4. StreamIntact'
  BY StreamKeeps DEF Ind, Sound, netVars
<1>5. NotStranded'
  BY <1>1, StrandKeeps
<1>6. r.at # "undo" /\ r.back # "undo" /\ r.at \notin Telling
  BY DEF Owing
<1>7. Undoing'
  BY <1>1, <1>6, UndoingKeeps DEF Ind, Sound, netVars
<1>8. Typed'
  BY <1>1 DEF Ind, Sound, Typed, Turn, netVars, tellVars
<1>9. Quiet'
  <2>1. conn' = "none" => ops' = <<>> /\ conn = "none"
    BY DEF Ind, Sound, Quiet
  <2>. QED  BY <1>1, <2>1, QuietKeeps DEF Ind, Sound, netVars, tellVars
<1>10. ToldInOrder'
  <2>1. CASE th[t].at \in Telling
    BY <2>1 DEF ToldInOrder, tellVars
  <2>2. CASE th[t].at \notin Telling
    BY <1>1, <1>6, <2>2, ToldKeeps DEF Ind, Sound, netVars, tellVars
  <2>. QED  BY <2>1, <2>2
<1>. QED  BY <1>3, <1>4, <1>5, <1>7, <1>8, <1>9, <1>10 DEF Sound

\* A WSASend: the buffers go over to the kernel.
LEMMA GiveStep ==
  ASSUME Ind, NEW t \in Threads, NEW r \in Thread, Become(t, r),
         th[t].at \in {"post", "repost"}, ~ Owing(r), r.at # "clear",
         ops' = Append(ops, th[t].op), conn \in {"up", "stuck"},
         UNCHANGED <<bEnable, szSendBytes, kSendList, conn, disc, pooled, netVars, tellVars>>
  PROVE  Sound'
<1>1. Turn(t) /\ th'[t] = r
  BY TurnIs DEF Ind, Sound, Typed
<1>2. th[t] \in Thread /\ Typed /\ SInv
  BY DEF Ind, Sound, Typed
<1>3. Owing(th[t]) /\ th[t].last = 0 /\ th[t].op \in Queued /\ th[t].at \notin Telling
  BY <1>2, RecordIs DEF Fits, Owing, Queued, Telling
<1>4. r.at # "undo" /\ r.back # "undo" /\ r.at \notin Telling
  BY DEF Owing
<1>. DEFINE p == th[t].op
<1>5. /\ p \in Queued /\ p \in Buffers /\ Bytes(p) \in Nat
      /\ ops \in Seq(Queued) /\ ops \in Seq(Buffers)
      /\ ops' \in Seq(Queued) /\ ops' # <<>>
  BY <1>2, <1>3, TypedIs, BytesNat DEF Queued
<1>6. Typed'
  BY <1>1, <1>5 DEF Ind, Sound, Typed, Turn, netVars, tellVars
<1>7. StreamIntact' /\ NotStranded' /\ Undoing'
  BY <1>1, <1>4, <1>5, StreamKeeps, StrandKeeps, UndoingKeeps DEF Ind, Sound, netVars
<1>8. Quiet'
  BY <1>1, QuietKeeps DEF Ind, Sound, netVars, tellVars
<1>9. ToldInOrder'
  BY <1>1, <1>3, <1>4, ToldKeeps DEF Ind, Sound, netVars, tellVars
<1>10. (Kept <= next)'
  <2>1. Holding(th[t]) = Bytes(p) /\ Holding(th'[t]) = 0
    BY <1>1, <1>3, <1>5 DEF Holding
  <2>2. InKernel(ops') = InKernel(ops) + Bytes(p) /\ InKernel(ops) \in Nat
    BY <1>5, InKernelAppend
  <2>3. InHands(Shares)' + Holding(th[t]) = InHands(Shares) + Holding(th'[t])
        /\ InHands(Shares)' \in Nat /\ InHands(Shares) \in Nat
    BY <1>1, HandsMove
  <2>4. Bytes(kSendList)' = Bytes(kSendList) /\ next' = next /\ Bytes(kSendList) \in Nat /\ next \in Nat
    BY <1>2, TypedIs DEF netVars
  <2>5. Kept' = Kept
    BY <1>5, <2>1, <2>2, <2>3, <2>4 DEF Kept
  <2>. QED  BY <2>4, <2>5 DEF Ind, Sound
<1>11. Carried'
  <2>1. SUFFICES ASSUME settled'
                 PROVE  \E q \in Buffers, l \in 0..MaxNext : Carries(q, l)' /\ Good(q, l)'
    BY DEF Carried
  <2>2. PICK q \in Buffers, l \in 0..MaxNext : Carries(q, l) /\ Good(q, l)
    BY <2>1 DEF Ind, Sound, Carried, netVars
  <2>3. \A u \in Threads : /\ Owes(u) <=> Owing(th[u])
                           /\ Owes(u)' <=> Owing(th'[u])
    BY DEF Owes, Owing
  <2>4. Owes(t) /\ ~ Owes(t)' /\ \A u \in Threads : u # t => (Owes(u)' <=> Owes(u))
    BY <1>1, <1>3, <2>3 DEF Turn, Moves
  <2>5. /\ th[t].op = q /\ th[t].last = l /\ ops = <<>> /\ \A u \in Threads : u # t => ~ Owes(u)
    BY <2>2, <2>4 DEF Carries
  <2>6. ops' = <<q>> /\ l = 0
    BY <1>3, <2>5
  <2>7. Carries(q, l)'
    BY <2>4, <2>5, <2>6 DEF Carries
  <2>8. Good(q, l)'
    BY <2>2, GoodKeeps DEF netVars
  <2>. QED  BY <2>7, <2>8
<1>. QED  BY <1>6, <1>7, <1>8, <1>9, <1>10, <1>11 DEF Sound

-----------------------------------------------------------------------------
(* The steps that drop or post what they have                                *)

LEMMA MoveRecord ==
  ASSUME NEW r0 \in Thread, NEW p \in Places, NEW r, r = [r0 EXCEPT !.at = p]
  PROVE  /\ r \in Record /\ r.at = p /\ r.op = r0.op /\ r.last = r0.last /\ r.sent = r0.sent
         /\ r.err = r0.err /\ r.back = r0.back
<1>1. r0 \in Record
  BY DEF Thread
<1>. QED  BY <1>1 DEF Record

\* The end of handSend
LEMMA EndSendMakes ==
  ASSUME NEW t \in Threads, EndSend(t)
  PROVE  \E r \in Thread : /\ Become(t, r) /\ ~ Owing(r) /\ r.at \in {"idle", "error"}
                           /\ th[t].err => Comes(r)
<1>. DEFINE r == [Idle EXCEPT !.at = "error"]
<1>1. r \in Thread /\ ~ Owing(r) /\ r.at = "error"
  BY IdleThread DEF Idle
<1>2. Idle \in Thread /\ ~ Owing(Idle) /\ Idle.at = "idle"
  BY IdleThread DEF Idle
<1>3. CASE th[t].err
  <2>1. Become(t, r)
    BY <1>3 DEF EndSend
  <2>. HIDE DEF r
  <2>. QED  BY <1>1, <2>1 DEF Comes
<1>4. CASE ~ th[t].err
  <2>1. Become(t, Idle)
    BY <1>4 DEF EndSend
  <2>. QED  BY <1>2, <1>4, <2>1
<1>. QED  BY <1>3, <1>4

LEMMA PostSendSound == ASSUME Ind, NEW t \in Threads, PostSend(t) PROVE Sound'
<1>1. /\ th[t].at = "post" /\ conn \in {"up", "stuck"} /\ ops' = Append(ops, th[t].op) /\ Become(t, Idle)
      /\ UNCHANGED <<bEnable, szSendBytes, kSendList, conn, disc, pooled, netVars, tellVars>>
  BY DEF PostSend, At
<1>2. Idle \in Thread /\ ~ Owing(Idle) /\ Idle.at # "clear"
  BY IdleThread DEF Idle
<1>. QED  BY <1>1, <1>2, GiveStep

LEMMA RepostSound == ASSUME Ind, NEW t \in Threads, Repost(t) PROVE Sound'
<1>1. /\ th[t].at = "repost" /\ conn \in {"up", "stuck"} /\ EndSend(t)
      /\ ops' = Append(ops, th[t].op)
      /\ UNCHANGED <<bEnable, szSendBytes, kSendList, conn, disc, pooled, netVars, tellVars>>
  BY DEF Repost, At
<1>2. PICK r \in Thread : Become(t, r) /\ ~ Owing(r) /\ r.at \in {"idle", "error"}
  BY <1>1, EndSendMakes
<1>. QED  BY <1>1, <1>2, GiveStep

LEMMA MinusNat ==
  ASSUME NEW a \in 0..SizeMod - 1, NEW b \in Nat
  PROVE  Minus(a, b) \in 0..SizeMod - 1
<1>1. SizeMod \in Nat /\ 0 < SizeMod /\ b % SizeMod \in 0..SizeMod - 1
  BY SendAssumption
<1>2. a + SizeMod - (b % SizeMod) \in Nat
  BY <1>1
<1>3. (a + SizeMod - (b % SizeMod)) % SizeMod \in 0..SizeMod - 1
  BY <1>1, <1>2
<1>. QED  BY <1>3 DEF Minus

LEMMA UndoSound == ASSUME Ind, NEW t \in Threads, Undo(t) PROVE Sound'
<1>1. /\ th[t].at = "undo" /\ szSendBytes' = Minus(szSendBytes, Bytes(th[t].op)) /\ EndSend(t)
      /\ UNCHANGED <<bEnable, kSendList, ops, conn, disc, pooled, netVars, tellVars>>
  BY DEF Undo, At
<1>2. PICK r \in Thread : /\ Become(t, r) /\ ~ Owing(r) /\ r.at \in {"idle", "error"}
                          /\ th[t].err => Comes(r)
  BY <1>1, EndSendMakes
<1>3. th[t] \in Thread
  BY DEF Ind, Sound, Typed
<1>4. Owing(th[t]) /\ th[t].last = 0 /\ th[t].op \in Buffers /\ th[t].at \notin Telling
  BY <1>1, <1>3, RecordIs DEF Fits, Owing, Telling
<1>5. szSendBytes' \in 0..SizeMod - 1
  BY <1>1, <1>4, BytesNat, MinusNat DEF Ind, Sound, Typed
<1>6. failed /\ (bEnable => th[t].err)
  BY <1>1 DEF Ind, Sound, Undoing, At
<1>. QED  BY <1>1, <1>2, <1>4, <1>5, <1>6, DropStep

LEMMA AutoPostSendDisabledSound ==
  ASSUME Ind, NEW t \in Threads, AutoPostSendDisabled(t) PROVE Sound'
<1>1. /\ th[t].at = "auto" /\ ~ bEnable
      /\ szSendBytes' = Minus(szSendBytes, th[t].last) /\ EndSend(t)
      /\ UNCHANGED <<bEnable, kSendList, ops, conn, disc, pooled, netVars, tellVars>>
  BY DEF AutoPostSendDisabled, At
<1>2. PICK r \in Thread : Become(t, r) /\ ~ Owing(r) /\ r.at \in {"idle", "error"}
  BY <1>1, EndSendMakes
<1>3. th[t] \in Thread
  BY DEF Ind, Sound, Typed
<1>4. Owing(th[t]) /\ th[t].last \in Nat /\ th[t].at \notin Telling
  BY <1>1, <1>3, RecordIs DEF Owing, Telling
<1>5. szSendBytes' \in 0..SizeMod - 1
  BY <1>1, <1>4, MinusNat DEF Ind, Sound, Typed
<1>. QED  BY <1>1, <1>2, <1>4, <1>5, DropStep

\* A handler that uses what init() took ends the process.
LEMMA CrashSound ==
  ASSUME Ind, NEW t \in Threads, th[t].at \in Telling, ~ kFunOnSend,
         Proceed(t, "crash"), UNCHANGED told
  PROVE  Sound'
<1>1. /\ Become(t, [th[t] EXCEPT !.at = "crash"])
      /\ UNCHANGED <<bEnable, szSendBytes, kSendList, ops, conn, disc, pooled, netVars, tellVars>>
  BY DEF Proceed, tellVars
<1>2. th[t] \in Thread /\ szSendBytes \in 0..SizeMod - 1
  BY DEF Ind, Sound, Typed
<1>. DEFINE r == [th[t] EXCEPT !.at = "crash"]
<1>3. /\ r \in Record /\ r.at = "crash" /\ r.back = th[t].back
  BY <1>2, MoveRecord DEF Places
<1>4. th[t].back # "undo" /\ Owing(th[t])
  BY <1>2, RecordIs DEF Fits, Telling, Owing
<1>. HIDE DEF r
<1>5. r \in Thread /\ ~ Owing(r) /\ r.at # "clear"
  BY <1>3, <1>4 DEF Thread, Fits, Owing, Telling
<1>6. ~ bEnable
  BY TurnsAre DEF Ind
<1>7. Become(t, r)
  BY <1>1 DEF r
<1>. QED  BY <1>1, <1>2, <1>4, <1>5, <1>6, <1>7, DropStep

-----------------------------------------------------------------------------
(* The steps that keep what they have                                       *)

LEMMA PlacesAre ==
  "auto" \in Places /\ "error" \in Places /\ "postDisc" \in Places /\ "undo" \in Places
    /\ "clear" \in Places /\ <<>> \in Seq(Byte)
BY DEF Places

LEMMA KnownIs ==
  ASSUME Ind, NEW t \in Threads
  PROVE  /\ th[t] \in Thread /\ th[t] \in Record /\ Fits(th[t])
         /\ bEnable \in BOOLEAN /\ failed \in BOOLEAN /\ kFunOnSend \in BOOLEAN
         /\ szSendBytes \in 0..SizeMod - 1 /\ told \in Seq(Byte) /\ th[t].sent \in Seq(Byte)
         /\ conn \in {"none", "up", "closing", "stuck"} /\ disc \in {"none", "posted", "failed"}
BY DEF Ind, Sound, Typed, Thread, Record

\* A step of a handler that changes nothing but where it is
LEMMA TellStep ==
  ASSUME Ind, NEW t \in Threads, NEW p \in {"add", "test", "call", "auto"},
         th[t].at \in Telling, Proceed(t, p), UNCHANGED told,
         p = "auto" => ~ kFunOnSend
  PROVE  Sound'
<1>1. /\ Become(t, [th[t] EXCEPT !.at = p])
      /\ UNCHANGED <<bEnable, szSendBytes, kSendList, ops, conn, disc, pooled, netVars,
                     kFunOnSend, pkCkListen, told>>
  BY DEF Proceed
<1>2. /\ th[t] \in Thread /\ Fits(th[t])
      /\ bEnable \in BOOLEAN /\ failed \in BOOLEAN /\ kFunOnSend \in BOOLEAN
      /\ szSendBytes \in 0..SizeMod - 1 /\ told \in Seq(Byte)
      /\ conn \in {"none", "up", "closing", "stuck"} /\ disc \in {"none", "posted", "failed"}
  BY KnownIs
<1>. DEFINE r == [th[t] EXCEPT !.at = p]
<1>3. /\ r \in Record /\ r.at = p /\ r.op = th[t].op /\ r.last = th[t].last
      /\ r.sent = th[t].sent /\ r.back = th[t].back
  BY <1>2, MoveRecord DEF Places, Telling
<1>4. th[t].back # "undo" /\ Owing(th[t]) /\ th[t].last > 0
  BY <1>2 DEF Fits, Telling, Owing
<1>5. Become(t, r)
  BY <1>1
<1>. HIDE DEF r
<1>6. r \in Thread /\ Owing(r) /\ Comes(r) /\ r.at # "undo" /\ r.back # "undo"
  BY <1>3, <1>4 DEF Thread, Fits, Owing, Telling, Comes
<1>7. /\ Turn(t) /\ th'[t] = r
      /\ Typed' /\ Undoing' /\ Carried' /\ (Kept <= next)' /\ StreamIntact' /\ NotStranded'
  BY <1>1, <1>2, <1>3, <1>4, <1>5, <1>6, CalmStep DEF netVars
<1>8. Quiet'
  <2>1. conn' = "none" => ops' = <<>>
    BY <1>1 DEF Ind, Sound, Quiet
  <2>. QED  BY <1>1, <1>3, <1>4, <1>7, <2>1, QuietKeeps DEF Ind, Sound, netVars
<1>9. ToldInOrder'
  <2>1. CASE p = "auto"
    BY <1>1, <2>1 DEF ToldInOrder
  <2>2. CASE p # "auto"
    <3>1. th'[t].at \in Telling /\ th'[t].sent = th[t].sent
      BY <1>3, <1>7, <2>2 DEF Telling
    <3>. QED  BY <1>1, <1>7, <3>1, ToldKeeps DEF Ind, Sound, netVars
  <2>. QED  BY <2>1, <2>2
<1>. QED  BY <1>7, <1>8, <1>9 DEF Sound

LEMMA CallFunOnSendSound == ASSUME Ind, NEW t \in Threads, CallFunOnSend(t) PROVE Sound'
<1>1. /\ th[t].at = "call" /\ kFunOnSend /\ told' = told \o th[t].sent
      /\ Become(t, [th[t] EXCEPT !.at = "auto", !.sent = <<>>])
      /\ UNCHANGED <<bEnable, szSendBytes, kSendList, ops, conn, disc, pooled, netVars,
                     kFunOnSend, pkCkListen>>
  BY DEF CallFunOnSend, At
<1>2. /\ th[t] \in Thread /\ th[t] \in Record /\ Fits(th[t])
      /\ bEnable \in BOOLEAN /\ failed \in BOOLEAN /\ kFunOnSend \in BOOLEAN
      /\ szSendBytes \in 0..SizeMod - 1 /\ told \in Seq(Byte) /\ th[t].sent \in Seq(Byte)
      /\ conn \in {"none", "up", "closing", "stuck"} /\ disc \in {"none", "posted", "failed"}
  BY KnownIs
<1>. DEFINE r == [th[t] EXCEPT !.at = "auto", !.sent = <<>>]
<1>3. /\ r \in Record /\ r.at = "auto" /\ r.op = th[t].op /\ r.last = th[t].last
      /\ r.back = th[t].back
  BY <1>2, PlacesAre DEF Record
<1>4. th[t].back # "undo" /\ Owing(th[t]) /\ th[t].last > 0 /\ th[t].at \in Telling
  BY <1>1, <1>2 DEF Fits, Telling, Owing
<1>5. Become(t, r)
  BY <1>1
<1>. HIDE DEF r
<1>6. /\ r \in Thread /\ Owing(r) /\ Comes(r) /\ r.at # "undo" /\ r.back # "undo"
      /\ r.at \notin Telling
  BY <1>3, <1>4 DEF Thread, Fits, Owing, Telling, Comes
<1>7. told' \in Seq(Byte)
  BY <1>1, <1>2
<1>8. /\ Turn(t) /\ th'[t] = r
      /\ Typed' /\ Undoing' /\ Carried' /\ (Kept <= next)' /\ StreamIntact' /\ NotStranded'
  BY <1>1, <1>2, <1>3, <1>4, <1>5, <1>6, <1>7, CalmStep DEF netVars
<1>9. Quiet'
  <2>1. ~ pooled
    BY <1>1 DEF Ind, Sound, Quiet
  <2>2. conn' = "none" => ops' = <<>>
    BY <1>1 DEF Ind, Sound, Quiet
  <2>. QED  BY <1>1, <1>3, <1>8, <2>1, <2>2, QuietKeeps DEF Ind, Sound, netVars
<1>10. ToldInOrder'
  <2>1. SUFFICES ASSUME settled PROVE wire' = told' /\ {u \in Threads : th'[u].at \in Telling} = {}
    BY <1>1 DEF ToldInOrder, netVars
  <2>2. PICK u \in Threads : /\ {v \in Threads : th[v].at \in Telling} = {u}
                             /\ wire = told \o th[u].sent
    BY <1>1, <1>4, <2>1 DEF Ind, Sound, ToldInOrder
  <2>3. u = t
    BY <1>4, <2>2
  <2>4. {v \in Threads : th'[v].at \in Telling} = {}
    BY <1>6, <1>8, <2>2, <2>3 DEF Turn, Moves
  <2>. QED  BY <1>1, <2>2, <2>3, <2>4 DEF netVars
<1>. QED  BY <1>8, <1>9, <1>10 DEF Sound

LEMMA TellSound ==
  ASSUME Ind, NEW t \in Threads,
         TestListen(t) \/ UseListen(t) \/ TestFunOnSend(t) \/ CallFunOnSend(t)
           \/ CallEmptyFunOnSend(t)
  PROVE  Sound'
<1>1. CASE TestListen(t)
  BY <1>1, TellStep DEF TestListen, At, Telling
<1>2. CASE UseListen(t)
  <2>1. th[t].at = "add" /\ th[t].at \in Telling /\ UNCHANGED told
        /\ Proceed(t, IF pkCkListen THEN "test" ELSE "crash")
    BY <1>2 DEF UseListen, At, Telling
  <2>2. CASE pkCkListen
    BY <2>1, <2>2, TellStep
  <2>3. CASE ~ pkCkListen
    <3>1. Accepted
      BY <2>1 DEF Ind, SInv, Usable, At
    <3>2. ~ kFunOnSend
      BY <2>3, <3>1 DEF Ind, Sound, Quiet
    <3>. QED  BY <2>1, <2>3, <3>2, CrashSound
  <2>. QED  BY <2>2, <2>3
<1>3. CASE TestFunOnSend(t)
  <2>1. th[t].at \in Telling /\ UNCHANGED told
        /\ Proceed(t, IF kFunOnSend THEN "call" ELSE "auto")
    BY <1>3 DEF TestFunOnSend, At, Telling
  <2>. QED  BY <2>1, TellStep
<1>4. CASE CallEmptyFunOnSend(t)
  BY <1>4, CrashSound DEF CallEmptyFunOnSend, At, Telling
<1>. QED  BY <1>1, <1>2, <1>3, <1>4, CallFunOnSendSound

\* Steps outside the callback
LEMMA OtherStep ==
  ASSUME Ind, NEW t \in Threads, NEW r \in Thread, Become(t, r),
         Owing(th[t]) <=> Owing(r), Owing(th[t]) => r.op = th[t].op /\ r.last = th[t].last,
         th[t].at \notin Telling, r.at \notin Telling, r.at # "clear",
         UNCHANGED <<kSendList, ops, pooled, epoch, next, wire, settled, tellVars>>,
         bEnable' \in BOOLEAN, bEnable' => bEnable /\ Comes(r),
         bEnable' \/ pooled => szSendBytes' = szSendBytes,
         szSendBytes' \in 0..SizeMod - 1,
         conn' \in {"none", "up", "closing", "stuck"}, disc' \in {"none", "posted", "failed"},
         conn' = "none" => conn = "none" \/ (ops = <<>> /\ ~ pooled),
         failed' \in BOOLEAN, failed => failed',
         r.at = "undo" \/ r.back = "undo" => failed',
         r.at = "undo" /\ ~ r.err => ~ bEnable'
  PROVE  Sound'
<1>1. /\ kFunOnSend \in BOOLEAN /\ told \in Seq(Byte)
      /\ UNCHANGED <<kFunOnSend, pkCkListen, told>>
  BY KnownIs DEF tellVars
<1>2. /\ Turn(t) /\ th'[t] = r
      /\ Typed' /\ Undoing' /\ Carried' /\ (Kept <= next)' /\ StreamIntact' /\ NotStranded'
  BY <1>1, CalmStep
<1>3. Quiet'
  <2>1. conn' = "none" => ops' = <<>> /\ (pooled => conn = "none")
    BY DEF Ind, Sound, Quiet
  <2>. QED  BY <1>1, <1>2, <2>1, QuietKeeps DEF Ind, Sound
<1>4. ToldInOrder'
  BY <1>1, <1>2, ToldKeeps DEF Ind, Sound
<1>. QED  BY <1>2, <1>3, <1>4 DEF Sound

LEMMA PostSendFailsSound == ASSUME Ind, NEW t \in Threads, PostSendFails(t) PROVE Sound'
<1>1. /\ th[t].at = "post" /\ failed' = TRUE
      /\ Become(t, [th[t] EXCEPT !.at = "error", !.back = "undo"])
      /\ UNCHANGED <<bEnable, szSendBytes, kSendList, ops, conn, disc, pooled, epoch,
                     next, wire, settled, tellVars>>
  BY DEF PostSendFails, At
<1>2. /\ th[t] \in Thread /\ Fits(th[t])
      /\ bEnable \in BOOLEAN /\ szSendBytes \in 0..SizeMod - 1
      /\ conn \in {"none", "up", "closing", "stuck"} /\ disc \in {"none", "posted", "failed"}
  BY KnownIs
<1>. DEFINE r == [th[t] EXCEPT !.at = "error", !.back = "undo"]
<1>4. Become(t, r) /\ r = [th[t] EXCEPT !.at = "error", !.back = "undo"]
  BY <1>1
<1>. HIDE DEF r
<1>3. /\ r \in Record /\ r.at = "error" /\ r.op = th[t].op /\ r.last = th[t].last
      /\ r.back = "undo"
  BY <1>2, <1>4, PlacesAre DEF Record, Thread
<1>5. th[t].last = 0 /\ th[t].op # <<>> /\ Owing(th[t]) /\ th[t].at \notin Telling
  BY <1>1, <1>2 DEF Fits, Owing, Telling
<1>6. /\ r \in Thread /\ Owing(r) /\ Comes(r) /\ r.at \notin Telling /\ r.at # "clear"
      /\ r.at # "undo"
  BY <1>3, <1>5 DEF Thread, Fits, Owing, Telling, Comes
<1>. QED  BY <1>1, <1>2, <1>3, <1>4, <1>5, <1>6, OtherStep

LEMMA RepostFailsSound == ASSUME Ind, NEW t \in Threads, RepostFails(t) PROVE Sound'
<1>1. /\ th[t].at = "repost" /\ failed' = TRUE
      /\ Become(t, [th[t] EXCEPT !.at = "undo", !.err = TRUE])
      /\ UNCHANGED <<bEnable, szSendBytes, kSendList, ops, conn, disc, pooled, epoch,
                     next, wire, settled, tellVars>>
  BY DEF RepostFails, At
<1>2. /\ th[t] \in Thread /\ th[t] \in Record /\ Fits(th[t])
      /\ bEnable \in BOOLEAN /\ szSendBytes \in 0..SizeMod - 1
      /\ conn \in {"none", "up", "closing", "stuck"} /\ disc \in {"none", "posted", "failed"}
  BY KnownIs
<1>. DEFINE r == [th[t] EXCEPT !.at = "undo", !.err = TRUE]
<1>3. /\ r \in Record /\ r.at = "undo" /\ r.op = th[t].op /\ r.last = th[t].last
      /\ r.back = th[t].back /\ r.err
  BY <1>2 DEF Record, Places
<1>4. Become(t, r)
  BY <1>1
<1>. HIDE DEF r
<1>5. /\ th[t].last = 0 /\ th[t].op # <<>> /\ Owing(th[t]) /\ th[t].at \notin Telling
      /\ th[t].back # "undo"
  BY <1>1, <1>2 DEF Fits, Owing, Telling
<1>6. r \in Thread /\ Owing(r) /\ Comes(r) /\ r.at \notin Telling /\ r.at # "clear"
  BY <1>3, <1>5 DEF Thread, Fits, Owing, Telling, Comes
<1>. QED  BY <1>1, <1>2, <1>3, <1>4, <1>5, <1>6, OtherStep

\* The thread that finds bEnable true goes on to post the DisconnectEx.
LEMMA DisableSound ==
  ASSUME Ind, NEW t \in Threads, th[t].at \in {"idle", "error"},
         NEW b \in {"idle", "undo"}, b = th[t].back, Disable(t, b),
         UNCHANGED <<szSendBytes, kSendList, ops, conn, disc, pooled, netVars, tellVars>>
  PROVE  Sound'
<1>1. bEnable' = FALSE /\ Become(t, [th[t] EXCEPT !.at = "postDisc", !.back = b])
  BY DEF Disable
<1>2. /\ th[t] \in Thread /\ Fits(th[t]) /\ failed \in BOOLEAN /\ szSendBytes \in 0..SizeMod - 1
      /\ conn \in {"none", "up", "closing", "stuck"} /\ disc \in {"none", "posted", "failed"}
  BY KnownIs
<1>. DEFINE r == [th[t] EXCEPT !.at = "postDisc", !.back = b]
<1>4. Become(t, r) /\ r = [th[t] EXCEPT !.at = "postDisc", !.back = b]
  BY <1>1
<1>. HIDE DEF r
<1>3. /\ r \in Record /\ r.at = "postDisc" /\ r.op = th[t].op /\ r.last = th[t].last
      /\ r.back = th[t].back
  BY <1>2, <1>4, PlacesAre DEF Record, Thread
<1>5. /\ r \in Thread /\ (Owing(th[t]) <=> Owing(r)) /\ r.at \notin Telling /\ r.at # "clear"
      /\ r.at # "undo" /\ th[t].at \notin Telling
  BY <1>2, <1>3 DEF Thread, Fits, Owing, Telling
<1>6. r.back = "undo" => failed
  BY <1>3 DEF Ind, Sound, Undoing
<1>. QED  BY <1>1, <1>2, <1>3, <1>4, <1>5, <1>6, OtherStep DEF netVars

LEMMA ReqDisconnectSound == ASSUME Ind, NEW t \in Threads, ReqDisconnect(t) PROVE Sound'
<1>1. /\ th[t].at = "idle" /\ Disable(t, "idle")
      /\ UNCHANGED <<szSendBytes, kSendList, ops, conn, disc, pooled, netVars, tellVars>>
  BY DEF ReqDisconnect, At
<1>2. th[t].back = "idle"
  BY <1>1, KnownIs DEF Fits, Record
<1>. QED  BY <1>1, <1>2, DisableSound

\* handError, and postDisconnect, go back to where the thread was.
LEMMA GoBackSound ==
  ASSUME Ind, NEW t \in Threads, th[t].at \in {"error", "postDisc"}, ~ bEnable,
         Goto(t, th[t].back), conn' \in {"none", "up", "closing", "stuck"}, conn' = "none" => conn = "none",
         disc' \in {"none", "posted", "failed"},
         UNCHANGED <<bEnable, szSendBytes, kSendList, ops, pooled, netVars, tellVars>>
  PROVE  Sound'
<1>1. /\ th[t] \in Thread /\ Fits(th[t]) /\ th[t].back \in {"idle", "undo"}
      /\ bEnable \in BOOLEAN /\ failed \in BOOLEAN /\ szSendBytes \in 0..SizeMod - 1
  BY KnownIs DEF Record
<1>2. th[t].at \notin Telling
  BY DEF Telling
<1>3. CASE th[t].back = "idle"
  <2>1. Become(t, Idle)
    BY <1>3 DEF Goto
  <2>2. Idle \in Thread /\ ~ Owing(Idle) /\ Idle.at = "idle" /\ Idle.back = "idle"
    BY IdleThread DEF Idle
  <2>3. ~ Owing(th[t])
    BY <1>2, <1>3 DEF Owing, Telling
  <2>4. Idle.at \notin Telling
    BY <2>2 DEF Telling
  <2>. QED  BY <1>1, <1>2, <2>1, <2>2, <2>3, <2>4, OtherStep DEF netVars
<1>4. CASE th[t].back = "undo"
  <2>. DEFINE r == [th[t] EXCEPT !.at = "undo", !.back = "idle"]
  <2>1. Become(t, r) /\ r = [th[t] EXCEPT !.at = "undo", !.back = "idle"]
    BY <1>4 DEF Goto
  <2>. HIDE DEF r
  <2>2. /\ r \in Record /\ r.at = "undo" /\ r.op = th[t].op /\ r.last = th[t].last
        /\ r.back = "idle"
    BY <1>1, <2>1, PlacesAre DEF Record, Thread
  <2>3. th[t].last = 0 /\ th[t].op # <<>> /\ Owing(th[t])
    BY <1>1, <1>4 DEF Fits, Owing
  <2>4. r \in Thread /\ Owing(r) /\ r.at \notin Telling /\ r.at # "clear"
    BY <2>2, <2>3 DEF Thread, Fits, Owing, Telling
  <2>5. failed
    BY <1>4 DEF Ind, Sound, Undoing
  <2>. QED  BY <1>1, <1>2, <2>1, <2>2, <2>3, <2>4, <2>5, OtherStep DEF netVars
<1>. QED  BY <1>1, <1>3, <1>4

LEMMA HandErrorSound == ASSUME Ind, NEW t \in Threads, HandError(t) PROVE Sound'
<1>1. /\ th[t].at = "error"
      /\ UNCHANGED <<szSendBytes, kSendList, ops, conn, disc, pooled, netVars, tellVars>>
      /\ Disable(t, th[t].back) \/ (~ bEnable /\ Goto(t, th[t].back) /\ UNCHANGED bEnable)
  BY DEF HandError, At
<1>2. /\ th[t].back \in {"idle", "undo"} /\ conn \in {"none", "up", "closing", "stuck"}
      /\ disc \in {"none", "posted", "failed"}
  BY KnownIs DEF Record
<1>. QED  BY <1>1, <1>2, DisableSound, GoBackSound

LEMMA PostDisconnectSound == ASSUME Ind, NEW t \in Threads, PostDisconnect(t) PROVE Sound'
<1>1. /\ th[t].at = "postDisc" /\ PostDisc /\ Goto(t, th[t].back)
      /\ UNCHANGED <<bEnable, szSendBytes, kSendList, ops, pooled, netVars, tellVars>>
  BY DEF PostDisconnect, At
<1>2. ~ bEnable
  BY <1>1, TurnsAre DEF Ind
<1>3. /\ conn' \in {"none", "up", "closing", "stuck"} /\ disc' \in {"none", "posted", "failed"}
      /\ conn' = "none" => conn = "none"
  BY <1>1, KnownIs DEF PostDisc
<1>. QED  BY <1>1, <1>2, <1>3, GoBackSound

LEMMA CompleteDisconnectSound ==
  ASSUME Ind, NEW t \in Threads, CompleteDisconnect(t) PROVE Sound'
<1>1. /\ th[t].at = "idle" /\ disc = "posted" /\ disc' = "none"
      /\ (ops = <<>> /\ conn' = "none") \/ conn' = "stuck"
      /\ Become(t, [Idle EXCEPT !.at = "init"])
      /\ UNCHANGED <<bEnable, szSendBytes, kSendList, ops, pooled, netVars, tellVars>>
  BY DEF CompleteDisconnect, At
<1>2. /\ th[t] \in Thread /\ Fits(th[t]) /\ failed \in BOOLEAN /\ szSendBytes \in 0..SizeMod - 1
      /\ bEnable \in BOOLEAN
  BY KnownIs
<1>3. ~ bEnable /\ ~ pooled
  BY <1>1, TurnsAre DEF Ind
<1>. DEFINE r == [Idle EXCEPT !.at = "init"]
<1>4. r \in Thread /\ ~ Owing(r) /\ r.at = "init" /\ r.back = "idle"
  BY IdleThread DEF Idle
<1>5. Become(t, r)
  BY <1>1
<1>. HIDE DEF r
<1>6. ~ Owing(th[t]) /\ th[t].at \notin Telling /\ r.at \notin Telling
  BY <1>1, <1>2, <1>4 DEF Fits, Owing, Telling
<1>. QED  BY <1>1, <1>2, <1>3, <1>4, <1>5, <1>6, OtherStep DEF netVars

LEMMA InitFunctionsSound == ASSUME Ind, NEW t \in Threads, InitFunctions(t) PROVE Sound'
<1>1. /\ th[t].at = "init" /\ kFunOnSend' = FALSE /\ Goto(t, "clear")
      /\ UNCHANGED <<bEnable, szSendBytes, kSendList, ops, conn, disc, pooled, netVars,
                     pkCkListen, told>>
  BY DEF InitFunctions, At
<1>2. /\ th[t] \in Thread /\ Fits(th[t]) /\ failed \in BOOLEAN /\ szSendBytes \in 0..SizeMod - 1
      /\ bEnable \in BOOLEAN /\ told \in Seq(Byte)
      /\ conn \in {"none", "up", "closing", "stuck"} /\ disc \in {"none", "posted", "failed"}
  BY KnownIs
<1>3. ~ bEnable /\ ~ pooled
  BY <1>1, TurnsAre DEF Ind
<1>. DEFINE r == [th[t] EXCEPT !.at = "clear", !.back = "idle"]
<1>4. Become(t, r) /\ r = [th[t] EXCEPT !.at = "clear", !.back = "idle"]
  BY <1>1 DEF Goto
<1>. HIDE DEF r
<1>5. /\ r \in Record /\ r.at = "clear" /\ r.back = "idle"
  BY <1>2, <1>4, PlacesAre DEF Record, Thread
<1>6. r \in Thread /\ ~ Owing(r) /\ ~ Owing(th[t])
  BY <1>1, <1>2, <1>5 DEF Thread, Fits, Owing, Telling
<1>7. /\ Turn(t) /\ th'[t] = r
      /\ Typed' /\ Undoing' /\ Carried' /\ (Kept <= next)' /\ StreamIntact' /\ NotStranded'
  BY <1>1, <1>2, <1>3, <1>4, <1>5, <1>6, CalmStep DEF netVars
<1>8. Quiet' /\ ToldInOrder'
  BY <1>1, <1>3 DEF Ind, Sound, Quiet, ToldInOrder
<1>. QED  BY <1>7, <1>8 DEF Sound

-----------------------------------------------------------------------------
(* reqSend                                                                  *)

LEMMA SingleIs == ASSUME NEW S, NEW q, <<q>> \in Seq(S) PROVE q \in S
<1>1. Len(<<q>>) = 1 /\ <<q>>[1] = q
  OBVIOUS
<1>. DEFINE s == <<q>>
<1>2. s \in Seq(S) /\ 1 \in 1..Len(s)
  BY <1>1
<1>. HIDE DEF s
<1>3. s[1] \in S
  BY <1>2
<1>. QED  BY <1>1, <1>3 DEF s

LEMMA ChunkIs ==
  ASSUME Ind, NEW n \in Lens, next + n <= MaxNext
  PROVE  /\ n \in Nat \ {0} /\ Chunk(n) \in Buffer /\ Size(Chunk(n)) = n
         /\ Chunk(n).e = epoch /\ Chunk(n).from = next /\ Chunk(n).to = next + n
         /\ <<Chunk(n)>> \in Buffers /\ Bytes(<<Chunk(n)>>) = n
         /\ next + n \in 0..MaxNext /\ next \in Nat
<1>1. n \in Nat \ {0} /\ MaxNext \in Nat /\ next \in 0..MaxNext /\ epoch \in 1..MaxEpoch
  BY SendAssumption DEF Ind, Sound, Typed
<1>2. /\ Chunk(n).e = epoch /\ Chunk(n).from = next /\ Chunk(n).to = next + n
  BY DEF Chunk
<1>3. Chunk(n) \in Buffer
  BY <1>1, <1>2 DEF Buffer, Chunks, Chunk
<1>4. Size(Chunk(n)) = n
  BY <1>1, <1>2 DEF Size
<1>5. <<Chunk(n)>> = Append(<<>>, Chunk(n))
  OBVIOUS
<1>6. Bytes(<<Chunk(n)>>) = n /\ <<Chunk(n)>> \in Buffers
  <2>1. <<>> \in Buffers /\ Bytes(<<>>) = 0
    BY EmptyIs
  <2>. HIDE DEF Chunk
  <2>2. Bytes(Append(<<>>, Chunk(n))) = 0 + n
    BY <1>3, <1>4, <2>1, BytesAppend
  <2>3. <<Chunk(n)>> \in Buffers
    BY <1>3 DEF Buffers
  <2>. QED  BY <1>1, <1>5, <2>2, <2>3
<1>. QED  BY <1>1, <1>2, <1>3, <1>4, <1>6

\* While the connection is enabled the counter does not wrap.
LEMMA CounterIs ==
  ASSUME Ind, settled, bEnable, NEW q \in Buffers, NEW l \in 0..MaxNext, Good(q, l),
         NEW n \in Lens, next + n <= MaxNext
  PROVE  /\ Plus(szSendBytes, n) = szSendBytes + n
         /\ szSendBytes = l + Bytes(q) + Bytes(kSendList)
         /\ Bytes(q) \in Nat /\ Bytes(kSendList) \in Nat /\ l \in Nat /\ szSendBytes \in Nat
<1>1. n \in Nat /\ next \in Nat /\ SizeMod \in Nat /\ SizeMod > 2 * (SendMax + MaxNext)
      /\ SendMax \in Nat /\ MaxNext \in Nat /\ l \in Nat
  BY SendAssumption, TypedIs DEF Ind, Sound
<1>2. kSendList \in Buffers /\ Bytes(kSendList) \in Nat /\ Bytes(q) \in Nat
  BY TypedIs, BytesNat DEF Ind, Sound
<1>3. szSendBytes = l + Bytes(q \o kSendList) /\ szSendBytes <= SendMax
  BY DEF Good
<1>4. Bytes(q \o kSendList) = Bytes(q) + Bytes(kSendList)
  BY <1>2, BytesConcat
<1>5. szSendBytes \in Nat /\ szSendBytes + n < SizeMod
  BY <1>1, <1>2, <1>3, <1>4
<1>. QED  BY <1>1, <1>2, <1>3, <1>4, <1>5, PlusIs

LEMMA PlusRange ==
  ASSUME NEW a \in Nat, NEW b \in Nat PROVE Plus(a, b) \in 0..SizeMod - 1
<1>1. SizeMod \in Nat /\ 0 < SizeMod /\ a + b \in Nat
  BY SendAssumption
<1>2. (a + b) % SizeMod \in 0..SizeMod - 1
  BY <1>1
<1>. QED  BY <1>2 DEF Plus

\* q behind which n bytes are accepted
LEMMA GoodGrows ==
  ASSUME Ind, settled, bEnable, NEW q \in Buffers, NEW l \in 0..MaxNext, Good(q, l),
         NEW n \in Lens, next + n <= MaxNext
  PROVE  /\ Follows(Append(q \o kSendList, Chunk(n)), End, epoch, next + n)
         /\ ~ failed => /\ Gapless(Append(q \o kSendList, Chunk(n)), End)
                        /\ next + n = End + Bytes(Append(q \o kSendList, Chunk(n)))
         /\ Bytes(Append(q \o kSendList, Chunk(n))) = Bytes(q \o kSendList) + n
<1>. DEFINE s == q \o kSendList
            c == Chunk(n)
<1>1. /\ n \in Nat /\ c \in Buffer /\ Size(c) = n /\ c.e = epoch /\ c.from = next /\ c.to = next + n
      /\ next \in Nat
  BY ChunkIs
<1>2. s \in Buffers /\ Bytes(s) \in Nat /\ End \in Nat
  BY TypedIs, ConcatIs, BytesNat DEF Ind, Sound
<1>3. /\ Follows(s, End, epoch, next)
      /\ ~ failed => Gapless(s, End) /\ next = End + Bytes(s)
  BY DEF Good
<1>. HIDE DEF s, c
<1>4. Follows(Append(s, c), End, epoch, next + n)
  BY <1>1, <1>2, <1>3, FollowsAppend
<1>5. Bytes(Append(s, c)) = Bytes(s) + n
  BY <1>1, <1>2, BytesAppend
<1>6. ASSUME ~ failed PROVE Gapless(Append(s, c), End) /\ next + n = End + Bytes(Append(s, c))
  <2>1. Gapless(s, End) /\ next = End + Bytes(s)
    BY <1>3, <1>6
  <2>2. Gapless(Append(s, c), End)
    BY <1>1, <1>2, <2>1, GaplessAppend
  <2>. QED  BY <1>1, <1>2, <1>5, <2>1, <2>2
<1>. QED  BY <1>4, <1>5, <1>6 DEF s, c

LEMMA ReqSendPostsSound ==
  ASSUME Ind, NEW t \in Threads, NEW n \in Lens, ReqSendPosts(t, n) PROVE Sound'
<1>. DEFINE total == Plus(szSendBytes, n)
            c == Chunk(n)
            r == [Idle EXCEPT !.at = "post", !.op = <<c>>]
<1>1. /\ th[t].at = "idle" /\ bEnable /\ next + n <= MaxNext /\ total <= SendMax /\ total = n
      /\ szSendBytes' = total /\ next' = next + n /\ Become(t, r)
      /\ UNCHANGED <<bEnable, kSendList, ops, conn, disc, pooled, epoch, wire, failed,
                     settled, tellVars>>
  BY DEF ReqSendPosts, MaySend, At
<1>2. /\ n \in Nat \ {0} /\ c \in Buffer /\ c.e = epoch /\ c.from = next /\ c.to = next + n
      /\ <<c>> \in Buffers /\ Bytes(<<c>>) = n /\ next' \in 0..MaxNext /\ next \in Nat
  BY <1>1, ChunkIs
<1>. HIDE DEF c
<1>3. /\ r.at = "post" /\ r.op = <<c>> /\ r.last = 0 /\ r.sent = <<>> /\ r.err = FALSE
      /\ r.back = "idle" /\ r \in Record
  <2>1. Idle \in Record /\ "post" \in Places
    BY IdleThread DEF Thread, Places
  <2>. QED  BY <1>2, <2>1 DEF Idle, Record
<1>. HIDE DEF r
<1>4. <<c>> # <<>>
  OBVIOUS
<1>5. r \in Thread /\ Owing(r) /\ Comes(r) /\ r.at \notin Telling
  BY <1>3, <1>4 DEF Thread, Fits, Owing, Telling, Comes
<1>6. Turn(t) /\ th'[t] = r
  BY <1>1, <1>5, TurnIs DEF Ind, Sound, Typed
<1>7. th[t] \in Thread /\ ~ Owing(th[t]) /\ th[t].at \notin Telling
  <2>1. th[t] \in Thread /\ Fits(th[t])
    BY KnownIs
  <2>. QED  BY <1>1, <2>1 DEF Fits, Owing, Telling
<1>8. ~ pooled /\ conn = "up"
  BY <1>1, TurnsAre DEF Ind
<1>9. total \in 0..SizeMod - 1
  <2>1. szSendBytes \in Nat
    BY TypedIs DEF Ind, Sound
  <2>. QED  BY <1>2, <2>1, PlusRange
<1>. HIDE DEF total
<1>10. Typed'
  BY <1>1, <1>2, <1>6, <1>9 DEF Ind, Sound, Typed, Turn, tellVars
<1>11. Undoing' /\ StreamIntact' /\ NotStranded'
  BY <1>1, <1>3, <1>5, <1>6, UndoingKeeps, StreamKeeps, StrandKeeps DEF Ind, Sound
<1>12. Quiet'
  BY <1>1, <1>3, <1>6, <1>8, QuietKeeps DEF Ind, Sound, tellVars
<1>13. ToldInOrder'
  BY <1>1, <1>5, <1>6, <1>7, ToldKeeps DEF Ind, Sound, tellVars
<1>14. (Kept <= next)'
  <2>1. Holding(th[t]) = 0 /\ Holding(th'[t]) = n
    BY <1>2, <1>3, <1>5, <1>6, <1>7 DEF Holding
  <2>2. InHands(Shares)' + Holding(th[t]) = InHands(Shares) + Holding(th'[t])
        /\ InHands(Shares)' \in Nat /\ InHands(Shares) \in Nat
    BY <1>6, HandsMove
  <2>3. /\ Bytes(kSendList)' = Bytes(kSendList) /\ InKernel(ops)' = InKernel(ops)
        /\ Bytes(kSendList) \in Nat /\ InKernel(ops) \in Nat
    BY <1>1, TypedIs DEF Ind, Sound
  <2>4. Kept <= next
    BY DEF Ind, Sound
  <2>. QED  BY <1>1, <1>2, <2>1, <2>2, <2>3, <2>4 DEF Kept
<1>15. Carried'
  <2>1. SUFFICES ASSUME settled
                 PROVE  \E q \in Buffers, l \in 0..MaxNext : Carries(q, l)' /\ Good(q, l)'
    BY <1>1 DEF Carried
  <2>2. PICK q \in Buffers, l \in 0..MaxNext : Carries(q, l) /\ Good(q, l)
    BY <2>1 DEF Ind, Sound, Carried
  <2>3. total = szSendBytes + n /\ szSendBytes = l + Bytes(q) + Bytes(kSendList)
        /\ Bytes(q) \in Nat /\ Bytes(kSendList) \in Nat /\ l \in Nat /\ szSendBytes \in Nat
    BY <1>1, <2>1, <2>2, CounterIs DEF total
  <2>4. l = 0 /\ Bytes(q) = 0 /\ Bytes(kSendList) = 0 /\ szSendBytes = 0
    BY <1>1, <1>2, <2>3
  <2>5. kSendList \in Buffers /\ ops \in Seq(Queued) /\ \A u \in Threads : th[u] \in Thread
    BY TypedIs DEF Ind, Sound
  <2>6. q = <<>> /\ kSendList = <<>>
    BY <2>2, <2>4, <2>5, BytesPositive
  <2>7. \A u \in Threads : /\ Owes(u) <=> Owing(th[u])
                           /\ Owes(u)' <=> Owing(th'[u])
    BY DEF Owes, Owing
  <2>8. ops = <<>> /\ \A u \in Threads : ~ Owes(u)
    <3>1. ops # <<q>>
      <4>1. ASSUME ops = <<q>> PROVE FALSE
        <5>1. q \in Queued
          BY <2>5, <4>1, SingleIs
        <5>. QED  BY <2>6, <5>1 DEF Queued
      <4>. QED  BY <4>1
    <3>2. ASSUME NEW u \in Threads, th[u].op = q, th[u].last = l, Owes(u) PROVE FALSE
      <4>1. Owing(th[u]) /\ Fits(th[u])
        BY <2>5, <2>7, <3>2 DEF Thread
      <4>. QED  BY <2>4, <2>6, <3>2, <4>1 DEF Fits, Owing
    <3>. QED  BY <2>2, <3>1, <3>2 DEF Carries
  <2>9. PICK p \in Buffers : p = <<c>>
    BY <1>2
  <2>10. Carries(p, 0)'
    <3>1. Owes(t)' /\ \A u \in Threads : u # t => ~ Owes(u)'
      BY <1>5, <1>6, <2>7, <2>8 DEF Turn, Moves
    <3>2. th'[t].op = p /\ th'[t].last = 0 /\ ops' = <<>>
      BY <1>1, <1>3, <1>6, <2>8, <2>9
    <3>. QED  BY <3>1, <3>2 DEF Carries
  <2>11. /\ Follows(Append(q \o kSendList, c), End, epoch, next + n)
         /\ ~ failed => /\ Gapless(Append(q \o kSendList, c), End)
                        /\ next + n = End + Bytes(Append(q \o kSendList, c))
    BY <1>1, <2>1, <2>2, GoodGrows DEF c
  <2>12. Append(q \o kSendList, c) = p /\ p \o kSendList' = p
    <3>1. <<>> \o <<>> = <<>> /\ p \o <<>> = p
      BY EmptyIs
    <3>2. Append(<<>>, c) = <<c>>
      OBVIOUS
    <3>. QED  BY <1>1, <2>6, <2>9, <3>1, <3>2
  <2>13. End' = End
    BY <1>1 DEF End
  <2>14. szSendBytes' = 0 + Bytes(p) /\ szSendBytes' <= SendMax
    BY <1>1, <1>2, <2>9
  <2>15. Good(p, 0)'
    BY <1>1, <2>11, <2>12, <2>13, <2>14 DEF Good
  <2>16. 0 \in 0..MaxNext
    BY SendAssumption
  <2>. QED  BY <2>10, <2>15, <2>16
<1>. QED  BY <1>10, <1>11, <1>12, <1>13, <1>14, <1>15 DEF Sound

LEMMA ReqSendQueuesSound ==
  ASSUME Ind, NEW t \in Threads, NEW n \in Lens, ReqSendQueues(t, n) PROVE Sound'
<1>. DEFINE total == Plus(szSendBytes, n)
            c == Chunk(n)
<1>1. /\ th[t].at = "idle" /\ bEnable /\ next + n <= MaxNext /\ total <= SendMax /\ total # n
      /\ szSendBytes' = total /\ next' = next + n /\ kSendList' = Append(kSendList, c)
      /\ UNCHANGED <<bEnable, ops, conn, disc, pooled, th, epoch, wire, failed,
                     settled, tellVars>>
  BY DEF ReqSendQueues, MaySend, At
<1>2. /\ n \in Nat \ {0} /\ c \in Buffer /\ c.e = epoch /\ c.from = next /\ c.to = next + n
      /\ Size(c) = n /\ next' \in 0..MaxNext /\ next \in Nat
  BY <1>1, ChunkIs
<1>. HIDE DEF c
<1>3. /\ kSendList \in Buffers /\ Append(kSendList, c) \in Buffers
      /\ Bytes(kSendList) \in Nat /\ Bytes(Append(kSendList, c)) = Bytes(kSendList) + n
  BY <1>2, TypedIs, AppendIs, BytesAppend DEF Ind, Sound
<1>4. ~ pooled /\ conn = "up"
  BY <1>1, TurnsAre DEF Ind
<1>5. total \in 0..SizeMod - 1
  <2>1. szSendBytes \in Nat
    BY TypedIs DEF Ind, Sound
  <2>. QED  BY <1>2, <2>1, PlusRange
<1>. HIDE DEF total
<1>6. Typed'
  BY <1>1, <1>2, <1>3, <1>5 DEF Ind, Sound, Typed, tellVars
<1>7. Undoing' /\ StreamIntact' /\ ToldInOrder'
  BY <1>1 DEF Ind, Sound, Undoing, StreamIntact, ToldInOrder, tellVars, At
<1>8. Quiet'
  BY <1>1, <1>4 DEF Ind, Sound, Quiet, tellVars, At
<1>9. (Kept <= next)'
  <2>1. InHands(Shares)' = InHands(Shares) /\ InHands(Shares) \in Nat
    <3>1. Turn(t) /\ th' = th
      BY <1>1, <1>6 DEF Turn, Moves, Ind, Sound, Typed
    <3>2. InHands(Shares)' + Holding(th[t]) = InHands(Shares) + Holding(th[t])
          /\ InHands(Shares)' \in Nat /\ InHands(Shares) \in Nat /\ Holding(th[t]) \in Nat
      BY <3>1, HandsMove
    <3>. QED  BY <3>2
  <2>2. InKernel(ops)' = InKernel(ops) /\ InKernel(ops) \in Nat
    BY <1>1, TypedIs DEF Ind, Sound
  <2>3. Bytes(kSendList)' = Bytes(kSendList) + n
    BY <1>1, <1>3
  <2>4. Kept <= next
    BY DEF Ind, Sound
  <2>. QED  BY <1>1, <1>2, <1>3, <2>1, <2>2, <2>3, <2>4 DEF Kept
<1>10. Carried'
  <2>1. SUFFICES ASSUME settled
                 PROVE  \E q \in Buffers, l \in 0..MaxNext : Carries(q, l)' /\ Good(q, l)'
    BY <1>1 DEF Carried
  <2>2. PICK q \in Buffers, l \in 0..MaxNext : Carries(q, l) /\ Good(q, l)
    BY <2>1 DEF Ind, Sound, Carried
  <2>3. Carries(q, l)'
    BY <1>1, <2>2 DEF Carries, Owes
  <2>4. total = szSendBytes + n /\ szSendBytes = l + Bytes(q) + Bytes(kSendList)
        /\ Bytes(q) \in Nat /\ Bytes(kSendList) \in Nat /\ l \in Nat /\ szSendBytes \in Nat
    BY <1>1, <2>1, <2>2, CounterIs DEF total
  <2>5. /\ Follows(Append(q \o kSendList, c), End, epoch, next + n)
        /\ ~ failed => /\ Gapless(Append(q \o kSendList, c), End)
                       /\ next + n = End + Bytes(Append(q \o kSendList, c))
        /\ Bytes(Append(q \o kSendList, c)) = Bytes(q \o kSendList) + n
    BY <1>1, <2>1, <2>2, GoodGrows DEF c
  <2>6. Append(q \o kSendList, c) = q \o Append(kSendList, c)
    <3>1. /\ q \in Seq(Buffer) /\ kSendList \in Seq(Buffer) /\ <<c>> \in Seq(Buffer)
      BY <1>2, <1>3 DEF Buffers
    <3>2. (q \o kSendList) \o <<c>> = q \o (kSendList \o <<c>>)
      BY <3>1, ConcatAssociative
    <3>3. q \o kSendList \in Buffers
      BY <1>3, ConcatIs
    <3>4. /\ Append(q \o kSendList, c) = (q \o kSendList) \o <<c>>
          /\ Append(kSendList, c) = kSendList \o <<c>>
      BY <1>2, <1>3, <3>3, AppendIs
    <3>. QED  BY <3>2, <3>4
  <2>7. End' = End
    BY <1>1 DEF End
  <2>8. Bytes(q \o kSendList) = Bytes(q) + Bytes(kSendList)
    BY <1>3, BytesConcat
  <2>9. szSendBytes' = l + Bytes(q \o Append(kSendList, c)) /\ szSendBytes' <= SendMax
    BY <1>1, <1>2, <2>4, <2>5, <2>6, <2>8
  <2>10. Good(q, l)'
    BY <1>1, <2>5, <2>6, <2>7, <2>9 DEF Good
  <2>. QED  BY <2>3, <2>10
<1>11. NotStranded'
  <2>1. SUFFICES ASSUME settled
                 PROVE \/ ops # <<>> \/ Senders # {}
                       \/ \E u \in Threads : th[u].at = "error" \/ th[u].err
    BY <1>1 DEF NotStranded, Senders
  <2>2. PICK q \in Buffers, l \in 0..MaxNext : Carries(q, l) /\ Good(q, l)
    BY <2>1 DEF Ind, Sound, Carried
  <2>3. total = szSendBytes + n /\ szSendBytes = l + Bytes(q) + Bytes(kSendList)
        /\ Bytes(q) \in Nat /\ Bytes(kSendList) \in Nat /\ l \in Nat /\ szSendBytes \in Nat
    BY <1>1, <2>1, <2>2, CounterIs DEF total
  <2>4. CASE kSendList # <<>>
    BY <1>1, <2>1, <2>4 DEF Ind, Sound, NotStranded
  <2>5. CASE kSendList = <<>>
    <3>1. l # 0 \/ q # <<>>
      <4>1. Bytes(<<>>) = 0
        BY EmptyIs
      <4>. QED  BY <1>1, <1>2, <2>3, <2>5, <4>1
    <3>2. CASE ops = <<q>>
      BY <3>2
    <3>3. ASSUME NEW u \in Threads, Owes(u) PROVE Senders # {} \/ th[u].at = "error" \/ th[u].err
      <4>1. /\ th[u].at = "undo" => th[u].err
            /\ th[u].at # "postDisc"
        BY <1>1, TurnsAre DEF Ind, Sound, Undoing, At
      <4>2. th[u].back = "undo" => th[u].at \in {"error", "postDisc"}
        BY KnownIs DEF Fits
      <4>. QED  BY <3>3, <4>1, <4>2 DEF Owes, Senders
    <3>. QED  BY <2>2, <3>1, <3>2, <3>3 DEF Carries
  <2>. QED  BY <2>4, <2>5
<1>. QED  BY <1>6, <1>7, <1>8, <1>9, <1>10, <1>11 DEF Sound

LEMMA ReqSendOverflowSound ==
  ASSUME Ind, NEW t \in Threads, NEW n \in Lens, ReqSendOverflow(t, n) PROVE Sound'
<1>1. /\ th[t].at = "idle" /\ bEnable /\ next + n <= MaxNext
      /\ szSendBytes' = Plus(szSendBytes, n) /\ bEnable' = FALSE
      /\ PostDisc
      /\ UNCHANGED <<kSendList, ops, pooled, th, netVars, tellVars>>
  BY DEF ReqSendOverflow, MaySend, At
<1>2. n \in Nat /\ szSendBytes \in Nat
  BY <1>1, ChunkIs, TypedIs DEF Ind, Sound
<1>3. szSendBytes' \in 0..SizeMod - 1
  BY <1>1, <1>2, PlusRange
<1>4. /\ conn' \in {"none", "up", "closing", "stuck"} /\ disc' \in {"none", "posted", "failed"}
      /\ conn' = "none" => conn = "none"
  BY <1>1, KnownIs DEF PostDisc
<1>5. /\ th[t] \in Thread /\ Fits(th[t]) /\ failed \in BOOLEAN
  BY KnownIs
<1>6. Become(t, th[t])
  <2>1. th \in [Threads -> Thread]
    BY DEF Ind, Sound, Typed
  <2>. QED  BY <1>1, <2>1 DEF Become
<1>7. th[t].at \notin Telling /\ th[t].at # "undo" /\ th[t].at # "clear" /\ th[t].back # "undo"
  BY <1>1, <1>5 DEF Fits, Telling
<1>8. ~ pooled
  BY <1>1, TurnsAre DEF Ind
<1>. QED  BY <1>1, <1>3, <1>4, <1>5, <1>6, <1>7, <1>8, OtherStep DEF netVars

-----------------------------------------------------------------------------
(* handSend                                                                 *)

LEMMA WireExtends ==
  ASSUME StreamIntact, settled, wire \in Seq(Byte), NEW p \in Buffers, NEW k \in 0..Bytes(p),
         NEW n \in Nat, Follows(p, End, epoch, n), ~ failed => Gapless(p, End),
         wire' = wire \o Sent(p, k), UNCHANGED <<epoch, failed>>
  PROVE  StreamIntact'
<1>. DEFINE s == Sent(p, k)
            z == Len(wire)
<1>0. k \in Nat /\ z \in Nat /\ End \in Nat
  BY BytesNat, EndIs
<1>1. s \in Seq(Byte) /\ Len(s) = k
  BY SentIs
<1>2. /\ \A i \in 1..k : s[i][1] = epoch /\ End <= s[i][2]
      /\ \A i \in 1..k : i > 1 => s[i][2] > s[i - 1][2]
      /\ ~ failed => \A i \in 1..k : s[i][2] = End + i - 1
  BY <1>0, SentFollows
<1>. HIDE DEF s, z
<1>3. /\ wire' = wire \o s /\ Len(wire') = z + k
      /\ \A i \in 1..z : wire'[i] = wire[i]
      /\ \A i \in 1..k : wire'[z + i] = s[i]
  <2>1. wire' = wire \o s /\ z = Len(wire)
    BY DEF s, z
  <2>2. Len(wire \o s) = z + k
    BY <1>1, <2>1, ConcatProperties
  <2>3. \A i \in 1..z : (wire \o s)[i] = wire[i]
    BY <1>0, <1>1, <2>1, ConcatProperties
  <2>4. \A i \in 1..k : (wire \o s)[z + i] = s[i]
    BY <1>0, <1>1, <2>1, ConcatProperties
  <2>. QED  BY <2>1, <2>2, <2>3, <2>4
<1>4. \A i \in 1..z : /\ wire[i][1] = epoch
                      /\ i > 1 => wire[i][2] > wire[i - 1][2]
                      /\ ~ failed => wire[i][2] = i - 1
  BY DEF StreamIntact, z
<1>5. z > 0 => /\ End = wire[z][2] + 1 /\ z \in 1..z /\ wire[z][2] \in Nat
  BY EndIs, <1>0 DEF End, z
<1>6. z = 0 => End = 0
  BY DEF End, z
<1>7. ~ failed => End = z
  BY <1>0, <1>4, <1>5, <1>6
<1>8. ASSUME NEW j \in 1..Len(wire')
      PROVE  /\ wire'[j][1] = epoch
             /\ j > 1 => wire'[j][2] > wire'[j - 1][2]
             /\ ~ failed => wire'[j][2] = j - 1
  <2>1. CASE j \in 1..z
    <3>1. j > 1 => j - 1 \in 1..z
      BY <1>0, <2>1
    <3>. QED  BY <1>3, <1>4, <2>1, <3>1
  <2>2. CASE j \in z + 1..z + k
    <3>1. PICK h \in 1..k : j = z + h
      <4>1. j - z \in 1..k /\ j = z + (j - z)
        BY <1>0, <2>2
      <4>. QED  BY <4>1
    <3>2. wire'[j] = s[h]
      BY <1>3, <3>1
    <3>3. wire'[j][1] = epoch
      BY <1>2, <3>2
    <3>4. ASSUME ~ failed PROVE wire'[j][2] = j - 1
      BY <1>0, <1>2, <1>7, <3>1, <3>2, <3>4
    <3>5. ASSUME j > 1 PROVE wire'[j][2] > wire'[j - 1][2]
      <4>1. CASE h = 1
        <5>1. z > 0 /\ j - 1 = z
          BY <1>0, <3>1, <3>5, <4>1
        <5>2. wire'[j - 1] = wire[z] /\ End = wire[z][2] + 1 /\ wire[z][2] \in Nat
          BY <1>3, <1>5, <5>1
        <5>3. End <= s[h][2]
          BY <1>2, <3>1
        <5>4. s[h][2] \in Nat
          <6>1. s[h] \in (1..MaxEpoch) \X (0..MaxNext)
            BY <1>1 DEF Byte
          <6>. QED  BY <6>1, SendAssumption
        <5>5. wire'[j - 1][2] = wire[z][2] /\ wire'[j][2] = s[h][2]
          BY <3>2, <5>2
        <5>6. wire[z][2] + 1 <= s[h][2]
          BY <5>2, <5>3
        <5>7. \A a, b \in Nat : a + 1 <= b => b > a
          OBVIOUS
        <5>8. s[h][2] > wire[z][2]
          BY <5>2, <5>4, <5>6, <5>7
        <5>. QED  BY <5>5, <5>8
      <4>2. CASE h # 1
        <5>1. h > 1 /\ h - 1 \in 1..k /\ j - 1 = z + (h - 1)
          BY <1>0, <3>1, <4>2
        <5>2. wire'[j - 1] = s[h - 1]
          BY <1>3, <5>1
        <5>. QED  BY <1>2, <3>2, <5>1, <5>2
      <4>. QED  BY <4>1, <4>2
    <3>. QED  BY <3>3, <3>4, <3>5
  <2>. QED  BY <1>0, <1>3, <2>1, <2>2
<1>. QED  BY <1>8 DEF StreamIntact

\* The stream behind a completion of k bytes of p
LEMMA GoodCompletes ==
  ASSUME Ind, NEW p \in Queued, NEW k \in 0..Bytes(p), Good(p, 0), NEW x \in Buffers,
         x = Rest(p, k), wire' = wire \o Sent(p, k),
         UNCHANGED <<bEnable, szSendBytes, kSendList, epoch, next, failed>>
  PROVE  Good(x, k)'
<1>. DEFINE ks == kSendList
            s == p \o ks
            y == x \o ks
<1>1. /\ p \in Buffers /\ ks \in Buffers /\ wire \in Seq(Byte) /\ next \in Nat /\ End \in Nat
      /\ p # <<>>
  BY TypedIs DEF Ind, Sound, Queued, Typed
<1>2. /\ Bytes(p) \in Nat /\ Bytes(ks) \in Nat /\ k \in Nat /\ k <= Bytes(p)
      /\ s \in Buffers /\ Bytes(s) = Bytes(p) + Bytes(ks)
  BY <1>1, BytesNat, BytesConcat
<1>3. y = Rest(s, k)
  BY <1>1, RestConcat
<1>4. /\ bEnable => szSendBytes = 0 + Bytes(s) /\ szSendBytes <= SendMax
      /\ Follows(s, End, epoch, next)
      /\ ~ failed => Gapless(s, End)
      /\ ~ failed /\ bEnable => next = End + Bytes(s)
  BY <1>1 DEF Good
<1>5. Bytes(x) = Bytes(p) - k
  BY <1>1, RestIs
<1>6. Bytes(y) = Bytes(x) + Bytes(ks) /\ Bytes(x) \in Nat
  BY <1>1, BytesConcat, BytesNat
<1>7. Bytes(s) = k + Bytes(y) /\ Bytes(y) \in Nat
  BY <1>2, <1>5, <1>6
<1>8. CASE k = 0
  <2>1. x = p /\ Sent(p, k) = <<>>
    BY <1>1, <1>8, RestNone
  <2>2. wire' = wire
    BY <1>1, <2>1, ConcatEmptySeq
  <2>3. End' = End
    BY <2>2 DEF End
  <2>. QED  BY <1>8, <2>1, <2>3 DEF Good
<1>9. CASE k # 0
  <2>1. k \in 1..k /\ k \in 1..Bytes(p) /\ k \in 1..Bytes(s)
    BY <1>2, <1>9
  <2>2. PICK m \in 1..Len(p) : Place(p, k, m) /\ Sent(p, k)[k] = ByteAt(p, k, m)
    BY <1>1, <2>1, SentIs
  <2>3. /\ Reach(p, k, m) \in Nat /\ ByteAt(p, k, m) = <<p[m].e, Reach(p, k, m) - 1>>
    BY <1>1, <1>2, <2>2, ReachIs
  <2>4. Sent(p, k) \in Seq(Byte) /\ Len(Sent(p, k)) = k
    BY <1>1, SentIs
  <2>5. End' = Reach(p, k, m)
    <3>1. /\ Len(wire') = Len(wire) + k /\ wire' # <<>> /\ Len(wire) \in Nat
          /\ wire'[Len(wire) + k] = Sent(p, k)[k]
      <4>. DEFINE z == Sent(p, k)
      <4>0. z \in Seq(Byte) /\ Len(z) = k /\ wire' = wire \o z
        BY <2>4
      <4>. HIDE DEF z
      <4>1. /\ Len(wire') = Len(wire) + k /\ Len(wire) \in Nat
            /\ wire'[Len(wire) + k] = Sent(p, k)[k]
        <5>1. (wire \o z)[Len(wire) + k] = z[k]
          <6>1. Len(wire) \in Nat /\ Len(z) \in Nat /\ k \in Len(z)..Len(z) /\ k > 0
            BY <1>1, <1>2, <2>1, <4>0
          <6>2. Len(wire) + k \in Len(wire) + 1..Len(wire) + Len(z) /\ Len(wire) + k - Len(wire) = k
            BY <6>1
          <6>3. wire \in Seq(Byte) /\ z \in Seq(Byte) /\ Len(wire) + k \in 1..Len(wire) + Len(z)
                /\ ~ (Len(wire) + k <= Len(wire))
            BY <1>1, <4>0, <6>1, <6>2
          <6>4. (wire \o z)[Len(wire) + k] = z[Len(wire) + k - Len(wire)]
            BY <6>3, ConcatProperties
          <6>. QED  BY <6>2, <6>4
        <5>2. Len(wire \o z) = Len(wire) + k /\ Len(wire) \in Nat
          <6>1. wire \in Seq(Byte) /\ z \in Seq(Byte) /\ Len(z) = k
            BY <1>1, <4>0
          <6>2. Len(wire \o z) = Len(wire) + Len(z)
            BY <6>1, ConcatProperties
          <6>. QED  BY <6>1, <6>2
        <5>. QED  BY <4>0, <5>1, <5>2 DEF z
      <4>2. Len(wire') > 0
        BY <1>2, <1>9, <4>1
      <4>. QED  BY <4>1, <4>2
    <3>2. wire'[Len(wire')][2] = Reach(p, k, m) - 1
      BY <2>2, <2>3, <3>1
    <3>3. End' = wire'[Len(wire')][2] + 1
      BY <3>1 DEF End
    <3>. QED  BY <2>3, <3>2, <3>3
  <2>6. Place(s, k, m) /\ Reach(s, k, m) = Reach(p, k, m)
    <3>1. /\ m \in 1..Len(s) /\ s[m] = p[m] /\ m \in 0..Len(p) /\ m - 1 \in 0..Len(p)
      <4>1. Len(p) \in Nat /\ Len(ks) \in Nat /\ Len(s) = Len(p) + Len(ks) /\ s[m] = p[m]
        BY <1>1, ConcatIs, BuffersAre
      <4>. QED  BY <4>1
    <3>2. Upto(s, m) = Upto(p, m) /\ Upto(s, m - 1) = Upto(p, m - 1)
      BY <1>1, <3>1, UptoConcat
    <3>. QED  BY <2>2, <3>1, <3>2 DEF Place, Reach
  <2>. HIDE DEF s, y, ks
  <2>7. Follows(y, End', epoch, next)
    BY <1>1, <1>2, <1>3, <1>4, <2>1, <2>5, <2>6, RestFollows
  <2>8. ~ failed => End' = End + k /\ Gapless(y, End + k)
    BY <1>1, <1>2, <1>3, <1>4, <2>1, <2>5, <2>6, RestGapless
  <2>9. bEnable => szSendBytes = k + Bytes(y) /\ szSendBytes <= SendMax
    BY <1>4, <1>7, <1>2
  <2>10. ~ failed /\ bEnable => next = End' + Bytes(y)
    BY <1>1, <1>2, <1>4, <1>7, <2>8
  <2>11. x \o kSendList' = y
    BY DEF y, ks
  <2>. QED  BY <2>7, <2>8, <2>9, <2>10, <2>11 DEF Good
<1>. QED  BY <1>8, <1>9

LEMMA CompleteSendSound ==
  ASSUME Ind, NEW t \in Threads, NEW i \in 1..Len(ops), NEW k \in 0..Bytes(ops[i]),
         CompleteSend(t, i, k)
  PROVE  Sound'
<1>. DEFINE rest == SubSeq(ops, 1, i - 1) \o SubSeq(ops, i + 1, Len(ops))
<1>1. PICK p : p = ops[i]
  OBVIOUS
<1>2. PICK x : x = Rest(p, k)
  OBVIOUS
<1>3. PICK s : s = Sent(p, k)
  OBVIOUS
<1>a. PICK e \in BOOLEAN : e = (k = 0)
  OBVIOUS
<1>b. PICK a \in Places : a = IF k = 0 THEN "auto" ELSE "count"
  BY DEF Places, Telling
<1>. DEFINE r == [Idle EXCEPT !.at = a, !.op = x, !.last = k, !.sent = s, !.err = e]
<1>4. /\ th[t].at = "idle" /\ ops' = rest /\ wire' = wire \o s /\ Become(t, r)
      /\ UNCHANGED <<bEnable, szSendBytes, kSendList, conn, disc, pooled, epoch, next, failed,
                     settled, tellVars>>
  BY <1>1, <1>2, <1>3, <1>a, <1>b DEF CompleteSend, RemoveOp, At
<1>5. /\ ops \in Seq(Queued) /\ ops \in Seq(Buffers) /\ wire \in Seq(Byte) /\ next \in 0..MaxNext
      /\ kSendList \in Buffers /\ Bytes(kSendList) \in Nat /\ next \in Nat /\ MaxNext \in Nat
  BY TypedIs, SendAssumption DEF Ind, Sound, Typed
<1>6. p \in Queued /\ p \in Buffers /\ p # <<>> /\ k \in 0..Bytes(p) /\ Bytes(p) \in Nat /\ k \in Nat
  <2>1. p \in Queued
    BY <1>1, <1>5
  <2>. QED  BY <1>1, <2>1, BytesNat DEF Queued
<1>7. /\ x \in Buffers /\ Bytes(x) = Bytes(p) - k /\ (k = 0 => x = p)
      /\ s \in Seq(Byte) /\ Len(s) = k
  BY <1>2, <1>3, <1>6, RestIs, RestNone, SentIs
<1>8. /\ ops' \in Seq(Buffers) /\ InKernel(ops') \in Nat /\ InKernel(ops) = InKernel(ops') + Bytes(p)
  BY <1>1, <1>4, <1>5, InKernelRemove
<1>9. ops' \in Seq(Queued)
  <2>1. SubSeq(ops, 1, i - 1) \in Seq(Queued) /\ SubSeq(ops, i + 1, Len(ops)) \in Seq(Queued)
    BY <1>5
  <2>. QED  BY <1>4, <2>1, ConcatProperties
<1>10. th[t] \in Thread /\ ~ Owing(th[t]) /\ th[t].at \notin Telling
  <2>1. th[t] \in Thread /\ Fits(th[t])
    BY KnownIs
  <2>. QED  BY <1>4, <2>1 DEF Fits, Owing, Telling
<1>11. InHands(Shares) \in Nat /\ k \in 0..MaxNext
  <2>1. Counts(Shares, Threads)
    BY SharesAre DEF Ind, Sound, Typed
  <2>2. InHands(Shares) \in Nat
    BY <2>1, InHandsIs
  <2>3. Kept <= next
    BY DEF Ind, Sound
  <2>4. Bytes(p) <= next
    BY <1>5, <1>6, <1>8, <2>2, <2>3 DEF Kept
  <2>. QED  BY <1>5, <1>6, <2>2, <2>4
<1>. HIDE DEF rest
<1>12. /\ r.at = a /\ r.op = x /\ r.last = k /\ r.sent = s
       /\ r.err = e /\ r.back = "idle"
  BY DEF Idle
<1>13. r \in Record
  <2>1. Idle \in Record
    BY IdleThread DEF Thread
  <2>2. a \in Places /\ e \in BOOLEAN /\ x \in Buffers /\ k \in 0..MaxNext /\ s \in Seq(Byte)
    BY <1>7, <1>11
  <2>. QED  BY <2>1, <2>2 DEF Record
<1>. HIDE DEF r
<1>14. r \in Thread /\ Owing(r) /\ Comes(r) /\ r.at # "undo" /\ r.at # "clear" /\ r.back # "undo"
       /\ (r.at \in Telling <=> k # 0)
  <2>1. CASE k = 0
    <3>1. r.at = "auto" /\ r.op # <<>> /\ r.back = "idle"
      BY <1>6, <1>7, <1>12, <1>b, <2>1
    <3>. QED  BY <1>13, <2>1, <3>1 DEF Thread, Fits, Owing, Telling, Comes
  <2>2. CASE k # 0
    <3>1. r.at = "count" /\ r.last > 0 /\ r.back = "idle"
      BY <1>6, <1>12, <1>b, <2>2
    <3>. QED  BY <1>13, <2>2, <3>1 DEF Thread, Fits, Owing, Telling, Comes
  <2>. QED  BY <2>1, <2>2
<1>15. Turn(t) /\ th'[t] = r
  BY <1>4, <1>14, TurnIs DEF Ind, Sound, Typed
<1>16. ops # <<>> /\ conn # "none"
  <2>1. ops # <<>>
    BY <1>1, <1>5
  <2>. QED  BY <2>1 DEF Ind, Sound, Quiet
<1>17. Typed'
  <2>1. wire' \in Seq(Byte)
    BY <1>4, <1>5, <1>7, ConcatProperties
  <2>. QED  BY <1>4, <1>9, <1>15, <2>1 DEF Ind, Sound, Typed, Turn, tellVars
<1>18. Undoing' /\ NotStranded'
  BY <1>4, <1>14, <1>15, UndoingKeeps, StrandKeeps DEF Ind, Sound
<1>19. Quiet'
  BY <1>4, <1>14, <1>15, <1>16, QuietKeeps DEF Ind, Sound, tellVars
<1>20. (Kept <= next)'
  <2>1. Holding(th[t]) = 0 /\ Holding(th'[t]) = Bytes(p)
    <3>1. Holding(th[t]) = 0 /\ Holding(th'[t]) = r.last + Bytes(r.op)
      BY <1>10, <1>14, <1>15 DEF Holding
    <3>2. r.last + Bytes(r.op) = k + (Bytes(p) - k)
      BY <1>7, <1>12
    <3>. QED  BY <1>6, <3>1, <3>2
  <2>2. InHands(Shares)' + Holding(th[t]) = InHands(Shares) + Holding(th'[t])
        /\ InHands(Shares)' \in Nat
    BY <1>15, HandsMove
  <2>3. /\ Bytes(kSendList)' = Bytes(kSendList) /\ InKernel(ops)' = InKernel(ops')
    BY <1>4
  <2>4. Kept <= next
    BY DEF Ind, Sound
  <2>. QED  BY <1>4, <1>5, <1>6, <1>8, <1>11, <2>1, <2>2, <2>3, <2>4 DEF Kept
<1>21. ASSUME settled
       PROVE  /\ ops = <<p>> /\ ops' = <<>> /\ Good(p, 0) /\ \A u \in Threads : ~ Owing(th[u])
  <2>1. PICK q \in Buffers, l \in 0..MaxNext : Carries(q, l) /\ Good(q, l)
    BY <1>21 DEF Ind, Sound, Carried
  <2>2. ops = <<q>> /\ l = 0 /\ \A u \in Threads : ~ Owes(u)
    BY <1>16, <2>1 DEF Carries
  <2>3. i = 1 /\ p = q
    BY <1>1, <2>2
  <2>4. rest = <<>>
    <3>1. SubSeq(ops, 1, 0) = <<>> /\ SubSeq(ops, 2, 1) = <<>>
      BY <1>5
    <3>2. Len(ops) = 1
      BY <2>2
    <3>. QED  BY <2>3, <3>1, <3>2 DEF rest
  <2>. QED  BY <1>4, <2>1, <2>2, <2>3, <2>4, OwesIs
<1>22. Carried'
  <2>1. SUFFICES ASSUME settled
                 PROVE  \E q \in Buffers, l \in 0..MaxNext : Carries(q, l)' /\ Good(q, l)'
    BY <1>4 DEF Carried
  <2>2. Good(x, k)'
    <3>1. /\ p \in Queued /\ k \in 0..Bytes(p) /\ Good(p, 0) /\ x \in Buffers
          /\ x = Rest(p, k) /\ wire' = wire \o Sent(p, k)
          /\ UNCHANGED <<bEnable, szSendBytes, kSendList, epoch, next, failed>>
      BY <1>2, <1>3, <1>4, <1>6, <1>7, <1>21, <2>1
    <3>. QED  BY <3>1, GoodCompletes
  <2>3. \A u \in Threads : Owes(u)' <=> Owing(th'[u])
    BY DEF Owes, Owing
  <2>4. Owes(t)' /\ \A u \in Threads : u # t => ~ Owes(u)'
    BY <1>14, <1>15, <1>21, <2>1, <2>3 DEF Turn, Moves
  <2>5. th'[t].op = x /\ th'[t].last = k /\ ops' = <<>>
    BY <1>12, <1>15, <1>21, <2>1
  <2>6. Carries(x, k)'
    BY <2>4, <2>5 DEF Carries
  <2>7. x \in Buffers /\ k \in 0..MaxNext
    BY <1>7, <1>11
  <2>. QED  BY <2>2, <2>6, <2>7
<1>23. StreamIntact'
  <2>1. CASE settled
    <3>1. Good(p, 0)
      BY <1>21, <2>1
    <3>2. Follows(p \o kSendList, End, epoch, next) /\ (~ failed => Gapless(p \o kSendList, End))
      BY <1>6, <3>1 DEF Good
    <3>3. End \in Nat
      BY <1>5, EndIs
    <3>4. Follows(p, End, epoch, next) /\ (~ failed => Gapless(p, End))
      BY <1>5, <1>6, <3>2, <3>3, FollowsPart, GaplessPart
    <3>. QED  BY <1>3, <1>4, <1>5, <1>6, <2>1, <3>4, WireExtends DEF Ind, Sound
  <2>2. CASE ~ settled
    BY <1>4, <2>2 DEF StreamIntact
  <2>. QED  BY <2>1, <2>2
<1>24. ToldInOrder'
  <2>1. SUFFICES ASSUME settled, kFunOnSend
                 PROVE  \/ {u \in Threads : th'[u].at \in Telling} = {} /\ wire' = told'
                        \/ \E u \in Threads : /\ {v \in Threads : th'[v].at \in Telling} = {u}
                                              /\ wire' = told' \o th'[u].sent
    BY <1>4 DEF ToldInOrder, tellVars
  <2>2. \A u \in Threads : th[u].at \notin Telling
    BY <1>21, <2>1 DEF Owing
  <2>3. wire = told
    BY <2>1, <2>2 DEF Ind, Sound, ToldInOrder
  <2>4. CASE k = 0
    <3>1. {u \in Threads : th'[u].at \in Telling} = {}
      BY <1>14, <1>15, <2>2, <2>4 DEF Turn, Moves
    <3>2. s = <<>>
      BY <1>7, <2>4
    <3>3. wire' = wire
      BY <1>4, <1>5, <3>2, ConcatEmptySeq
    <3>. QED  BY <1>4, <2>3, <3>1, <3>3 DEF tellVars
  <2>5. CASE k # 0
    <3>1. {u \in Threads : th'[u].at \in Telling} = {t}
      BY <1>14, <1>15, <2>2, <2>5 DEF Turn, Moves
    <3>2. wire' = told' \o th'[t].sent
      BY <1>4, <1>12, <1>15, <2>3 DEF tellVars
    <3>. QED  BY <3>1, <3>2
  <2>. QED  BY <2>4, <2>5
<1>. QED  BY <1>17, <1>18, <1>19, <1>20, <1>22, <1>23, <1>24 DEF Sound

-----------------------------------------------------------------------------
(* autoPostSend                                                             *)

\* What is left in the hands of the thread once autoPostSend has filled up f
LEMMA AutoPostSendMakes ==
  ASSUME Ind, NEW t \in Threads, AutoPostSend(t), NEW f \in Buffers, f = Filled(th[t].op)
  PROVE  \E r \in Thread : /\ Become(t, r) /\ Holding(r) = Bytes(f)
                           /\ r.at \notin Telling \cup {"undo", "clear"} /\ r.back # "undo"
                           /\ f = <<>> => ~ Owing(r)
                           /\ f # <<>> => Owing(r) /\ r.op = f /\ r.last = 0 /\ Comes(r)
<1>1. /\ th[t].at = "auto"
      /\ IF f = <<>> THEN EndSend(t)
         ELSE Become(t, [th[t] EXCEPT !.at = "repost", !.op = f, !.last = 0])
  BY DEF AutoPostSend, At
<1>2. th[t] \in Record /\ Fits(th[t])
  BY KnownIs
<1>3. CASE f = <<>>
  <2>1. PICK r \in Thread : Become(t, r) /\ ~ Owing(r) /\ r.at \in {"idle", "error"}
    BY <1>1, <1>3, EndSendMakes
  <2>2. r.back # "undo"
    BY <2>1 DEF Owing
  <2>3. Holding(r) = Bytes(f)
    BY <1>3, <2>1, BytesEmpty DEF Holding
  <2>. QED  BY <1>3, <2>1, <2>2, <2>3 DEF Telling
<1>4. CASE f # <<>>
  <2>. DEFINE r == [th[t] EXCEPT !.at = "repost", !.op = f, !.last = 0]
  <2>1. "repost" \in Places /\ 0 \in 0..MaxNext
    BY SendAssumption DEF Places
  <2>2. r \in Record /\ r.at = "repost" /\ r.op = f /\ r.last = 0 /\ r.back = th[t].back
    BY <1>2, <2>1 DEF Record
  <2>3. th[t].back # "undo"
    BY <1>1, <1>2 DEF Fits
  <2>4. Become(t, r)
    BY <1>1, <1>4
  <2>. HIDE DEF r
  <2>5. Fits(r) /\ Owing(r) /\ Comes(r)
    BY <1>4, <2>2, <2>3 DEF Fits, Owing, Comes, Telling
  <2>6. Holding(r) = Bytes(f)
    BY <2>2, <2>5, BytesNat DEF Holding
  <2>. QED  BY <1>4, <2>2, <2>3, <2>4, <2>5, <2>6 DEF Thread, Telling
<1>. QED  BY <1>3, <1>4

LEMMA AutoPostSendSound == ASSUME Ind, NEW t \in Threads, AutoPostSend(t) PROVE Sound'
<1>1. PICK q \in Buffers, l \in 0..MaxNext : q = th[t].op /\ l = th[t].last
  BY KnownIs, RecordIs
<1>2. /\ kSendList \in Buffers /\ Bytes(kSendList) \in Nat /\ Bytes(q) \in Nat
      /\ InKernel(ops) \in Nat /\ l \in Nat /\ next \in Nat
      /\ szSendBytes \in 0..SizeMod - 1
  BY TypedIs, BytesNat, SendAssumption DEF Ind, Sound, Typed
<1>3. /\ Filled(q) \in Buffers /\ Unfilled(q) \in Buffers
      /\ Filled(q) \o Unfilled(q) = q \o kSendList
      /\ Filled(q) = <<>> => q = <<>> /\ Unfilled(q) = <<>>
  BY <1>2, FilledIs
<1>4. PICK f \in Buffers, u \in Buffers : f = Filled(q) /\ u = Unfilled(q)
  BY <1>3
<1>5. /\ f \o u = q \o kSendList /\ (f = <<>> => u = <<>>)
  BY <1>3, <1>4
<1>6. /\ th[t].at = "auto" /\ bEnable /\ szSendBytes' = Minus(szSendBytes, l) /\ kSendList' = u
      /\ UNCHANGED <<bEnable, ops, conn, disc, pooled, netVars, tellVars>>
  BY <1>1, <1>4 DEF AutoPostSend, At
<1>7. PICK r \in Thread : /\ Become(t, r) /\ Holding(r) = Bytes(f)
                          /\ r.at \notin Telling \cup {"undo", "clear"} /\ r.back # "undo"
                          /\ f = <<>> => ~ Owing(r)
                          /\ f # <<>> => Owing(r) /\ r.op = f /\ r.last = 0 /\ Comes(r)
  <2>1. f = Filled(th[t].op)
    BY <1>1, <1>4
  <2>. QED  BY <2>1, AutoPostSendMakes
<1>8. Turn(t) /\ th'[t] = r
  BY <1>7, TurnIs DEF Ind, Sound, Typed
<1>9. Owing(th[t]) /\ th[t].at \notin Telling /\ Holding(th[t]) = l + Bytes(q)
  BY <1>1, <1>6 DEF Owing, Telling, Holding
<1>10. ~ pooled /\ conn = "up"
  BY <1>6, TurnsAre DEF Ind
<1>11. /\ Bytes(f) \in Nat /\ Bytes(u) \in Nat
       /\ Bytes(f \o u) = Bytes(f) + Bytes(u)
       /\ Bytes(f) + Bytes(u) = Bytes(q) + Bytes(kSendList)
  <2>1. Bytes(f \o u) = Bytes(f) + Bytes(u) /\ Bytes(q \o kSendList) = Bytes(q) + Bytes(kSendList)
    BY <1>2, BytesConcat
  <2>. QED  BY <1>5, <2>1, BytesNat
<1>12. Typed'
  <2>1. szSendBytes' \in 0..SizeMod - 1
    BY <1>2, <1>6, MinusNat
  <2>. QED  BY <1>6, <1>8, <2>1 DEF Ind, Sound, Typed, Turn, tellVars, netVars
<1>13. Undoing' /\ StreamIntact'
  BY <1>6, <1>7, <1>8, UndoingKeeps, StreamKeeps DEF Ind, Sound, netVars
<1>14. Quiet'
  BY <1>6, <1>7, <1>8, <1>10, QuietKeeps DEF Ind, Sound, netVars, tellVars
<1>15. NotStranded'
  BY <1>5, <1>6, <1>7, <1>8, StrandKeeps
<1>16. ToldInOrder'
  BY <1>6, <1>7, <1>8, <1>9, ToldKeeps DEF Ind, Sound, netVars, tellVars
<1>17. (Kept <= next)'
  <2>1. InHands(Shares)' + (l + Bytes(q)) = InHands(Shares) + Bytes(f)
        /\ InHands(Shares) \in Nat /\ InHands(Shares)' \in Nat
    BY <1>7, <1>8, <1>9, HandsMove
  <2>2. Bytes(kSendList)' = Bytes(u) /\ InKernel(ops)' = InKernel(ops) /\ next' = next
    BY <1>6 DEF netVars
  <2>3. Kept <= next
    BY DEF Ind, Sound
  <2>. QED  BY <1>2, <1>11, <2>1, <2>2, <2>3 DEF Kept
<1>18. Carried'
  <2>1. SUFFICES ASSUME settled
                 PROVE  \E p \in Buffers, k \in 0..MaxNext : Carries(p, k)' /\ Good(p, k)'
    BY <1>6 DEF Carried, netVars
  <2>2. PICK p \in Buffers, k \in 0..MaxNext : Carries(p, k) /\ Good(p, k)
    BY <2>1 DEF Ind, Sound, Carried
  <2>3. /\ p = q /\ k = l /\ ops = <<>>
        /\ \A v \in Threads : v # t => ~ Owes(v)
    <3>1. Owes(t)
      BY <1>9, OwesIs
    <3>. QED  BY <1>1, <2>2, <3>1 DEF Carries
  <2>4. Good(q, l)
    BY <2>2, <2>3
  <2>5. \A v \in Threads : Owes(v)' <=> Owing(th'[v])
    BY DEF Owes, Owing
  <2>6. \A v \in Threads : v # t => ~ Owes(v)'
    BY <1>8, <2>3, <2>5, OwesIs DEF Turn, Moves
  <2>7. Carries(f, 0)'
    <3>1. CASE f = <<>>
      <4>1. \A v \in Threads : ~ Owes(v)'
        BY <1>7, <1>8, <2>5, <2>6, <3>1
      <4>. QED  BY <1>6, <2>3, <3>1, <4>1 DEF Carries
    <3>2. CASE f # <<>>
      <4>1. Owes(t)' /\ th'[t].op = f /\ th'[t].last = 0 /\ ops' = <<>>
        BY <1>6, <1>7, <1>8, <2>3, <2>5, <3>2
      <4>. QED  BY <2>6, <4>1 DEF Carries
    <3>. QED  BY <3>1, <3>2
  <2>8. szSendBytes' = 0 + Bytes(f \o u) /\ szSendBytes' <= SendMax
    <3>1. l <= l + Bytes(q)
      BY <1>2
    <3>2. /\ Minus(szSendBytes, l) = l + Bytes(q) + Bytes(kSendList) - l
          /\ Minus(szSendBytes, l) <= SendMax
      BY <1>2, <1>6, <2>4, <3>1, TakenOff
    <3>. QED  BY <1>2, <1>6, <1>11, <3>2
  <2>9. End' = End
    BY <1>6 DEF End, netVars
  <2>10. Good(f, 0)'
    BY <1>5, <1>6, <2>4, <2>8, <2>9 DEF Good, netVars
  <2>11. 0 \in 0..MaxNext
    BY SendAssumption
  <2>. QED  BY <2>7, <2>10, <2>11
<1>. QED  BY <1>12, <1>13, <1>14, <1>15, <1>16, <1>17, <1>18 DEF Sound

-----------------------------------------------------------------------------
(* The end of a connection, and the next                                    *)

LEMMA NothingGood ==
  /\ <<>> \in Buffers /\ Bytes(<<>> \o <<>>) = 0 /\ 0 \in 0..MaxNext
  /\ \A e : \A n \in Nat : Follows(<<>> \o <<>>, 0, e, n)
  /\ Gapless(<<>> \o <<>>, 0)
<1>1. <<>> \o <<>> = <<>> /\ <<>> \in Buffers /\ Bytes(<<>>) = 0 /\ 0 \in 0..MaxNext
  BY EmptyIs, SendAssumption
<1>2. /\ \A e : \A n \in Nat : Follows(<<>>, 0, e, n)
      /\ Gapless(<<>>, 0)
  BY DEF Follows, Gapless
<1>. QED  BY <1>1, <1>2

LEMMA HandDisconnectSound == ASSUME Ind, NEW t \in Threads, HandDisconnect(t) PROVE Sound'
<1>1. /\ th[t].at = "clear" /\ szSendBytes' = 0 /\ kSendList' = <<>> /\ bEnable' = FALSE
      /\ pooled' = TRUE /\ settled' = (ops = <<>> /\ \A u \in Threads : ~ Owes(u))
      /\ wire' = <<>> /\ told' = <<>> /\ pkCkListen' = FALSE /\ Become(t, Idle)
      /\ UNCHANGED <<ops, conn, disc, epoch, next, failed, kFunOnSend>>
  BY DEF HandDisconnect, At
<1>2. Turn(t) /\ th'[t] = Idle /\ ~ Owing(Idle) /\ Idle.at = "idle" /\ Idle.back = "idle"
  BY <1>1, IdleThread, TurnIs DEF Ind, Sound, Typed, Idle
<1>3. ~ kFunOnSend /\ (conn = "none" => ops = <<>>)
  BY <1>1 DEF Ind, Sound, Quiet, At
<1>4. Typed'
  <2>1. /\ 0 \in 0..SizeMod - 1 /\ <<>> \in Buffers /\ <<>> \in Seq(Byte)
        /\ settled' \in BOOLEAN
    BY <1>1, SendAssumption, EmptyIs
  <2>. QED  BY <1>1, <1>2, <2>1 DEF Ind, Sound, Typed, Turn
<1>5. Undoing'
  BY <1>1, <1>2, UndoingKeeps DEF Ind, Sound
<1>6. \A u \in Threads : Owes(u)' => Owes(u)
  BY <1>2 DEF Turn, Moves, Owes, Owing
<1>7. Quiet'
  BY <1>1, <1>3, <1>6 DEF Quiet
<1>8. (Kept <= next)'
  <2>1. InHands(Shares)' + Holding(th[t]) = InHands(Shares) + 0
        /\ InHands(Shares) \in Nat /\ InHands(Shares)' \in Nat /\ Holding(th[t]) \in Nat
    BY <1>2, HandsMove DEF Holding
  <2>2. /\ Bytes(kSendList)' = 0 /\ InKernel(ops)' = InKernel(ops) /\ next' = next
        /\ Bytes(kSendList) \in Nat /\ InKernel(ops) \in Nat /\ next \in Nat
    BY <1>1, TypedIs, EmptyIs DEF Ind, Sound
  <2>3. Kept <= next
    BY DEF Ind, Sound
  <2>. QED  BY <2>1, <2>2, <2>3 DEF Kept
<1>9. Carried'
  <2>1. SUFFICES ASSUME settled' PROVE Carries(<<>>, 0)' /\ Good(<<>>, 0)'
    BY NothingGood DEF Carried
  <2>2. Carries(<<>>, 0)'
    BY <1>1, <1>3, <1>6, <2>1 DEF Carries
  <2>3. End' = 0 /\ next' \in Nat
    BY <1>1, TypedIs DEF Ind, Sound, End
  <2>4. Good(<<>>, 0)'
    BY <1>1, <2>3, NothingGood DEF Good
  <2>. QED  BY <2>2, <2>4
<1>10. StreamIntact' /\ NotStranded' /\ ToldInOrder'
  BY <1>1, <1>3 DEF StreamIntact, NotStranded, ToldInOrder
<1>. QED  BY <1>4, <1>5, <1>7, <1>8, <1>9, <1>10 DEF Sound

LEMMA ReuseSound == ASSUME Ind, Reuse PROVE Sound'
<1>1. /\ pooled /\ conn = "none" /\ epoch < MaxEpoch /\ (\A t \in Threads : th[t].at = "idle")
      /\ pooled' = FALSE /\ conn' = "up" /\ bEnable' = TRUE
      /\ epoch' = epoch + 1 /\ next' = 0 /\ failed' = FALSE
      /\ kFunOnSend' = TRUE /\ pkCkListen' = Accepted
      /\ UNCHANGED <<szSendBytes, kSendList, ops, disc, th, wire, settled, told>>
  BY DEF Reuse, At
<1>2. ops = <<>> /\ kSendList = <<>> /\ wire = <<>> /\ told = <<>>
  BY <1>1 DEF Ind, Sound, Quiet
<1>3. \A t \in Threads : th[t] \in Thread /\ th[t].back # "undo" /\ ~ Owing(th[t])
  BY <1>1, KnownIs DEF Fits, Owing, Telling
<1>4. Typed'
  <2>1. epoch' \in 1..MaxEpoch /\ next' \in 0..MaxNext /\ pkCkListen' \in BOOLEAN
    BY <1>1, SendAssumption DEF Ind, Sound, Typed
  <2>. QED  BY <1>1, <2>1 DEF Ind, Sound, Typed
<1>5. Undoing' /\ Quiet'
  BY <1>1, <1>3 DEF Undoing, Quiet, At
<1>6. InHands(Shares)' = 0
  <2>1. \A t \in Threads : Shares'[t] = 0
    BY <1>1, <1>3 DEF Shares, Held, Owes, Owing
  <2>2. InHands(Shares') = 0
    BY <2>1, InHandsNone
  <2>3. InHands(Shares)' = InHands(Shares')
    BY DEF InHands
  <2>. QED  BY <2>2, <2>3
<1>7. (Kept <= next)'
  <2>1. Bytes(kSendList)' = 0 /\ InKernel(ops)' = 0
    BY <1>1, <1>2, EmptyIs, InKernelNone
  <2>. QED  BY <1>1, <1>6, <2>1 DEF Kept
<1>8. Carried'
  <2>1. SUFFICES ASSUME settled PROVE Carries(<<>>, 0)' /\ Good(<<>>, 0)'
    BY <1>1, NothingGood DEF Carried
  <2>2. szSendBytes = 0
    BY <1>1, <2>1 DEF Ind, Sound, Quiet
  <2>3. \A t \in Threads : Owes(t)' <=> Owing(th'[t])
    BY DEF Owes, Owing
  <2>4. Carries(<<>>, 0)'
    BY <1>1, <1>2, <1>3, <2>3 DEF Carries
  <2>5. End' = 0 /\ 0 \in Nat /\ 0 <= SendMax
    BY <1>1, <1>2, SendAssumption DEF End
  <2>6. Good(<<>>, 0)'
    BY <1>1, <1>2, <2>2, <2>5, NothingGood DEF Good
  <2>. QED  BY <2>4, <2>6
<1>9. StreamIntact' /\ NotStranded'
  BY <1>1, <1>2 DEF StreamIntact, NotStranded
<1>10. ToldInOrder'
  BY <1>1, <1>2 DEF ToldInOrder, Telling
<1>. QED  BY <1>4, <1>5, <1>7, <1>8, <1>9, <1>10 DEF Sound

LEMMA SoundInit == Init => Sound
<1>. SUFFICES ASSUME Init PROVE Sound
  OBVIOUS
<1>1. /\ bEnable = TRUE /\ szSendBytes = 0 /\ kSendList = <<>> /\ ops = <<>> /\ conn = "up"
      /\ disc = "none" /\ pooled = FALSE /\ th = [t \in Threads |-> Idle]
      /\ epoch = 1 /\ next = 0 /\ wire = <<>> /\ failed = FALSE /\ settled = TRUE
      /\ kFunOnSend = TRUE /\ pkCkListen = Accepted /\ told = <<>>
  BY DEF Init
<1>2. \A t \in Threads : /\ th[t] = Idle /\ Idle \in Thread /\ ~ Owing(th[t])
                         /\ th[t].at = "idle" /\ th[t].back # "undo"
  BY <1>1, IdleThread DEF Idle
<1>3. Typed
  <2>1. /\ 0 \in 0..SizeMod - 1 /\ 1 \in 1..MaxEpoch /\ 0 \in 0..MaxNext /\ Accepted \in BOOLEAN
        /\ <<>> \in Buffers /\ <<>> \in Seq(Queued) /\ <<>> \in Seq(Byte)
    BY SendAssumption, EmptyIs
  <2>2. th \in [Threads -> Thread]
    BY <1>1, <1>2
  <2>. QED  BY <1>1, <2>1, <2>2 DEF Typed
<1>4. Undoing /\ Quiet
  BY <1>1, <1>2 DEF Undoing, Quiet, At
<1>5. Kept <= next
  <2>1. \A t \in Threads : Shares[t] = 0
    BY <1>2 DEF Shares, Held, Owes, Owing
  <2>2. InHands(Shares) = 0 /\ Bytes(kSendList) = 0 /\ InKernel(ops) = 0
    BY <1>1, <2>1, InHandsNone, EmptyIs, InKernelNone
  <2>. QED  BY <1>1, <2>2 DEF Kept
<1>6. Carried
  <2>1. Carries(<<>>, 0)
    BY <1>1, <1>2, OwesIs DEF Carries
  <2>2. End = 0 /\ 0 \in Nat /\ 0 <= SendMax
    BY <1>1, SendAssumption DEF End
  <2>3. Good(<<>>, 0)
    BY <1>1, <2>2, NothingGood DEF Good
  <2>. QED  BY <2>1, <2>3, NothingGood DEF Carried
<1>7. StreamIntact /\ NotStranded
  BY <1>1 DEF StreamIntact, NotStranded
<1>8. ToldInOrder
  BY <1>1, <1>2 DEF ToldInOrder, Telling
<1>. QED  BY <1>3, <1>4, <1>5, <1>6, <1>7, <1>8 DEF Sound

-----------------------------------------------------------------------------
(* The invariant is inductive.                                              *)

LEMMA StepSound == ASSUME Ind, NEW t \in Threads, Step(t) PROVE Sound'
BY PostSendSound, PostSendFailsSound, UndoSound, TellSound, AutoPostSendSound,
   AutoPostSendDisabledSound, RepostSound, RepostFailsSound, HandErrorSound,
   PostDisconnectSound, InitFunctionsSound, HandDisconnectSound DEF Step

LEMMA StutterSound == ASSUME Ind, UNCHANGED vars PROVE Sound'
<1>1. /\ UNCHANGED <<bEnable, szSendBytes, kSendList, ops, conn, disc, pooled, th>>
      /\ UNCHANGED <<epoch, next, wire, failed, settled, kFunOnSend, pkCkListen, told>>
  BY DEF vars, netVars, tellVars
<1>2. Typed' /\ Undoing' /\ StreamIntact' /\ NotStranded' /\ ToldInOrder'
  <2>1. Typed' /\ Undoing'
    BY <1>1 DEF Ind, Sound, Typed, Undoing, At
  <2>2. StreamIntact'
    BY <1>1 DEF Ind, Sound, StreamIntact
  <2>3. NotStranded'
    BY <1>1 DEF Ind, Sound, NotStranded, Senders
  <2>4. ToldInOrder' = ToldInOrder
    BY <1>1 DEF ToldInOrder
  <2>. QED  BY <2>1, <2>2, <2>3, <2>4 DEF Ind, Sound
<1>3. Quiet'
  BY <1>1 DEF Ind, Sound, Quiet, Owes, At
<1>4. Kept' = Kept
  <2>1. Shares' = Shares
    <3>1. \A t \in Threads : Held(t)' = Held(t)
      BY <1>1 DEF Held, Owes
    <3>. QED  BY <3>1 DEF Shares
  <2>2. InHands(Shares)' = InHands(Shares)
    BY <2>1 DEF InHands
  <2>3. Bytes(kSendList)' = Bytes(kSendList) /\ InKernel(ops)' = InKernel(ops)
    BY <1>1
  <2>. QED  BY <2>2, <2>3 DEF Kept
<1>5. Carried'
  <2>1. ASSUME NEW q \in Buffers, NEW l \in 0..MaxNext, Carries(q, l), Good(q, l)
        PROVE  Carries(q, l)' /\ Good(q, l)'
    <3>1. Carries(q, l)'
      BY <1>1, <2>1 DEF Carries, Owes
    <3>. QED  BY <1>1, <2>1, <3>1 DEF Good, End
  <2>. QED  BY <1>1, <2>1 DEF Ind, Sound, Carried
<1>. QED  BY <1>1, <1>2, <1>3, <1>4, <1>5 DEF Ind, Sound

LEMMA IndInit == Init => Ind
BY SInit, SoundInit DEF Ind

LEMMA IndInductive == Ind /\ [Next]_vars => Ind'
<1>. SUFFICES ASSUME Ind, [Next]_vars PROVE Sound'
  BY SInductive DEF Ind
<1>1. ASSUME NEW t \in Threads, NEW n \in Lens, ReqSend(t, n) PROVE Sound'
  BY <1>1, ReqSendPostsSound, ReqSendQueuesSound, ReqSendOverflowSound DEF ReqSend
<1>2. ASSUME NEW t \in Threads, Completed(t) PROVE Sound'
  BY <1>2, CompleteSendSound DEF Completed
<1>. QED  BY <1>1, <1>2, StepSound, ReqDisconnectSound, CompleteDisconnectSound, ReuseSound,
             StutterSound DEF Next

-----------------------------------------------------------------------------
(* What the invariant says                                                  *)

LEMMA SeqWider ==
  ASSUME NEW S, NEW T, S \subseteq T, NEW s \in Seq(S) PROVE s \in Seq(T)
<1>1. Len(s) \in Nat /\ s \in [1..Len(s) -> S]
  BY LenProperties
<1>2. s \in [1..Len(s) -> T]
  BY <1>1
<1>. QED  BY <1>1, <1>2

\* Each of the places the counted bytes can be in
LEMMA UnsentOf ==
  ASSUME Ind, NEW q \in Buffers, NEW l \in 0..MaxNext, Carries(q, l)
  PROVE  /\ Unsent = Bytes(kSendList) + (l + Bytes(q))
         /\ Bytes(kSendList) \in Nat /\ l \in Nat /\ Bytes(q) \in Nat
<1>1. /\ Bytes(kSendList) \in Nat /\ Bytes(q) \in Nat /\ l \in Nat
      /\ \A t \in Threads : th[t] \in Thread
  BY TypedIs, BytesNat, SendAssumption DEF Ind, Sound
<1>2. Counts(Shares, Threads) /\ \A t \in Threads : Shares[t] = Holding(th[t])
  BY SharesAre DEF Ind, Sound, Typed
<1>3. Unsent = Bytes(kSendList) + InKernel(ops) + InHands(Shares)
  BY <1>2, UnsentIs
<1>4. \A t \in Threads : ~ Owes(t) => Shares[t] = 0
  BY <1>2, OwesIs DEF Holding
<1>5. CASE q = <<>> /\ l = 0 /\ ops = <<>> /\ \A t \in Threads : ~ Owes(t)
  <2>1. InHands(Shares) = 0
    BY <1>4, <1>5, InHandsNone
  <2>2. InKernel(ops) = 0 /\ Bytes(q) = 0
    BY <1>5, InKernelNone, BytesEmpty
  <2>. QED  BY <1>1, <1>3, <1>5, <2>1, <2>2
<1>6. CASE l = 0 /\ ops = <<q>> /\ \A t \in Threads : ~ Owes(t)
  <2>1. InHands(Shares) = 0
    BY <1>4, <1>6, InHandsNone
  <2>2. InKernel(ops) = Bytes(q)
    <3>1. <<>> \in Seq(Buffers) /\ Append(<<>>, q) = <<q>>
      OBVIOUS
    <3>2. InKernel(Append(<<>>, q)) = InKernel(<<>>) + Bytes(q)
      BY <3>1, InKernelAppend
    <3>3. InKernel(<<q>>) = 0 + Bytes(q)
      BY <3>1, <3>2, InKernelNone
    <3>. QED  BY <1>1, <1>6, <3>3
  <2>. QED  BY <1>1, <1>3, <1>6, <2>1, <2>2
<1>7. ASSUME NEW t \in Threads, th[t].op = q, th[t].last = l, ops = <<>>, Owes(t),
             \A u \in Threads : u # t => ~ Owes(u)
      PROVE  Unsent = Bytes(kSendList) + (l + Bytes(q))
  <2>1. InHands(Shares) = Shares[t]
    BY <1>2, <1>4, <1>7, InHandsOne
  <2>2. Shares[t] = l + Bytes(q)
    BY <1>2, <1>7, OwesIs DEF Holding
  <2>3. InKernel(ops) = 0
    BY <1>7, InKernelNone
  <2>. QED  BY <1>1, <1>3, <2>1, <2>2, <2>3
<1>8. Unsent = Bytes(kSendList) + (l + Bytes(q))
  BY <1>5, <1>6, <1>7 DEF Carries
<1>. QED  BY <1>1, <1>8

LEMMA CountsUnsentHolds == Ind => CountsUnsent
<1>. SUFFICES ASSUME Ind, bEnable, settled PROVE szSendBytes = Unsent
  BY DEF CountsUnsent
<1>1. PICK q \in Buffers, l \in 0..MaxNext : Carries(q, l) /\ Good(q, l)
  BY DEF Ind, Sound, Carried
<1>2. szSendBytes = l + Bytes(q \o kSendList)
  BY <1>1 DEF Good
<1>3. Bytes(q \o kSendList) = Bytes(q) + Bytes(kSendList)
  BY BytesConcat, TypedIs DEF Ind, Sound
<1>4. /\ Unsent = Bytes(kSendList) + (l + Bytes(q))
      /\ Bytes(kSendList) \in Nat /\ l \in Nat /\ Bytes(q) \in Nat
  BY <1>1, UnsentOf
<1>. QED  BY <1>2, <1>3, <1>4

LEMMA OneSenderHolds == Ind => OneSender
<1>. SUFFICES ASSUME Ind, bEnable, settled PROVE Len(ops) + Cardinality(Senders) <= 1
  BY DEF OneSender
<1>1. PICK q \in Buffers, l \in 0..MaxNext : Carries(q, l) /\ Good(q, l)
  BY DEF Ind, Sound, Carried
<1>2. \A t \in Senders : t \in Threads /\ Owes(t)
  BY DEF Senders, Owes
<1>3. ASSUME Senders = {} PROVE Cardinality(Senders) = 0
  BY <1>3, FS_EmptySet
<1>4. CASE (q = <<>> /\ l = 0 /\ ops = <<>> /\ \A t \in Threads : ~ Owes(t))
           \/ (l = 0 /\ ops = <<q>> /\ \A t \in Threads : ~ Owes(t))
  <2>1. Senders = {}
    BY <1>2, <1>4
  <2>2. Len(ops) \in {0, 1}
    BY <1>4
  <2>. QED  BY <1>3, <2>1, <2>2
<1>5. ASSUME NEW t \in Threads, ops = <<>>, \A u \in Threads : u # t => ~ Owes(u)
      PROVE  Len(ops) + Cardinality(Senders) <= 1
  <2>1. Senders = {} \/ Senders = {t}
    BY <1>2, <1>5
  <2>2. Cardinality({t}) = 1
    BY FS_Singleton
  <2>3. Cardinality(Senders) \in {0, 1}
    BY <1>3, <2>1, <2>2
  <2>4. Len(ops) = 0
    BY <1>5
  <2>. QED  BY <2>3, <2>4
<1>. QED  BY <1>1, <1>4, <1>5 DEF Carries

LEMMA TypeHolds == Ind => TypeOK
<1>. SUFFICES ASSUME Ind PROVE TypeOK
  OBVIOUS
<1>1. Buffer \subseteq Chunks /\ Buffers \subseteq Seq(Chunks) /\ Queued \subseteq Seq(Chunks)
  <2>1. Buffer \subseteq Chunks
    BY DEF Buffer
  <2>2. Buffers \subseteq Seq(Chunks)
    BY <2>1, SeqWider DEF Buffers
  <2>. QED  BY <2>1, <2>2 DEF Queued
<1>2. kSendList \in Seq(Chunks) /\ ops \in Seq(Seq(Chunks))
  <2>1. kSendList \in Buffers /\ ops \in Seq(Queued)
    BY DEF Ind, Sound, Typed
  <2>. QED  BY <1>1, <2>1, SeqWider
<1>. DEFINE R == [at : Places, op : Seq(Chunks), last : 0..MaxNext, sent : Seq(Byte),
                  err : BOOLEAN, back : Places]
<1>3. \A r \in Record : r \in R
  <2>1. "idle" \in Places /\ "undo" \in Places
    BY DEF Places
  <2>. QED  BY <1>1, <2>1 DEF Record
<1>. HIDE DEF R
<1>4. th \in [Threads -> R]
  BY <1>3 DEF Ind, Sound, Typed, Thread
<1>. QED  BY <1>2, <1>4 DEF Ind, Sound, Typed, TypeOK, R

LEMMA FullHolds ==
  ASSUME Ind, NEW t \in Threads, NEW n \in Lens, settled, ReqSendOverflow(t, n)
  PROVE  Unsent + n > SendMax
<1>1. bEnable /\ next + n <= MaxNext /\ Plus(szSendBytes, n) > SendMax
  BY DEF ReqSendOverflow, MaySend
<1>2. PICK q \in Buffers, l \in 0..MaxNext : Good(q, l)
  BY DEF Ind, Sound, Carried
<1>3. Plus(szSendBytes, n) = szSendBytes + n
  BY <1>1, <1>2, CounterIs
<1>4. szSendBytes = Unsent
  BY <1>1, CountsUnsentHolds DEF CountsUnsent
<1>. QED  BY <1>1, <1>3, <1>4

-----------------------------------------------------------------------------
(* The theorems                                                             *)

\* The fields of the send path keep their types, the threads' records and every
\* queued chunk included, for any threads, messages and buffer sizes.
THEOREM SendStateIsTyped == Spec => []TypeOK
BY IndInit, IndInductive, TypeHolds, PTL DEF Spec

\* szSendBytes is the number of bytes accepted and not yet sent while the
\* connection is enabled: reqSend, which decides by it who posts, is right to.
THEOREM CounterIsUnsent == Spec => []CountsUnsent
BY IndInit, IndInductive, CountsUnsentHolds, PTL DEF Spec

\* There is never a second WSASend, pending or about to be posted.
THEOREM AtMostOneSender == Spec => []OneSender
BY IndInit, IndInductive, OneSenderHolds, PTL DEF Spec

\* Bytes left in kSendList by reqSend are never left alone: the WSASend, thread or
\* handError that takes care of them exists.
THEOREM NothingStranded == Spec => []NotStranded
<1>1. Ind => NotStranded
  BY DEF Ind, Sound
<1>. QED  BY <1>1, IndInit, IndInductive, PTL DEF Spec

\* The bytes go out in the order reqSend accepted them, none twice, none of an
\* earlier connection, and without a gap as long as no WSASend was refused;
\* however the kernel cuts them and whichever threads handle the completions.
THEOREM StreamGoesOutIntact == Spec => []StreamIntact
<1>1. Ind => StreamIntact
  BY DEF Ind, Sound
<1>. QED  BY <1>1, IndInit, IndInductive, PTL DEF Spec

\* The calls of kFunOnSend keep the order of the bytes, without a lock.
THEOREM ToldInOrderAlways == Spec => []ToldInOrder
<1>1. Ind => ToldInOrder
  BY DEF Ind, Sound
<1>. QED  BY <1>1, IndInit, IndInductive, PTL DEF Spec

\* reqSend gives a connection up only when its send buffer would run over.
THEOREM GivenUpOnlyWhenFull == Spec => CapOnlyWhenFullIfSettled
<1>1. Ind /\ [Next]_vars =>
        [\A t \in Threads, n \in Lens :
           settled /\ ReqSendOverflow(t, n) => Unsent + n > SendMax]_vars
  BY FullHolds
<1>. QED  BY <1>1, IndInit, IndInductive, PTL DEF Spec, CapOnlyWhenFullIfSettled
=============================================================================
