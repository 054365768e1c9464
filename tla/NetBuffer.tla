----------------------------- MODULE NetBuffer -----------------------------
(***************************************************************************)
(* class NetBuffer (src/Lib/net/NetBuffer.h, NetBuffer.cpp): a vector of   *)
(* bytes with a position to read at and one to write at.  What has been    *)
(* read stays in front of the read position until room is needed.          *)
(*                                                                         *)
(* One thread has a buffer at a time; a step is one call.  The vector is a *)
(* sequence, so that what lies outside the two positions is there as well  *)
(* and would show if it were ever read.                                    *)
(***************************************************************************)
EXTENDS Naturals, Sequences

CONSTANTS
  Bufs,        \* NetBuffer objects
  Bytes,       \* what callers put in
  Zero,        \* what a new element of a vector is
  Strings,     \* sequences of them that a call may bring
  MaxLen,      \* bound: bytes of one call
  MaxReadable  \* bound: bytes a caller leaves in a buffer

ASSUME LensAssumption == MaxLen \in Nat \ {0} /\ MaxReadable \in Nat /\ MaxLen <= MaxReadable

ASSUME StringsAssumption == \A s \in Strings : s \in Seq(Bytes) /\ Len(s) <= MaxLen

VARIABLES
  buf,  \* the objects: _buf, _posRead, _posWrite
  ret   \* the string or short that the last call returned, if any

vars == <<buf, ret>>

Cells   == Bytes \cup {Zero}
Buffer  == [_buf : Seq(Cells), _posRead : Nat, _posWrite : Nat]

-----------------------------------------------------------------------------
(* The vector                                                               *)

Zeros(n) == [i \in 1..n |-> Zero]

\* resize to more elements
Resize(v, n) == [i \in 1..n |-> IF i <= Len(v) THEN v[i] ELSE Zero]

\* memmove of s to the elements after the first n
MemMove(v, n, s) ==
  [i \in 1..Len(v) |-> IF i > n /\ i <= n + Len(s) THEN s[i - n] ELSE v[i]]

-----------------------------------------------------------------------------
(* The calls, as functions of one object                                    *)

Empty == [_buf |-> <<>>, _posRead |-> 0, _posWrite |-> 0]

Sized(n) == [_buf |-> Zeros(n), _posRead |-> 0, _posWrite |-> 0]

readableBytes(o) == o._posWrite - o._posRead
writableBytes(o) == Len(o._buf) - o._posWrite

\* The n bytes at beginRead()
Front(o, n) == SubSeq(o._buf, o._posRead + 1, o._posRead + n)

hasRead(o, n)    == [o EXCEPT !._posRead = @ + n]
hasWritten(o, n) == [o EXCEPT !._posWrite = @ + n]

\* Mutant: the positions move and the bytes do not.
ShrinkMovesNothing(o) ==
  [o EXCEPT !._posRead = 0, !._posWrite = readableBytes(o)]

\* What is readable moves to the front.
Shrink(o) ==
  [_buf |-> MemMove(o._buf, 0, Front(o, readableBytes(o))),
   _posRead |-> 0, _posWrite |-> readableBytes(o)]

\* Mutants: the room in front of the read position is not looked at; the vector
\* gets the size of the new bytes alone.
MakeSpaceGrows(o, n) == [o EXCEPT !._buf = Resize(@, o._posWrite + n)]

MakeSpaceShort(o, n) ==
  IF writableBytes(o) + o._posRead < n
  THEN [o EXCEPT !._buf = Resize(@, readableBytes(o) + n)]
  ELSE Shrink(o)

\* With enough room in all, what is readable moves to the front; else the
\* vector grows, and nothing moves.
MakeSpace(o, n) ==
  IF writableBytes(o) + o._posRead < n
  THEN [o EXCEPT !._buf = Resize(@, o._posWrite + n)]
  ELSE Shrink(o)

EnsureWritableBytes(o, n) == IF writableBytes(o) < n THEN MakeSpace(o, n) ELSE o

\* Bytes s are written at beginWrite().
Write(o, s) == hasWritten([o EXCEPT !._buf = MemMove(@, o._posWrite, s)], Len(s))

AppendTo(o, s) == Write(EnsureWritableBytes(o, Len(s)), s)

\* shrink, erase what is behind the write position, and give memory back
ShrinkToFit(o) ==
  LET m == Shrink(o) IN [m EXCEPT !._buf = SubSeq(@, 1, m._posWrite)]

-----------------------------------------------------------------------------
(* The calls                                                                *)

Set(b, o)          == buf' = [buf EXCEPT ![b] = o]
SetTwo(b, o, c, p) == buf' = [buf EXCEPT ![b] = o, ![c] = p]
Keep               == ret' = <<>>
Room(b, n)         == readableBytes(buf[b]) + n <= MaxReadable
Enough(b, n)       == n > 0 /\ readableBytes(buf[b]) >= n

\* The constructors, of an object in the place of an older one
Construct(b)        == Set(b, Empty) /\ Keep
ConstructSize(b, n) == Set(b, Sized(n)) /\ Keep
ConstructFrom(b, s) == Set(b, AppendTo(Sized(Len(s)), s)) /\ Keep
ConstructMove(b, c) == SetTwo(b, Empty, c, buf[b]) /\ Keep

AppendBytes(b, s) == Room(b, Len(s)) /\ Set(b, AppendTo(buf[b], s)) /\ Keep

\* Another buffer's bytes; its own would move away under the pointer to them.
AppendBuffer(b, c) ==
  LET n == readableBytes(buf[c]) IN
  /\ n > 0 /\ Room(b, n) /\ n <= MaxLen
  /\ Set(b, AppendTo(buf[b], Front(buf[c], n))) /\ Keep

\* The kernel writes s at beginWrite(), of the writableBytes() it was given,
\* and handRecv calls hasWritten.
Received(b, s) ==
  /\ Len(s) <= writableBytes(buf[b]) /\ Room(b, Len(s))
  /\ Set(b, Write(buf[b], s)) /\ Keep

\* The caller reads n bytes at beginRead() and says so.
HasRead(b, n) == n <= readableBytes(buf[b]) /\ Set(b, hasRead(buf[b], n)) /\ Keep

RetrieveAll2String(b) ==
  LET n == readableBytes(buf[b]) IN
  /\ ret' = Front(buf[b], n)
  /\ Set(b, hasRead(buf[b], n))

Retrieve2String(b, n) ==
  IF Enough(b, n)
  THEN ret' = Front(buf[b], n) /\ Set(b, hasRead(buf[b], n))
  ELSE ret' = <<>> /\ UNCHANGED buf

\* The buffer returned is a new one, in the place of c.
Retrieve2Buffer(b, c, n) ==
  /\ IF Enough(b, n)
     THEN SetTwo(b, hasRead(buf[b], n), c, AppendTo(Empty, Front(buf[b], n)))
     ELSE Set(c, Empty)
  /\ Keep

PeekUShort(b) ==
  /\ ret' = IF readableBytes(buf[b]) > 2 THEN Front(buf[b], 2) ELSE <<Zero, Zero>>
  /\ UNCHANGED buf

Reset(b) == Set(b, Empty) /\ Keep

\* swap, and the assignment of an rvalue, which swaps
Swap(b, c) == SetTwo(b, buf[c], c, buf[b]) /\ Keep

\* Copy constructor and assignment
Assign(b, c) == Set(c, buf[b]) /\ Keep

ShrinkCall(b) ==
  /\ \/ Set(b, Shrink(buf[b]))
     \/ Set(b, ShrinkToFit(buf[b]))
  /\ Keep

-----------------------------------------------------------------------------
Init == buf = [b \in Bufs |-> Empty] /\ ret = <<>>

Next ==
  \E b \in Bufs :
    \/ Construct(b) \/ Reset(b)
    \/ RetrieveAll2String(b) \/ PeekUShort(b) \/ ShrinkCall(b)
    \/ \E n \in 0..MaxLen :
         ConstructSize(b, n) \/ HasRead(b, n) \/ Retrieve2String(b, n)
    \/ \E s \in Strings : ConstructFrom(b, s) \/ AppendBytes(b, s) \/ Received(b, s)
    \/ \E c \in Bufs \ {b} :
         \/ ConstructMove(b, c) \/ AppendBuffer(b, c) \/ Swap(b, c) \/ Assign(b, c)
         \/ \E n \in 0..MaxLen : Retrieve2Buffer(b, c, n)

Spec == Init /\ [][Next]_vars

-----------------------------------------------------------------------------
(* Properties                                                               *)

\* The positions are in order and in the vector: no call reads or writes
\* outside it.
TypeOK ==
  /\ buf \in [Bufs -> Buffer]
  /\ \A b \in Bufs : buf[b]._posRead <= buf[b]._posWrite
                     /\ buf[b]._posWrite <= Len(buf[b]._buf)
  /\ ret \in Seq(Cells)

\* However many bytes go through, a vector gets no longer than what its user
\* leaves in it and one call more: makeSpace makes use of what has been read.
NoBloat == \A b \in Bufs : Len(buf[b]._buf) < MaxReadable + MaxLen

\* What a user sees of an object, and of all of them
Content(o) == Front(o, readableBytes(o))
Contents   == [b \in Bufs |-> Content(buf[b])]

Queue == INSTANCE ByteQueue WITH Lens <- 0..MaxLen, queue <- Contents

\* The bytes come out as they went in: none of those that were read, and none
\* that nobody wrote.
IsByteQueue == Queue!Spec
=============================================================================
