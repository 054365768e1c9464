----------------------------- MODULE ByteQueue -----------------------------
(***************************************************************************)
(* What a NetBuffer is to its user: a queue of bytes.  There are several,  *)
(* since bytes are moved and copied from one to another.  The second       *)
(* variable is what the last call returned to its caller.                  *)
(***************************************************************************)
EXTENDS Naturals, Sequences

CONSTANTS
  Bufs,     \* queues
  Strings,  \* sequences of bytes a caller may put in
  Lens,     \* numbers of bytes a caller may ask for
  Zero      \* a byte of 0

VARIABLES queue, ret

First(q, n) == SubSeq(q, 1, n)
Rest(q, n)  == SubSeq(q, n + 1, Len(q))

\* A new object in the place of an older one, or an old one emptied
New(b, s) == queue' = [queue EXCEPT ![b] = s] /\ ret' = <<>>

Put(b, s) == queue' = [queue EXCEPT ![b] = @ \o s] /\ ret' = <<>>

PutAll(b, c) == Put(b, queue[c])

Skip(b, n) ==
  /\ n <= Len(queue[b])
  /\ queue' = [queue EXCEPT ![b] = Rest(@, n)] /\ ret' = <<>>

\* All or nothing: a caller that asks for more than there is gets no byte.
Take(b, n) ==
  LET enough == n <= Len(queue[b]) IN
  /\ ret' = IF enough THEN First(queue[b], n) ELSE <<>>
  /\ queue' = IF enough THEN [queue EXCEPT ![b] = Rest(@, n)] ELSE queue

TakeAll(b) == ret' = queue[b] /\ queue' = [queue EXCEPT ![b] = <<>>]

TakeInto(b, c, n) ==
  LET enough == n <= Len(queue[b]) IN
  /\ queue' = [queue EXCEPT ![b] = IF enough THEN Rest(@, n) ELSE @,
                            ![c] = IF enough THEN First(queue[b], n) ELSE <<>>]
  /\ ret' = <<>>

\* A short, 0 unless more than two bytes are there
Peek(b) ==
  /\ ret' = IF Len(queue[b]) > 2 THEN First(queue[b], 2) ELSE <<Zero, Zero>>
  /\ UNCHANGED queue

Exchange(b, c) ==
  queue' = [queue EXCEPT ![b] = queue[c], ![c] = queue[b]] /\ ret' = <<>>

Move(b, c) ==
  queue' = [queue EXCEPT ![b] = <<>>, ![c] = queue[b]] /\ ret' = <<>>

Copy(b, c) == queue' = [queue EXCEPT ![c] = queue[b]] /\ ret' = <<>>

Init == queue = [b \in Bufs |-> <<>>] /\ ret = <<>>

Next ==
  \E b \in Bufs :
    \/ TakeAll(b) \/ Peek(b)
    \/ \E s \in Strings \cup {<<>>} : New(b, s)
    \/ \E s \in Strings : Put(b, s)
    \/ \E n \in Lens : Skip(b, n) \/ Take(b, n)
    \/ \E c \in Bufs \ {b} :
         \/ Exchange(b, c) \/ Move(b, c) \/ Copy(b, c) \/ PutAll(b, c)
         \/ \E n \in Lens : TakeInto(b, c, n)

Spec == Init /\ [][Next]_<<queue, ret>>
=============================================================================
