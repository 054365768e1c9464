------------------------------ MODULE LogPipe ------------------------------
(***************************************************************************)
(* What AsyncLogFile (src/Lib/log/AsyncLogFile.h:74-112) promises to the   *)
(* threads that log: the file gets their messages in the order in which    *)
(* append took them, each at most once, and every message comes to its     *)
(* end.  A message is lost for one of two reasons only: it is too big for  *)
(* any buffer, or Burst messages came before the writer was back.  What a  *)
(* full disk does not take of the file's bytes is not looked at here.      *)
(***************************************************************************)
EXTENDS Naturals, Sequences

CONSTANT Burst   \* messages that must have come for one to be dropped

VARIABLES
  offered,  \* messages 1..offered were given to append
  big,      \* those of them that are too big
  settled,  \* messages 1..settled were written or lost
  log       \* the messages written

vars == <<offered, big, settled, log>>

Init == offered = 0 /\ big = {} /\ settled = 0 /\ log = <<>>

Offer ==
  /\ offered' = offered + 1
  /\ big' \in {big, big \cup {offered + 1}}
  /\ UNCHANGED <<settled, log>>

\* The writer ends a round at message n, having written those of q.
Settle(n, q) ==
  LET round == settled + 1..n
      kept  == {q[i] : i \in DOMAIN q}
  IN
  /\ settled' = n
  /\ log' = log \o q
  /\ \A i, j \in DOMAIN q : i < j => q[i] < q[j]
  /\ \/ round \ kept = big \cap round
     \/ n - settled >= Burst /\ kept \cap big = {}
  /\ UNCHANGED <<offered, big>>

Round ==
  \E n \in settled + 1..offered : \E k \in 0..n - settled :
    \E q \in [1..k -> settled + 1..n] : Settle(n, q)

Next == Offer \/ Round

Spec == Init /\ [][Next]_vars /\ WF_vars(Round)
=============================================================================
