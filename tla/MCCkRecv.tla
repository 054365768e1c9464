------------------------------ MODULE MCCkRecv ------------------------------
(* Small instances of CkRecv: see the .cfg files.                           *)
EXTENDS CkRecv, TLC

CONSTANTS a1, c1, w1, w2, u1, MaxEpoch, MaxArrived

OneSocket   == {c1}
OneKind     == c1 :> "CONNECT"
BothSockets == {a1, c1}
BothKinds   == a1 :> "ACCEPT" @@ c1 :> "CONNECT"

Workers2 == {w1, w2}
Callers1 == {u1}
Symmetric == Permutations(Workers2)

\* a few connections in all, one socket in use at a time, a few bytes each
Bounded ==
  /\ Cardinality({<<s, n>> \in Sockets \X (1..MaxEpoch + 1) : n <= epoch[s]}) <= MaxEpoch
  /\ \A s \in Sockets : arrived[s] <= MaxArrived
  /\ Cardinality(used) <= 1 /\ leaked = {}
  /\ \A s \in Sockets : conn[s] = "stuck" => used \subseteq {s}
=============================================================================
