----------------------------- MODULE MCWinIocp -----------------------------
(* A small instance of WinIocp: see the .cfg files for its bounds.          *)
EXTENDS WinIocp, TLC

CONSTANTS a1, a2, c1, w1, w2, u1, u2

\* two sockets for accepted connections and one for outgoing ones
MCSockets == {a1, a2, c1}
MCKind    == a1 :> "ACCEPT" @@ a2 :> "ACCEPT" @@ c1 :> "CONNECT"

OneOfEach == {a1, c1}
OneKind   == a1 :> "ACCEPT" @@ c1 :> "CONNECT"

ConnectSocket == {c1}
ConnectKind   == c1 :> "CONNECT"

Workers2 == {w1, w2}
Callers1 == {u1}
Callers2 == {u1, u2}

SymmetricThreads == Permutations(Workers2) \cup Permutations(Callers2)
Symmetric == Permutations({a1, a2}) \cup Permutations(Workers2)
             \cup Permutations(Callers2)

\* one socket is leaked or stuck, or one accept is lost, not more
FewLosses == lost + Cardinality(leaked) + Cardinality({s \in Sockets : conn[s] = "stuck"}) <= 1
=============================================================================
