------------------------------ MODULE MCCkSend ------------------------------
(* A small instance of CkSend: see the .cfg files for its bounds.           *)
EXTENDS CkSend, TLC

CONSTANTS t1, t2, t3

Threads2 == {t1, t2}
Threads3 == {t1, t2, t3}
MCLens   == {1, 2}

Symmetric == Permutations(Threads3)
=============================================================================
