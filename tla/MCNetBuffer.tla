---------------------------- MODULE MCNetBuffer ----------------------------
(* An instance of NetBuffer for TLC: see MCNetBuffer.cfg                    *)
EXTENDS NetBuffer, TLC

CONSTANTS b1, b2, x, y, MaxCells

MCStrings == {<<>>, <<x, y>>}

\* Bound: the vectors of both objects together
FewCells == Len(buf[b1]._buf) + Len(buf[b2]._buf) <= MaxCells

Symmetry == Permutations(Bufs)
=============================================================================
