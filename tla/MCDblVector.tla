---------------------------- MODULE MCDblVector ----------------------------
(* The instances of DblVector that TLC checks. *)
EXTENDS DblVector, TLC

CONSTANTS v, w, x, y

MCVectors == {v, w}
MCItems == {x, y}
MCReserved == {8, 9}
MCSymmetry == Permutations(MCVectors) \cup Permutations(MCItems)
=============================================================================
