---------------------------- MODULE MCSemBuffer ----------------------------
(* The instances of SemBuffer that TLC checks. *)
EXTENDS SemBuffer

CONSTANTS p1, p2, c1, c2, x, y

MCProducers == {p1, p2}
MCConsumers == {c1, c2}
MCItems == {x, y}
=============================================================================
