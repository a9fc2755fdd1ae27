--------------------------- MODULE MCHashContract ---------------------------
(* The instance of HashContract that TLC checks. *)
EXTENDS HashContract

MCValues == {0}
=============================================================================
