---------------------------- MODULE MCHashSearch ----------------------------
(* The instance of HashSearch that TLC checks. *)
EXTENDS HashSearch

MCValues == {0, 1}
=============================================================================
