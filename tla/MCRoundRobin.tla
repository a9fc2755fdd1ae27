---------------------------- MODULE MCRoundRobin ----------------------------
(* The instance of RoundRobinLists that TLC checks: burst times of none, less
   than one, one, more than one and more than two quanta. *)
EXTENDS RoundRobinLists

MCBursts == {0, 1, 2, 3, 5}
=============================================================================
