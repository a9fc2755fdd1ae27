------------------------------ MODULE MCShmIpc ------------------------------
(* The instances of ShmIpc that TLC checks. *)
EXTENDS ShmIpc

CONSTANTS x, y      \* two values next_rand may return

MCOperands == {x, y}
=============================================================================
