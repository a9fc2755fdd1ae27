------------------------------ MODULE WorkRpc ------------------------------
(***************************************************************************)
(* What A1/POSIX/shm_ipc.c promises its caller: request_work is a          *)
(* synchronous call.  A request is asked, served exactly once, and its own *)
(* answer is returned before the next request is asked; after the last one *)
(* the caller says goodbye, is acknowledged, and closes.                   *)
(*                                                                         *)
(* The answer to a request is identified with the request: the arithmetic  *)
(* is the worker's business ("The worker may not know the proper rules of  *)
(* arithmetic. We accept whatever the worker gives us"), which answer      *)
(* belongs to which question is the protocol's.                            *)
(***************************************************************************)
EXTENDS Naturals

CONSTANTS Requests,     \* the requests that have an answer
          Goodbye,      \* the request that ends the session
          Limit         \* the number of requests before the goodbye

VARIABLES phase,        \* "idle", "asked", "served" or "closed"
          request,      \* <<>> or the sequence <<r>> of the request in progress
          returned,     \* <<>> or <<r>>, r the request last answered
          calls         \* the number of completed calls

rpcVars == <<phase, request, returned, calls>>

RpcInit == /\ phase = "idle"
           /\ request = <<>>
           /\ returned = <<>>
           /\ calls = 0

RpcAsk(r) == /\ phase = "idle"
             /\ r \in IF calls < Limit THEN Requests ELSE {Goodbye}
             /\ phase' = "asked"
             /\ request' = <<r>>
             /\ UNCHANGED <<returned, calls>>

RpcServe == /\ phase = "asked"
            /\ phase' = "served"
            /\ UNCHANGED <<request, returned, calls>>

RpcReturn == /\ phase = "served"
             /\ phase' = IF request = <<Goodbye>> THEN "closed" ELSE "idle"
             /\ returned' = IF request = <<Goodbye>> THEN returned ELSE request
             /\ request' = <<>>
             /\ calls' = calls + 1

RpcNext == \/ \E r \in Requests \cup {Goodbye} : RpcAsk(r)
           \/ RpcServe
           \/ RpcReturn

RpcSafety == RpcInit /\ [][RpcNext]_rpcVars
=============================================================================
