--------------------------- MODULE ShmIpc_proofs ---------------------------
(***************************************************************************)
(* Proofs about ShmIpc, for every number of requests, every set of         *)
(* operands, whatever calls fail and however the worker's second compares  *)
(* with the controller's progress.                                         *)
(***************************************************************************)
EXTENDS ShmIpc, TLAPS

New == mem["new"]
Old == mem["old"]

\* Where the controller holds a mapping of its object.
Active == {"init_ctrl", "init_work", "pick", "put_op", "put_lhs", "put_rhs",
           "post", "wait", "return", "unmap"}

\* Every access goes through a pointer that mmap returned.
Mapped ==
    /\ cpc \in Active \cup {"truncate", "map"} => cfd = "new"
    /\ cpc \in Active => cdata = "new"
    /\ wpc = "map" => wfd \in Objects
    /\ wpc \in Serving \cup {"wait", "asleep"} => wdata \in Objects
    /\ wpc \in Serving => mem[wdata].sized

\* An earlier run's object holds at most one token as well.
OldToken ==
    Old.controller_semaphore + Old.worker_semaphore + Token(ServingOn("old")) <= 1

\* The request in progress is the one the loop has come to, and the fields
\* written so far are its fields.
Written ==
    /\ cpc \in Creating => calls = 0
    /\ cpc = "pick" => calls <= NumRequests
    /\ cpc \in {"put_op", "put_lhs", "put_rhs", "post", "wait", "return"} =>
          /\ calls <= NumRequests
          /\ req \in IF calls < NumRequests THEN Work ELSE {QuitRequest}
    /\ cpc \in {"put_lhs", "put_rhs", "post", "wait"} => New.operation = req[1]
    /\ cpc \in {"put_rhs", "post", "wait"} => New.lhs = req[2]
    /\ cpc \in {"post", "wait"} => New.rhs = req[3]

\* The value in the block once the request has been computed.
Computed == IF req[1] \in Arithmetic THEN <<req>> ELSE ret

\* The token says whether the block holds the answer yet, and what the worker
\* has read belongs to the request.
Answered ==
    /\ cpc \notin {"wait", "return"} => New.result = ret
    /\ cpc = "wait" =>
          /\ New.controller_semaphore = 1 => New.result = ret
          /\ ServingOn("new") =>
                /\ wpc # "post" => New.result = ret
                /\ wpc \in {"read_b", "switch"} => a = req[2]
                /\ wpc = "switch" => b = req[3]
                /\ wpc = "post" => New.result = Computed
          /\ New.worker_semaphore = 1 => New.result = Computed
    /\ cpc = "return" => New.result = Computed

IInv ==
    /\ TypeOK
    /\ Mapped
    /\ OneToken
    /\ OldToken
    /\ Written
    /\ Answered
    /\ ResultMatchesRequest


\* Every step keeps the invariant.
LEMMA Step == ASSUME IInv, [Next]_vars PROVE IInv'
<1> USE OperationAssumption, OperandAssumption, NumRequestsAssumption
<1> USE DEF IInv, TypeOK, Block, Result, Request, Work, QuitRequest, NoResult, Operation, Arithmetic, Creating, Serving, Objects, NoObject, NoFd, Null, MapFailed, Mapped, Active, OneToken, OldToken, ServingOn, Token, Written, Answered, Computed, ResultMatchesRequest, New, Old, cvars, wvars
<1>1. CASE Unlink
  BY <1>1 DEF Unlink
<1>2. CASE ShmOpen
  BY <1>2 DEF ShmOpen
<1>3. CASE Truncate
  <2>1. TypeOK'
    <3>1. cfd = "new"
      BY <1>3 DEF Truncate
    <3>2. mem' \in [Objects -> Block]
      <4>1. CASE mem' = [mem EXCEPT !["new"].sized = TRUE]
        BY <4>1, ZenonT(60)
      <4>2. CASE mem' = mem
        BY <4>2
      <4>3. QED
        BY <1>3, <3>1, <4>1, <4>2 DEF Truncate
    <3>3. QED
      BY <1>3, <3>2 DEF Truncate
  <2>2. Mapped'
    BY <1>3 DEF Truncate
  <2>3. OneToken'
    BY <1>3 DEF Truncate
  <2>4. OldToken'
    BY <1>3 DEF Truncate
  <2>5. Written'
    BY <1>3 DEF Truncate
  <2>6. Answered'
    BY <1>3 DEF Truncate
  <2>7. ResultMatchesRequest'
    BY <1>3 DEF Truncate
  <2>8. QED
    BY <2>1, <2>2, <2>3, <2>4, <2>5, <2>6, <2>7
<1>4. CASE Map
  BY <1>4 DEF Map
<1>5. CASE InitControllerSemaphore
  BY <1>5 DEF InitControllerSemaphore
<1>6. CASE InitWorkerSemaphore
  BY <1>6 DEF InitWorkerSemaphore
<1>7. ASSUME NEW r \in Request, NextRequest(r) PROVE IInv'
  BY <1>7 DEF NextRequest
<1>8. CASE PutOperation
  BY <1>8 DEF PutOperation
<1>9. CASE PutLhs
  BY <1>9 DEF PutLhs
<1>10. CASE PutRhs
  BY <1>10 DEF PutRhs
<1>11. CASE PostRequest
  BY <1>11 DEF PostRequest
<1>12. CASE WaitForAnswer
  BY <1>12 DEF WaitForAnswer
<1>13. CASE ReturnResult
  BY <1>13 DEF ReturnResult
<1>14. CASE Unmap
  BY <1>14 DEF Unmap
<1>15. CASE Destroy
  BY <1>15 DEF Destroy
<1>16. CASE Sleep
  BY <1>16 DEF Sleep
<1>17. CASE WorkerOpen
  BY <1>17 DEF WorkerOpen
<1>18. CASE WorkerMap
  BY <1>18 DEF WorkerMap
<1>19. CASE TakeRequest
  BY <1>19, SMTT(30) DEF TakeRequest, Faults
<1>20. CASE FallAsleep
  BY <1>20 DEF FallAsleep, Faults
<1>21. CASE ReadLhs
  BY <1>21 DEF ReadLhs, Faults
<1>22. CASE ReadRhs
  BY <1>22 DEF ReadRhs, Faults
<1>23. CASE Switch
  <2>1. TypeOK'
    BY <1>23 DEF Switch, Faults
  <2>2. Mapped'
    BY <1>23 DEF Switch, Faults
  <2>3. OneToken'
    BY <1>23 DEF Switch, Faults
  <2>4. OldToken'
    BY <1>23 DEF Switch, Faults
  <2>5. Written'
    BY <1>23 DEF Switch, Faults
  <2>6. Answered'
    BY <1>23 DEF Switch, Faults
  <2>7. ResultMatchesRequest'
    BY <1>23 DEF Switch, Faults
  <2>8. QED
    BY <2>1, <2>2, <2>3, <2>4, <2>5, <2>6, <2>7
<1>24. CASE PostAnswer
  <2>1. TypeOK'
    BY <1>24 DEF PostAnswer, Faults
  <2>2. Mapped'
    BY <1>24 DEF PostAnswer, Faults
  <2>3. OneToken'
    BY <1>24 DEF PostAnswer, Faults
  <2>4. OldToken'
    BY <1>24 DEF PostAnswer, Faults
  <2>5. Written'
    BY <1>24 DEF PostAnswer, Faults
  <2>6. Answered'
    BY <1>24 DEF PostAnswer, Faults
  <2>7. ResultMatchesRequest'
    BY <1>24 DEF PostAnswer, Faults
  <2>8. QED
    BY <2>1, <2>2, <2>3, <2>4, <2>5, <2>6, <2>7
<1>25. CASE WorkerUnmap
  BY <1>25 DEF WorkerUnmap, Faults
<1>26. CASE WorkerFault
  BY <1>26 DEF WorkerFault, Faults
<1>27. CASE UNCHANGED vars
  BY <1>27 DEF vars
<1>28. QED
  BY <1>1, <1>2, <1>3, <1>4, <1>5, <1>6, <1>7, <1>8, <1>9, <1>10, <1>11, <1>12, <1>13, <1>14, <1>15, <1>16, <1>17, <1>18, <1>19, <1>20, <1>21, <1>22, <1>23, <1>24, <1>25, <1>26, <1>27 DEF Next, Controller, Worker, Finished

LEMMA Start == Init => IInv
<1> SUFFICES ASSUME Init PROVE IInv
  OBVIOUS
<1> USE OperationAssumption, OperandAssumption, NumRequestsAssumption DEF Init
<1>1. EmptyObject \in Block
  BY DEF EmptyObject, Block, Result, Operation, Arithmetic
<1>2. ASSUME NEW o \in StaleObjects
      PROVE  o \in Block /\ o.controller_semaphore + o.worker_semaphore <= 1
  BY DEF StaleObjects, EmptyObject
<1>3. /\ mem \in [Objects -> Block]
      /\ New = EmptyObject
      /\ Old.controller_semaphore + Old.worker_semaphore <= 1
  <2>1. EmptyObject.controller_semaphore + EmptyObject.worker_semaphore <= 1
    BY DEF EmptyObject
  <2>2. QED
    BY <1>1, <1>2, <2>1 DEF New, Old, Objects
<1>4. TypeOK
  <2>1. 0 \in 0 .. NumRequests + 1
    OBVIOUS
  <2>2. ret \in Result
    BY DEF Result
  <2>3. QED
    BY <1>3, <2>1, <2>2 DEF TypeOK, Objects, Creating
<1>5. Mapped /\ OneToken /\ ResultMatchesRequest
  BY <1>3 DEF Mapped, OneToken, ResultMatchesRequest, Active, Serving, Token,
              ServingOn, EmptyObject, New
<1>6. OldToken
  BY <1>3 DEF OldToken, Token, ServingOn, Serving, Old, Objects, Block
<1>7. Written /\ Answered
  BY <1>3 DEF Written, Answered, Creating, EmptyObject
<1>8. QED
  BY <1>4, <1>5, <1>6, <1>7 DEF IInv

THEOREM Invariance == Spec => []IInv
<1>1. QED
  BY Start, Step, PTL DEF Spec

\* The types are kept, and no semaphore of either object ever exceeds one.
THEOREM TypeCorrect == Spec => []TypeOK
<1>1. IInv => TypeOK
  BY DEF IInv
<1>2. QED
  BY <1>1, Invariance, PTL

\* The right to touch the block is in one place, for every schedule of the
\* two processes and every failure.
THEOREM TokenConserved == Spec => []OneToken
<1>1. IInv => OneToken
  BY DEF IInv
<1>2. QED
  BY <1>1, Invariance, PTL

\* Hence controller and worker never touch the shared fields together.
THEOREM RaceFree == Spec => []NoDataRace
<1>1. IInv => NoDataRace
  BY DEF IInv, OneToken, NoDataRace, Token, TypeOK, Block, Objects
<1>2. QED
  BY <1>1, Invariance, PTL

\* What request_work returns is the answer to its own request.
THEOREM AnswersMatch == Spec => []ResultMatchesRequest
<1>1. IInv => ResultMatchesRequest
  BY DEF IInv
<1>2. QED
  BY <1>1, Invariance, PTL

-----------------------------------------------------------------------------
(* ShmIpc implements WorkRpc *)

LEMMA RpcStart == Init => Rpc!RpcInit
BY DEF Init, Rpc!RpcInit, Phase, NoResult

LEMMA RpcStep ==
    ASSUME IInv, [Next]_vars
    PROVE  [Rpc!RpcNext]_Rpc!rpcVars
<1> USE DEF Phase, Rpc!rpcVars, cvars, wvars
<1>1. ASSUME Unlink \/ ShmOpen \/ Truncate \/ Map \/ InitControllerSemaphore
             \/ InitWorkerSemaphore \/ PutOperation \/ PutLhs \/ PutRhs
             \/ Unmap \/ Destroy
      PROVE  UNCHANGED Rpc!rpcVars
  BY <1>1 DEF Unlink, ShmOpen, Truncate, Map, InitControllerSemaphore,
              InitWorkerSemaphore, PutOperation, PutLhs, PutRhs, Unmap, Destroy
<1>2. ASSUME NEW r \in Request, NextRequest(r)
      PROVE  UNCHANGED Rpc!rpcVars
  BY <1>2 DEF NextRequest
<1>3. ASSUME PostRequest PROVE Rpc!RpcAsk(req)
  <2>1. New.worker_semaphore = 0 /\ cdata = "new" /\ mem \in [Objects -> Block]
    BY <1>3 DEF PostRequest, IInv, TypeOK, OneToken, Mapped, Active, New, Token,
                Block, Objects
  <2>2. mem'["new"].worker_semaphore = 0
    BY <1>3, <2>1 DEF PostRequest, New, Objects, Block
  <2>3. req \in IF calls < NumRequests THEN Work ELSE {QuitRequest}
    BY <1>3 DEF PostRequest, IInv, Written
  <2>4. QED
    BY <1>3, <2>2, <2>3 DEF PostRequest, Rpc!RpcAsk
<1>4. ASSUME WaitForAnswer PROVE UNCHANGED Rpc!rpcVars
  <2>1. New.worker_semaphore = 1
    BY <1>4 DEF WaitForAnswer, IInv, TypeOK, Mapped, Active, New, Objects, Block
  <2>2. QED
    BY <1>4, <2>1 DEF WaitForAnswer, New
<1>5. ASSUME ReturnResult PROVE Rpc!RpcReturn
  <2>1. ret' = IF req[1] \in Arithmetic THEN <<req>> ELSE ret
    BY <1>5 DEF ReturnResult, IInv, Mapped, Active, Answered, Computed, New
  <2>2. req \in Work => req[1] \in Arithmetic /\ req[1] # op_quit
    BY OperationAssumption DEF Work
  <2>3. req # QuitRequest => req \in Work
    BY DEF IInv, TypeOK
  <2>4. QuitRequest[1] = op_quit /\ op_quit \notin Arithmetic
    BY OperationAssumption DEF QuitRequest
  <2>5. (req[1] = op_quit) <=> (<<req>> = <<QuitRequest>>)
    BY <2>2, <2>3, <2>4
  <2>6. QED
    BY <1>5, <2>1, <2>2, <2>3, <2>4, <2>5 DEF ReturnResult, Rpc!RpcReturn
<1>6. ASSUME PostAnswer PROVE Rpc!RpcServe \/ UNCHANGED Rpc!rpcVars
  <2>1. mem \in [Objects -> Block] /\ wdata \in Objects
    BY <1>6 DEF PostAnswer, IInv, TypeOK, Mapped, Serving
  <2>2. CASE wdata = "new"
    <3>1. cpc = "wait" /\ New.worker_semaphore = 0
      BY <1>6, <2>1, <2>2 DEF PostAnswer, IInv, OneToken, ServingOn, Serving,
                              Token, New, Block, Objects
    <3>2. mem'["new"].worker_semaphore = 1
      BY <1>6, <2>1, <2>2, <3>1 DEF PostAnswer, New, Objects, Block
    <3>3. QED
      BY <1>6, <3>1, <3>2 DEF PostAnswer, New, Rpc!RpcServe
  <2>3. CASE wdata # "new"
    BY <1>6, <2>1, <2>3 DEF PostAnswer, Objects
  <2>4. QED
    BY <2>2, <2>3
<1>7. ASSUME TakeRequest \/ Switch PROVE UNCHANGED Rpc!rpcVars
  <2>1. mem \in [Objects -> Block] /\ wdata \in Objects
    BY <1>7 DEF TakeRequest, Switch, IInv, TypeOK, Mapped, Serving
  <2>2. mem'["new"].worker_semaphore = mem["new"].worker_semaphore
    BY <1>7, <2>1 DEF TakeRequest, Switch, Objects, Block
  <2>3. QED
    BY <1>7, <2>2 DEF TakeRequest, Switch
<1>8. ASSUME Sleep \/ WorkerOpen \/ WorkerMap \/ FallAsleep \/ ReadLhs
             \/ ReadRhs \/ WorkerUnmap \/ WorkerFault
      PROVE  UNCHANGED Rpc!rpcVars
  BY <1>8 DEF Sleep, WorkerOpen, WorkerMap, FallAsleep, ReadLhs, ReadRhs,
              WorkerUnmap, WorkerFault
<1>9. ASSUME UNCHANGED vars PROVE UNCHANGED Rpc!rpcVars
  BY <1>9 DEF vars
<1>10. ASSUME PostRequest PROVE \E r \in Work \cup {QuitRequest} : Rpc!RpcAsk(r)
  BY <1>3, <1>10 DEF IInv, TypeOK
<1>11. QED
  BY <1>1, <1>2, <1>4, <1>5, <1>6, <1>7, <1>8, <1>9, <1>10
     DEF Next, Controller, Worker, Finished, Rpc!RpcNext

\* Every run of the two processes is a run of synchronous calls, each served
\* once and returning its own answer: ShmIpc implements WorkRpc, whatever the
\* timing and whatever fails.
THEOREM Implementation == Spec => RpcSafety
<1>1. Spec => Rpc!RpcInit /\ [][Rpc!RpcNext]_Rpc!rpcVars
  BY RpcStart, RpcStep, Invariance, PTL DEF Spec
<1>2. QED
  BY <1>1 DEF RpcSafety, Rpc!RpcSafety

-----------------------------------------------------------------------------
(* Waiting *)

\* The worker has left, or is in a sem_wait that does not return.
WorkerStuck ==
    \/ WorkerEnded
    \/ wpc = "asleep" /\ \/ Faults(wdata) \/ lost
                         \/ mem[wdata].controller_semaphore = 0

\* What the controller maps has a page.
Sized == cpc \in Active \cup {"map"} => New.sized

LEMMA SizedStep == IInv /\ Sized /\ [Next]_vars => Sized'
<1> SUFFICES ASSUME IInv, Sized, [Next]_vars PROVE Sized'
  OBVIOUS
<1> USE DEF Sized, Active, New
<1>1. mem \in [Objects -> Block] /\ "new" \in Objects
  BY DEF IInv, TypeOK, Objects
<1>2. CASE Truncate
  <2>1. cfd = "new"
    BY <1>2 DEF IInv, Mapped, Truncate
  <2>2. cpc' # "failed" => mem'["new"].sized
    BY <1>1, <1>2, <2>1 DEF Truncate, Block
  <2> QED
    BY <1>2, <2>2 DEF Truncate
<1>3. CASE Unlink \/ ShmOpen \/ Map \/ (\E r \in Request : NextRequest(r)) \/ ReturnResult
           \/ Unmap \/ Destroy
  BY <1>3 DEF Unlink, ShmOpen, Map, NextRequest, ReturnResult, Unmap, Destroy
<1>4. CASE InitControllerSemaphore \/ InitWorkerSemaphore \/ PutOperation \/ PutLhs \/ PutRhs
           \/ PostRequest \/ WaitForAnswer
  <2>1. cpc \in Active
    BY <1>4 DEF InitControllerSemaphore, InitWorkerSemaphore, PutOperation, PutLhs,
       PutRhs, PostRequest, WaitForAnswer
  <2>2. cdata = "new"
    BY <2>1 DEF IInv, Mapped
  <2>3. mem'["new"].sized = mem["new"].sized
    BY <1>1, <1>4, <2>2 DEF InitControllerSemaphore, InitWorkerSemaphore, PutOperation,
       PutLhs, PutRhs, PostRequest, WaitForAnswer, Block
  <2> QED
    BY <2>1, <2>3
<1>5. CASE Worker \/ UNCHANGED vars
  <2>1. CASE TakeRequest \/ Switch \/ PostAnswer
    <3>1. wdata \in Objects
      BY <2>1 DEF IInv, Mapped, TakeRequest, Switch, PostAnswer, Serving
    <3> QED
      BY <1>1, <2>1, <3>1 DEF TakeRequest, Switch, PostAnswer, cvars, Block, Objects
  <2>2. CASE ~(TakeRequest \/ Switch \/ PostAnswer)
    BY <1>5, <2>2 DEF Worker, Sleep, WorkerOpen, WorkerMap, FallAsleep, ReadLhs, ReadRhs,
       WorkerUnmap, WorkerFault, vars, cvars
  <2> QED
    BY <2>1, <2>2
<1> QED
  BY <1>2, <1>3, <1>4, <1>5 DEF Next, Controller, Finished

\* The controller and the worker never wait for each other: a controller whose
\* sem_wait does not return has no worker on its object.
THEOREM OnlyOrphansHang ==
    Spec => [](cpc = "wait" /\ New.worker_semaphore = 0 /\ WorkerStuck => Orphaned)
<1>1. Init => Sized
  BY DEF Init, Sized, Active
<1>2. ASSUME IInv, Sized, cpc = "wait", New.worker_semaphore = 0, WorkerStuck
      PROVE  Orphaned
  <2>1. CASE WorkerEnded
    BY <1>2, <2>1 DEF WorkerEnded, Orphaned, New
  <2>2. CASE wpc = "asleep" /\ wdata = "old"
    BY <2>2 DEF Orphaned
  <2>3. CASE wpc = "asleep" /\ wdata = "new"
    <3>1. New.sized
      BY <1>2 DEF Sized, Active
    <3>2. New.controller_semaphore = 1
      BY <1>2, <2>3 DEF IInv, TypeOK, Block, Objects, OneToken, ServingOn, Serving, Token, New
    <3> QED
      BY <1>2, <2>3, <3>1, <3>2 DEF WorkerStuck, WorkerEnded, Faults, Objects, Orphaned, New
  <2>4. wpc = "asleep" => wdata \in {"old", "new"}
    BY <1>2 DEF IInv, Mapped, Objects
  <2> QED
    BY <1>2, <2>1, <2>2, <2>3, <2>4 DEF WorkerStuck
<1>3. IInv /\ Sized => (cpc = "wait" /\ New.worker_semaphore = 0 /\ WorkerStuck => Orphaned)
  BY <1>2
<1> QED
  BY <1>1, <1>3, SizedStep, Invariance, PTL DEF Spec
=============================================================================
