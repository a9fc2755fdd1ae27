------------------------------- MODULE ShmIpc -------------------------------
(***************************************************************************)
(* A1/POSIX/shm_ipc.c: a controller that creates a named shared memory     *)
(* object and asks for work through it, and the worker it forked, which    *)
(* sleeps for a second, opens the object by name and serves the requests.  *)
(* The two processes share nothing but the name and the object; inside the *)
(* object two semaphores hand the block to and fro.                        *)
(*                                                                         *)
(* One step is one system call or one access to the shared block.  The     *)
(* arithmetic is abstracted: the result of a request is the request itself *)
(* (operation and operands as the worker read them), so a result tells     *)
(* which question it answers.                                              *)
(***************************************************************************)
EXTENDS Naturals

CONSTANTS
    op_add, op_sub, op_mul, op_div, op_quit,    \* operation_t
    Operands,           \* the values next_rand may return
    Zero,               \* the operand of the quit request, and of fresh memory
    NumRequests,        \* requests before the quit request: 20 in the code
    CallsMayFail        \* whether shm_open, ftruncate and mmap may fail

Arithmetic == {op_add, op_sub, op_mul, op_div}
Operation == Arithmetic \cup {op_quit}

ASSUME OperationAssumption == op_quit \notin Arithmetic
ASSUME OperandAssumption == Zero \in Operands
ASSUME NumRequestsAssumption == NumRequests \in Nat
ASSUME FlagAssumption == CallsMayFail \in BOOLEAN

\* The objects that ever bear the name: one that an earlier, killed run left
\* behind, and the one this run creates.
Objects == {"old", "new"}
NoObject == "none"      \* nothing bears the name
NoFd == "closed"        \* fd == -1
Null == "null"          \* data == NULL
MapFailed == "failed"   \* data == MAP_FAILED

Request == Operation \X Operands \X Operands
Work == Arithmetic \X Operands \X Operands
QuitRequest == <<op_quit, Zero, Zero>>
NoResult == <<>>        \* the 0.0 of memory nobody has computed into
Result == {<<r>> : r \in Work} \cup {NoResult}

VARIABLES
    link,               \* the object that bears SHARE_NAME
    mem,                \* the objects: shared_data_t and the file's size
    cpc, cfd, cdata,    \* controller: where it is, shm->fd, shm->data
    req,                \* op, lhs, rhs of the request_work in progress
    ret,                \* the value request_work returned last
    calls,              \* the number of request_work calls that returned
    wpc, wfd, wdata,    \* worker: where it is, shm->fd, shm->data
    a, b, retVal,       \* do_work's local variables
    lost                \* the worker waits on a semaphore that was
                        \* initialised under it, and will not be woken

cvars == <<cpc, cfd, cdata, req, ret, calls>>
wvars == <<wpc, wfd, wdata, a, b, retVal>>
vars == <<link, mem, cvars, wvars, lost>>

-----------------------------------------------------------------------------
\* A file of size zero; ftruncate fills what it adds with zero bytes.
EmptyObject == [sized |-> FALSE, controller_semaphore |-> 0,
                worker_semaphore |-> 0, operation |-> op_add,
                lhs |-> Zero, rhs |-> Zero, result |-> NoResult]

Block == [sized : BOOLEAN, controller_semaphore : 0 .. 1,
          worker_semaphore : 0 .. 1, operation : Operation,
          lhs : Operands, rhs : Operands, result : Result]

\* What a run killed at any point leaves: its semaphores count the requests
\* and answers in flight, at most one.  Its operands and its result are read
\* by nobody who matters to this run, so one value stands for all of them.
StaleObjects ==
    {o \in Block :
        \/ o = EmptyObject
        \/ /\ o.sized
           /\ o.controller_semaphore + o.worker_semaphore <= 1
           /\ o.lhs = Zero /\ o.rhs = Zero /\ o.result = NoResult}

Creating == {"unlink", "open", "truncate", "map", "init_ctrl", "init_work"}
Serving == {"read_a", "read_b", "switch", "post"}

\* Touching memory through d ends the process: no mapping, or a mapping of a
\* file that has no page there yet (SIGBUS).
Faults(d) == ~ (d \in Objects /\ mem[d].sized)

Init ==
    /\ \/ link = NoObject /\ mem = [o \in Objects |-> EmptyObject]
       \/ /\ link = "old"
          /\ \E stale \in StaleObjects :
                mem = [o \in Objects |-> IF o = "old" THEN stale
                                                      ELSE EmptyObject]
    /\ cpc = "unlink" /\ cfd = NoFd /\ cdata = Null
    /\ req = QuitRequest /\ ret = NoResult /\ calls = 0
    /\ wpc = "sleep" /\ wfd = NoFd /\ wdata = Null
    /\ a = Zero /\ b = Zero /\ retVal = TRUE
    /\ lost = FALSE

-----------------------------------------------------------------------------
(* The controller: create_shared_object *)

Unlink ==
    /\ cpc = "unlink"
    /\ link' = NoObject
    /\ cpc' = "open"
    /\ UNCHANGED <<mem, cfd, cdata, req, ret, calls, wvars, lost>>

ShmOpen ==
    /\ cpc = "open"
    /\ \/ /\ link' = "new" /\ cfd' = "new"
          /\ cpc' = "truncate"
          /\ UNCHANGED cdata
       \/ /\ CallsMayFail
          /\ cfd' = NoFd /\ cdata' = Null
          /\ cpc' = "failed"
          /\ UNCHANGED link
    /\ UNCHANGED <<mem, req, ret, calls, wvars, lost>>

Truncate ==
    /\ cpc = "truncate"
    /\ \/ /\ mem' = [mem EXCEPT ![cfd].sized = TRUE]
          /\ cpc' = "map"
       \/ /\ CallsMayFail
          /\ cpc' = "failed"
          /\ UNCHANGED mem
    /\ cdata' = Null
    /\ UNCHANGED <<link, cfd, req, ret, calls, wvars, lost>>

Map ==
    /\ cpc = "map"
    /\ \/ cdata' = cfd /\ cpc' = "init_ctrl"
       \/ CallsMayFail /\ cdata' = MapFailed /\ cpc' = "failed"
    /\ UNCHANGED <<link, mem, cfd, req, ret, calls, wvars, lost>>

\* sem_init of a semaphore the worker already waits on is undefined: it may
\* forget that there is a waiter to wake.
InitControllerSemaphore ==
    /\ cpc = "init_ctrl"
    /\ mem' = [mem EXCEPT ![cdata].controller_semaphore = 0]
    /\ lost' \in IF wpc = "asleep" /\ wdata = cdata THEN BOOLEAN ELSE {lost}
    /\ cpc' = "init_work"
    /\ UNCHANGED <<link, cfd, cdata, req, ret, calls, wvars>>

InitWorkerSemaphore ==
    /\ cpc = "init_work"
    /\ mem' = [mem EXCEPT ![cdata].worker_semaphore = 0]
    /\ cpc' = "pick"
    /\ UNCHANGED <<link, cfd, cdata, req, ret, calls, wvars, lost>>

-----------------------------------------------------------------------------
(* The controller: the loop of controller_main, and request_work *)

\* next_op is rand() % op_quit: any operation but quit.
NextRequest(r) ==
    /\ cpc = "pick"
    /\ r \in IF calls < NumRequests THEN Work ELSE {QuitRequest}
    /\ req' = r
    /\ cpc' = "put_op"
    /\ UNCHANGED <<link, mem, cfd, cdata, ret, calls, wvars, lost>>

PutOperation ==
    /\ cpc = "put_op"
    /\ mem' = [mem EXCEPT ![cdata].operation = req[1]]
    /\ cpc' = "put_lhs"
    /\ UNCHANGED <<link, cfd, cdata, req, ret, calls, wvars, lost>>

\* Mutation: the request is posted before its last field is written.
PutLhsPostsEarly ==
    /\ cpc = "put_lhs"
    /\ mem' = [mem EXCEPT ![cdata].lhs = req[2],
                          ![cdata].controller_semaphore = @ + 1]
    /\ cpc' = "put_rhs"
    /\ UNCHANGED <<link, cfd, cdata, req, ret, calls, wvars, lost>>

PutLhs ==
    /\ cpc = "put_lhs"
    /\ mem' = [mem EXCEPT ![cdata].lhs = req[2]]
    /\ cpc' = "put_rhs"
    /\ UNCHANGED <<link, cfd, cdata, req, ret, calls, wvars, lost>>

PutRhs ==
    /\ cpc = "put_rhs"
    /\ mem' = [mem EXCEPT ![cdata].rhs = req[3]]
    /\ cpc' = "post"
    /\ UNCHANGED <<link, cfd, cdata, req, ret, calls, wvars, lost>>

PostRequest ==
    /\ cpc = "post"
    /\ mem' = [mem EXCEPT ![cdata].controller_semaphore = @ + 1]
    /\ cpc' = "wait"
    /\ UNCHANGED <<link, cfd, cdata, req, ret, calls, wvars, lost>>

\* Mutation: the wait finds the semaphore raised and leaves it so.
WaitForAnswerLeavesToken ==
    /\ cpc = "wait"
    /\ mem[cdata].worker_semaphore > 0
    /\ cpc' = "return"
    /\ UNCHANGED <<link, mem, cfd, cdata, req, ret, calls, wvars, lost>>

\* Mutation: the wait gives up (a timeout, EINTR) and nobody looks.
WaitForAnswerGivesUp ==
    /\ cpc = "wait"
    /\ mem' = [mem EXCEPT ![cdata].worker_semaphore = 0]
    /\ cpc' = "return"
    /\ UNCHANGED <<link, cfd, cdata, req, ret, calls, wvars, lost>>

WaitForAnswer ==
    /\ cpc = "wait"
    /\ mem[cdata].worker_semaphore > 0
    /\ mem' = [mem EXCEPT ![cdata].worker_semaphore = @ - 1]
    /\ cpc' = "return"
    /\ UNCHANGED <<link, cfd, cdata, req, ret, calls, wvars, lost>>

\* The return of request_work; controller_main prints what it returned and
\* goes on, or destroys the object after the quit request.
ReturnResult ==
    /\ cpc = "return"
    /\ ret' = mem[cdata].result
    /\ calls' = calls + 1
    /\ cpc' = IF req[1] = op_quit THEN "unmap" ELSE "pick"
    /\ UNCHANGED <<link, mem, cfd, cdata, req, wvars, lost>>

(* The controller: destroy_shared_object *)
Unmap ==
    /\ cpc = "unmap"
    /\ cpc' = "destroy"
    /\ cdata' = Null
    /\ UNCHANGED <<link, mem, cfd, req, ret, calls, wvars, lost>>

Destroy ==
    /\ cpc = "destroy"
    /\ link' = NoObject
    /\ cfd' = NoFd
    /\ cpc' = "done"
    /\ UNCHANGED <<mem, cdata, req, ret, calls, wvars, lost>>

Controller ==
    \/ Unlink \/ ShmOpen \/ Truncate \/ Map
    \/ InitControllerSemaphore \/ InitWorkerSemaphore
    \/ \E r \in Request : NextRequest(r)
    \/ PutOperation \/ PutLhs \/ PutRhs
    \/ PostRequest \/ WaitForAnswer \/ ReturnResult
    \/ Unmap \/ Destroy

-----------------------------------------------------------------------------
(* The worker: main's child, get_shared_object *)

\* sleep(1) is there to let the controller create the object; it orders nothing.
Sleep ==
    /\ wpc = "sleep"
    /\ wpc' = "open"
    /\ UNCHANGED <<link, mem, cvars, wfd, wdata, a, b, retVal, lost>>

WorkerOpen ==
    /\ wpc = "open"
    /\ \/ /\ link # NoObject
          /\ wfd' = link
          /\ wpc' = "map"
       \/ /\ link = NoObject \/ CallsMayFail
          /\ wfd' = NoFd
          /\ wpc' = "failed"
    /\ wdata' = Null
    /\ UNCHANGED <<link, mem, cvars, a, b, retVal, lost>>

WorkerMap ==
    /\ wpc = "map"
    /\ \/ wdata' = wfd /\ wpc' = "wait"
       \/ CallsMayFail /\ wdata' = MapFailed /\ wpc' = "failed"
    /\ UNCHANGED <<link, mem, cvars, wfd, a, b, retVal, lost>>

(* The worker: do_work *)

TakeRequest ==
    /\ wpc \in {"wait", "asleep"}
    /\ ~Faults(wdata)
    /\ mem[wdata].controller_semaphore > 0
    /\ ~lost
    /\ mem' = [mem EXCEPT ![wdata].controller_semaphore = @ - 1]
    /\ retVal' = TRUE
    /\ wpc' = "read_a"
    /\ UNCHANGED <<link, cvars, wfd, wdata, a, b, lost>>

FallAsleep ==
    /\ wpc = "wait"
    /\ ~Faults(wdata)
    /\ mem[wdata].controller_semaphore = 0
    /\ wpc' = "asleep"
    /\ UNCHANGED <<link, mem, cvars, wfd, wdata, a, b, retVal, lost>>

ReadLhs ==
    /\ wpc = "read_a"
    /\ ~Faults(wdata)
    /\ a' = mem[wdata].lhs
    /\ wpc' = "read_b"
    /\ UNCHANGED <<link, mem, cvars, wfd, wdata, b, retVal, lost>>

\* Mutation: the second operand is read from the first one's place.
ReadRhsFromLhs ==
    /\ wpc = "read_b"
    /\ ~Faults(wdata)
    /\ b' = mem[wdata].lhs
    /\ wpc' = "switch"
    /\ UNCHANGED <<link, mem, cvars, wfd, wdata, a, retVal, lost>>

ReadRhs ==
    /\ wpc = "read_b"
    /\ ~Faults(wdata)
    /\ b' = mem[wdata].rhs
    /\ wpc' = "switch"
    /\ UNCHANGED <<link, mem, cvars, wfd, wdata, a, retVal, lost>>

\* Mutation: the block is unmapped where quit is recognised, not after the post.
SwitchUnmapsOnQuit ==
    /\ wpc = "switch"
    /\ ~Faults(wdata)
    /\ LET op == mem[wdata].operation IN
         /\ retVal' = (op \in Arithmetic)
         /\ wdata' = IF op \in Arithmetic THEN wdata ELSE Null
         /\ mem' = IF op \in Arithmetic
                   THEN [mem EXCEPT ![wdata].result = <<<<op, a, b>>>>]
                   ELSE mem
    /\ wpc' = "post"
    /\ UNCHANGED <<link, cvars, wfd, a, b, lost>>

Switch ==
    /\ wpc = "switch"
    /\ ~Faults(wdata)
    /\ LET op == mem[wdata].operation IN
         /\ retVal' = (op \in Arithmetic)
         /\ mem' = IF op \in Arithmetic
                   THEN [mem EXCEPT ![wdata].result = <<<<op, a, b>>>>]
                   ELSE mem
    /\ wpc' = "post"
    /\ UNCHANGED <<link, cvars, wfd, wdata, a, b, lost>>

\* Mutation: the answer is posted to the semaphore of the requests.
PostAnswerToController ==
    /\ wpc = "post"
    /\ ~Faults(wdata)
    /\ mem' = [mem EXCEPT ![wdata].controller_semaphore = @ + 1]
    /\ wpc' = IF retVal THEN "wait" ELSE "unmap"
    /\ UNCHANGED <<link, cvars, wfd, wdata, a, b, retVal, lost>>

PostAnswer ==
    /\ wpc = "post"
    /\ ~Faults(wdata)
    /\ mem' = [mem EXCEPT ![wdata].worker_semaphore = @ + 1]
    /\ wpc' = IF retVal THEN "wait" ELSE "unmap"
    /\ UNCHANGED <<link, cvars, wfd, wdata, a, b, retVal, lost>>

WorkerUnmap ==
    /\ wpc = "unmap"
    /\ wfd' = NoFd
    /\ wdata' = Null
    /\ wpc' = "done"
    /\ UNCHANGED <<link, mem, cvars, a, b, retVal, lost>>

\* The first access to a mapping without a page kills the worker.
WorkerFault ==
    /\ wpc \in Serving \cup {"wait"}
    /\ Faults(wdata)
    /\ wpc' = "killed"
    /\ UNCHANGED <<link, mem, cvars, wfd, wdata, a, b, retVal, lost>>

Worker ==
    \/ Sleep \/ WorkerOpen \/ WorkerMap
    \/ TakeRequest \/ FallAsleep
    \/ ReadLhs \/ ReadRhs \/ Switch \/ PostAnswer \/ WorkerUnmap
    \/ WorkerFault

-----------------------------------------------------------------------------
ControllerEnded == cpc \in {"done", "failed"}
WorkerEnded == wpc \in {"done", "failed", "killed"}

\* Both processes have left main.
Finished ==
    /\ ControllerEnded /\ WorkerEnded
    /\ UNCHANGED vars

Next == Controller \/ Worker \/ Finished

Spec == Init /\ [][Next]_vars

\* The kernel runs both processes; nothing else is assumed.
FairSpec == Spec /\ WF_vars(Controller) /\ WF_vars(Worker)

-----------------------------------------------------------------------------
(* Properties *)

\* The types of the variables.  The semaphores of either object never exceed
\* one: sem_post never finds the previous token still there.
TypeOK ==
    /\ link \in Objects \cup {NoObject}
    /\ mem \in [Objects -> Block]
    /\ cpc \in Creating \cup {"pick", "put_op", "put_lhs", "put_rhs", "post",
                 "wait", "return", "unmap", "destroy", "done", "failed"}
    /\ cfd \in {"new", NoFd}
    /\ cdata \in {"new", Null, MapFailed}
    /\ req \in Work \cup {QuitRequest}
    /\ ret \in Result
    /\ calls \in 0 .. NumRequests + 1
    /\ wpc \in Serving \cup {"sleep", "open", "map", "wait", "asleep", "unmap",
                 "done", "failed", "killed"}
    /\ wfd \in Objects \cup {NoFd}
    /\ wdata \in Objects \cup {Null, MapFailed}
    /\ a \in Operands /\ b \in Operands
    /\ retVal \in BOOLEAN
    /\ lost \in BOOLEAN

\* The worker is between its sem_wait and its sem_post on object o.
ServingOn(o) == wdata = o /\ wpc \in Serving

Token(P) == IF P THEN 1 ELSE 0

\* The right to touch the block of this run's object is in one place: while
\* request_work waits it is in a semaphore or with the worker, once, and
\* otherwise it is with the controller and neither semaphore is up.  This is
\* what the two semaphores of create_shared_object, "initialised in a waiting
\* state", are there for; a worker that attached too early keeps to it too.
OneToken ==
    mem["new"].controller_semaphore + mem["new"].worker_semaphore
        + Token(ServingOn("new")) = Token(cpc = "wait")

\* The two processes never touch the shared fields of the same object at the
\* same time: request_work writes or reads them only while do_work is outside
\* its critical section.
NoDataRace ==
    ~ /\ ServingOn("new")
      /\ cpc \in {"put_op", "put_lhs", "put_rhs", "return"}

\* What request_work returns for an arithmetic request is computed from the
\* operation and both operands of that request, not of an earlier one and not
\* of a mixture.
ResultMatchesRequest ==
    cpc = "pick" /\ calls > 0 => ret = <<req>>

\* The synchronous call of WorkRpc: asked by the post of the request, served
\* by the post of the answer.
Phase == CASE cpc \in {"unmap", "destroy", "done"} -> "closed"
           [] cpc = "return" -> "served"
           [] cpc = "wait" -> IF mem["new"].worker_semaphore = 1
                              THEN "served" ELSE "asked"
           [] OTHER -> "idle"

Rpc == INSTANCE WorkRpc WITH
          Requests <- Work, Goodbye <- QuitRequest, Limit <- NumRequests,
          phase <- Phase,
          request <- IF cpc \in {"wait", "return"} THEN <<req>> ELSE <<>>,
          returned <- ret

\* Every run of the two processes, however the worker's second compares with
\* the controller's progress, is a run of synchronous calls.
RpcSafety == Rpc!RpcSafety

\* Once the worker is about to wait on an object that the controller has fully
\* created, every request is served, both processes end, neither touches memory
\* it has unmapped on the way, and neither the name nor a mapping is left.
AttachedThenFinish ==
    (wpc = "wait" /\ wdata = "new" /\ cpc \notin Creating \cup {"failed"})
        ~> (/\ cpc = "done" /\ wpc = "done"
            /\ link = NoObject /\ cdata = Null /\ wdata = Null)

\* The controller waits for nobody: the worker could not open or map the
\* object, died on it, opened an earlier run's object (and perhaps found its
\* quit request there), or sleeps on a semaphore initialised under it.
Orphaned ==
    \/ wpc \in {"failed", "killed"}
    \/ wdata = "old"
    \/ wpc = "done" /\ mem["new"].worker_semaphore = 0
    \/ lost

\* Whatever the timing and whatever fails, a posted request is answered,
\* unless the controller has no worker on its object.
AnsweredUnlessOrphaned == cpc = "wait" ~> cpc = "return" \/ Orphaned
=============================================================================
