-------------------------- MODULE RoundRobinLists --------------------------
(***************************************************************************)
(* P09/Round_Robin/roundRobinScheduling_Skeleton.c: a round robin schedule *)
(* made with linked lists.  The nodes of the job queue are linked, taken   *)
(* out and linked again without their nextNode ever being reset, so that   *)
(* the list closes to a ring and its tail points at some older process.    *)
(*                                                                         *)
(* The program is one thread; an action is one turn of one of its loops.   *)
(* The nodes of the ready queue are new and only ever appended: it is the  *)
(* sequence of what they hold.                                             *)
(***************************************************************************)
EXTENDS Integers, Sequences, FiniteSets

CONSTANTS NumProcesses,     \* 5 in the program
          quantum,          \* 20 in the program
          Bursts,           \* what the scaled rand() may yield: 0 .. 212 there
          MaxTurns          \* a bound on the length of the schedule

ASSUME ProcessesAssumption == NumProcesses \in Nat \ {0}
ASSUME QuantumAssumption == quantum \in Nat \ {0}
ASSUME BurstsAssumption == Bursts \subseteq Nat
ASSUME TurnsAssumption == MaxTurns \in Nat

Processes == 1 .. NumProcesses
NULL == 0

VARIABLES jobs,     \* the job queue: head, tail and every node's nextNode
          burst,    \* the burstTime of every node
          made,     \* how many nodes main has made
          ready,    \* the ready queue, pairs of processID and burstTime
          pc        \* "make", "schedule" or "done"

vars == <<jobs, burst, made, ready, pc>>

Init == /\ jobs = [head |-> NULL, tail |-> NULL,
                   nextNode |-> [p \in Processes |-> NULL]]
        /\ burst = [p \in Processes |-> 0]
        /\ made = 0
        /\ ready = <<>>
        /\ pc = "make"

-----------------------------------------------------------------------------
(* The functions on the job queue, from the queue before to the queue after *)

\* Mutation: a new node goes in front.
insertNodeInFront(q, p) ==
    [head |-> p, tail |-> IF q.tail = NULL THEN p ELSE q.tail,
     nextNode |-> [q.nextNode EXCEPT ![p] = q.head]]

insertNodeToJobQueue(q, p) ==
    IF q.tail = NULL THEN [q EXCEPT !.head = p, !.tail = p]
    ELSE [q EXCEPT !.nextNode[q.tail] = p, !.tail = p]

\* Mutation: the end is told by the pointer of the last node.
removeUntilNull(q) ==
    LET next == q.nextNode[q.head]
    IN [q EXCEPT !.head = next, !.tail = IF next = NULL THEN NULL ELSE @]

\* Mutation: the tail goes on pointing at the node that was taken.
removeHeadOnly(q) ==
    [q EXCEPT !.head = IF q.head = q.tail THEN NULL ELSE q.nextNode[q.head]]

\* The node that is taken is q.head.
removeJobQueueHeadNode(q) ==
    IF q.head = q.tail THEN [q EXCEPT !.head = NULL, !.tail = NULL]
    ELSE [q EXCEPT !.head = q.nextNode[q.head]]

insertNodeToReadyQueue(r, turn) == Append(r, turn)

-----------------------------------------------------------------------------
(* main *)

MakeProcess ==
    /\ pc = "make"
    /\ made' = made + 1
    /\ \E b \in Bursts : burst' = [burst EXCEPT ![made'] = b]
    /\ jobs' = insertNodeToJobQueue(jobs, made')
    /\ pc' = IF made' = NumProcesses THEN "schedule" ELSE "make"
    /\ UNCHANGED ready

\* Mutation: every process gets a full slice.
FullSlice(b) == quantum

Slice(b) == IF b >= quantum THEN quantum ELSE b

\* Mutation: less than a quantum is not counted.
RestWhole(b) == IF b >= quantum THEN b - quantum ELSE b

Rest(b) == b - quantum

Schedule ==
    /\ pc = "schedule" /\ jobs.head # NULL
    /\ Len(ready) < MaxTurns
    /\ LET p == jobs.head
           left == Rest(burst[p])
           others == removeJobQueueHeadNode(jobs)
       IN /\ ready' = insertNodeToReadyQueue(ready, <<p, Slice(burst[p])>>)
          /\ burst' = [burst EXCEPT ![p] = left]
          /\ jobs' = IF left > 0 THEN insertNodeToJobQueue(others, p) ELSE others
    /\ UNCHANGED <<made, pc>>

Finish ==
    /\ pc = "schedule" /\ jobs.head = NULL
    /\ pc' = "done"
    /\ UNCHANGED <<jobs, burst, made, ready>>

Next == MakeProcess \/ Schedule \/ Finish

Spec == Init /\ [][Next]_vars

\* The program runs as long as it can.
FairSpec == Spec /\ WF_vars(Next)

-----------------------------------------------------------------------------
(* Properties *)

\* The types of the variables; the queue has a head if and only if it has a tail.
TypeOK ==
    /\ jobs \in [head : Processes \cup {NULL}, tail : Processes \cup {NULL},
                 nextNode : [Processes -> Processes \cup {NULL}]]
    /\ jobs.head = NULL <=> jobs.tail = NULL
    /\ burst \in [Processes -> Int]
    /\ made \in 0 .. NumProcesses
    /\ ready \in Seq(Processes \X (0 .. quantum))
    /\ pc \in {"make", "schedule", "done"}

\* The k-th node of a queue from its head; following nextNode never falls off
\* before the tail, and behind the tail it may lead anywhere.
Nth(q) == LET nth[k \in 1 .. NumProcesses] ==
                  IF k = 1 THEN q.head
                  ELSE IF nth[k - 1] = NULL THEN NULL ELSE q.nextNode[nth[k - 1]]
          IN nth

\* The processes from its head to the first node that is its tail.
Nodes(q) ==
    IF q.head = NULL THEN <<>>
    ELSE LET ends == {k \in 1 .. NumProcesses : Nth(q)[k] = q.tail}
             length == IF ends = {} THEN NumProcesses
                       ELSE CHOOSE k \in ends : \A l \in ends : k <= l
         IN [k \in 1 .. length |-> Nth(q)[k]]

Queue == Nodes(jobs)

Turns(p) == Cardinality({k \in DOMAIN ready : ready[k][1] = p})

\* The lists implement the scheduling that the program's comment describes:
\* stale pointers and the ring they form never bring a process back, drop
\* one or change the order.
RR == INSTANCE RoundRobin
        WITH queue <- [k \in 1 .. Len(Queue) |-> <<Queue[k], burst[Queue[k]]>>],
             schedule <- ready
IsRoundRobin == RR!RRSpec

\* No process that still wants the CPU is more than one turn behind or ahead
\* of another, and who is further ahead in the queue has had no more turns.
FairTurns ==
    pc = "schedule" =>
        \A k, l \in 1 .. Len(Queue) :
            k < l => Turns(Queue[l]) - Turns(Queue[k]) \in {0, 1}

\* The time a process has had and the time it still wants add up to the burst
\* time it came with: nothing is lost in a short last slice.  Time is counted in units.
TimeOf(p) == Cardinality({unit \in (DOMAIN ready) \X (1 .. quantum) :
                              /\ ready[unit[1]][1] = p
                              /\ unit[2] <= ready[unit[1]][2]})
Wanted(p) == IF burst[p] > 0 THEN burst[p] ELSE 0
TimeIsKept ==
    [][pc = "schedule" => \A p \in Processes :
          TimeOf(p)' + Wanted(p)' = TimeOf(p) + Wanted(p)]_vars

\* The scheduler ends, with every process completed.
Completes == <>(pc = "done" /\ \A p \in Processes : burst[p] <= 0)
=============================================================================
