----------------------------- MODULE RoundRobin -----------------------------
(***************************************************************************)
(* What the comment at the top of                                          *)
(* P09/Round_Robin/roundRobinScheduling_Skeleton.c describes: the process  *)
(* at the head of the job queue gets one time slice of the CPU and goes to *)
(* the tail of the queue if it is not completed.                           *)
(***************************************************************************)
EXTENDS Integers, Sequences

CONSTANTS Processes, quantum, Bursts

VARIABLES queue,        \* the job queue: pairs of a process and its burst time
          schedule      \* the ready queue: who had the CPU, and how long

RRInit == queue = <<>> /\ schedule = <<>>

RRArrive(p, burst) ==
    /\ schedule = <<>>
    /\ queue' = Append(queue, <<p, burst>>)
    /\ UNCHANGED schedule

RRSlice ==
    /\ queue # <<>>
    /\ LET p == Head(queue)[1]
           burst == Head(queue)[2]
       IN /\ queue' = Tail(queue) \o IF burst > quantum
                                     THEN << <<p, burst - quantum>> >> ELSE <<>>
          /\ schedule' = Append(schedule,
                                <<p, IF burst > quantum THEN quantum ELSE burst>>)

RRNext == RRSlice \/ \E p \in Processes, burst \in Bursts : RRArrive(p, burst)

RRSpec == RRInit /\ [][RRNext]_<<queue, schedule>>
=============================================================================
