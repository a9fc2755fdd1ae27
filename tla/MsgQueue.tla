------------------------------ MODULE MsgQueue ------------------------------
(***************************************************************************)
(* P05/Prod_Cons_Threads/msgq.c: producers and consumers, as many as the   *)
(* command line asks for, pass messages through an array on main's stack.  *)
(* Nothing protects it: position, is_room and keep_running are plain       *)
(* fields of one struct.  A consumer waits while there are messages.       *)
(*                                                                         *)
(* One step is one load or store of a shared field, in the order in which  *)
(* the compiler of the makefile (gcc, no optimisation) emits them.  What   *)
(* is in a message does not matter; where it is written does.              *)
(***************************************************************************)
EXTENDS Integers, FiniteSets

CONSTANTS
    Producers, Consumers,   \* the threads there may be
    BUFFER_SIZE,            \* 5 in the code
    Crews,                  \* the sets of threads that command lines ask for
    MinPosition, MaxPosition    \* bounds: while the program runs, no thread goes
                                \* on from a position outside of them

ASSUME ThreadsAssumption ==
    /\ Producers \cap Consumers = {} /\ IsFiniteSet(Producers \cup Consumers)
    /\ Crews \subseteq SUBSET (Producers \cup Consumers)
ASSUME SizeAssumption ==
    /\ BUFFER_SIZE \in Nat \ {0}
    /\ MinPosition \in Int /\ MinPosition <= -1
    /\ MaxPosition \in Int /\ MaxPosition >= BUFFER_SIZE

Threads == Producers \cup Consumers

VARIABLES
    keep_running, position, is_room,    \* the fields of mq
    crew,       \* the threads the command line asked for
    main,       \* where main is
    pc,         \* where each thread is
    slot,       \* the value of position it works with
    met         \* history: two threads were between the end of a wait and the
                \* end of their turn together

mq == <<keep_running, position, is_room>>
vars == <<mq, crew, main, pc, slot, met>>

Init ==
    /\ keep_running = TRUE /\ position = 0 /\ is_room = TRUE
    /\ crew \in Crews
    /\ main = "create"
    /\ pc = [t \in Threads |-> "none"]
    /\ slot = [t \in Threads |-> 0]
    /\ met = FALSE

-----------------------------------------------------------------------------
(* main *)

Create(t) ==
    /\ main = "create"
    /\ t \in crew /\ pc[t] = "none"
    /\ pc' = [pc EXCEPT ![t] = "test"]
    /\ main' = IF \A u \in crew \ {t} : pc[u] # "none" THEN "enter" ELSE "create"
    /\ UNCHANGED <<mq, crew, slot, met>>

CreateNobody ==
    /\ main = "create" /\ crew = {}
    /\ main' = "enter"
    /\ UNCHANGED <<mq, crew, pc, slot, met>>

HitEnter ==
    /\ main = "enter"
    /\ keep_running' = FALSE
    /\ main' = "join"
    /\ UNCHANGED <<position, is_room, crew, pc, slot, met>>

\* Mutation: the loop that joins the consumers is missing.
JoinProducers ==
    /\ main = "join"
    /\ \A t \in crew \cap Producers : pc[t] = "done"
    /\ main' = "returned"
    /\ UNCHANGED <<mq, crew, pc, slot, met>>

Join ==
    /\ main = "join"
    /\ \A t \in crew : pc[t] = "done"
    /\ main' = "returned"
    /\ UNCHANGED <<mq, crew, pc, slot, met>>

-----------------------------------------------------------------------------
(* What both functions do *)

Inside == {"load", "store", "put", "check", "full", "take", "reopen"}

Goto(t, from, to) ==
    /\ pc[t] = from
    /\ pc' = [pc EXCEPT ![t] = to]
    /\ UNCHANGED <<crew, main>>

\* Mutation: the loop is a do ... while whose condition is never looked at.
TestNever(t, next) ==
    /\ Goto(t, "test", next)
    /\ UNCHANGED <<mq, slot, met>>

\* while (mqueue->keep_running); next is where the turn begins.
Test(t, next) ==
    /\ Goto(t, "test", IF keep_running THEN next ELSE "done")
    /\ UNCHANGED <<mq, slot, met>>

\* The wait of a turn ends; somebody else may be in the middle of his.
LeaveWait(t, wait) ==
    /\ Goto(t, wait, "load")
    /\ met' = (met \/ \E u \in Threads \ {t} : pc[u] \in Inside)
    /\ UNCHANGED <<mq, slot>>

Load(t) ==
    /\ keep_running => position \in MinPosition .. MaxPosition
    /\ Goto(t, "load", "store")
    /\ slot' = [slot EXCEPT ![t] = position]
    /\ UNCHANGED <<mq, met>>

-----------------------------------------------------------------------------
(* producer_function *)

\* while (!mqueue->is_room)
SeesRoom(t) == is_room /\ LeaveWait(t, "room")

\* position++ leaves the old value to index with.
Increment(t) ==
    /\ t \in Producers
    /\ Goto(t, "store", "put")
    /\ position' = slot[t] + 1
    /\ UNCHANGED <<keep_running, is_room, slot, met>>

\* A time_t has eight bytes.  The one behind the array covers keep_running, with
\* a byte of the time, and position, with its upper half, which is zero; the
\* next covers is_room.  Places further off, or below, belong to nobody here.
Put(t) ==
    /\ Goto(t, "put", "check")
    /\ keep_running' \in IF slot[t] = BUFFER_SIZE THEN BOOLEAN ELSE {keep_running}
    /\ position' = IF slot[t] = BUFFER_SIZE THEN 0 ELSE position
    /\ is_room' \in IF slot[t] = BUFFER_SIZE + 1 THEN BOOLEAN ELSE {is_room}
    /\ UNCHANGED <<slot, met>>

\* Mutation: full one message too late.
CheckLate(t) ==
    /\ Goto(t, "check", IF position > BUFFER_SIZE THEN "full" ELSE "test")
    /\ UNCHANGED <<mq, slot, met>>

Check(t) ==
    /\ Goto(t, "check", IF position = BUFFER_SIZE THEN "full" ELSE "test")
    /\ UNCHANGED <<mq, slot, met>>

CloseRoom(t) ==
    /\ Goto(t, "full", "test")
    /\ is_room' = FALSE
    /\ UNCHANGED <<keep_running, position, slot, met>>

Producer(t) == \/ Test(t, "room") \/ SeesRoom(t) \/ Load(t) \/ Increment(t)
               \/ Put(t) \/ Check(t) \/ CloseRoom(t)

-----------------------------------------------------------------------------
(* consumer_function *)

\* Mutation: nobody waits.
SeesNothingAlways(t) == LeaveWait(t, "wait")

\* while (mqueue->position): the wait ends when there is nothing to take.
SeesNothing(t) == position = 0 /\ LeaveWait(t, "wait")

Decrement(t) ==
    /\ t \in Consumers
    /\ Goto(t, "store", "take")
    /\ position' = slot[t] - 1
    /\ UNCHANGED <<keep_running, is_room, slot, met>>

\* --position is read again to index with.
Take(t) ==
    /\ Goto(t, "take", "reopen")
    /\ slot' = [slot EXCEPT ![t] = position]
    /\ UNCHANGED <<mq, met>>

OpenRoom(t) ==
    /\ Goto(t, "reopen", "test")
    /\ is_room' = TRUE
    /\ UNCHANGED <<keep_running, position, slot, met>>

Consumer(t) == \/ Test(t, "wait") \/ SeesNothing(t) \/ Load(t) \/ Decrement(t)
               \/ Take(t) \/ OpenRoom(t)

-----------------------------------------------------------------------------
Next == \/ \E t \in Threads : Create(t)
        \/ CreateNobody \/ HitEnter \/ Join
        \/ \E t \in Producers : Producer(t)
        \/ \E t \in Consumers : Consumer(t)

Spec == Init /\ [][Next]_vars

\* Every thread is scheduled.  Nobody has to hit the key.
FairSpec ==
    /\ Spec
    /\ \A t \in Producers : WF_vars(Producer(t))
    /\ \A t \in Consumers : WF_vars(Consumer(t))
    /\ WF_vars(Join)

-----------------------------------------------------------------------------
(* Properties *)

\* The types of the variables; every thread of the crew, and no other, has been
\* started when main goes on, is at a place of its own function, and has ended
\* when main returns, whose stack holds the fields.
TypeOK ==
    /\ keep_running \in BOOLEAN /\ is_room \in BOOLEAN /\ met \in BOOLEAN
    /\ position \in Int
    /\ crew \in Crews
    /\ main \in {"create", "enter", "join", "returned"}
    /\ pc \in [Threads -> Inside \cup {"none", "test", "room", "wait", "done"}]
    /\ slot \in [Threads -> Int]
    /\ \A t \in Producers : pc[t] \notin {"wait", "take", "reopen"}
    /\ \A t \in Consumers : pc[t] \notin {"room", "put", "check", "full"}
    /\ \A t \in Threads : pc[t] # "none" => t \in crew
    /\ main # "create" => \A t \in crew : pc[t] # "none"
    /\ main = "returned" => \A t \in crew : pc[t] = "done"

\* The missing lock accounts for all but one place.  As long as no two threads
\* were in the middle of a turn together, position stays between -1 and
\* BUFFER_SIZE, is_room is false exactly when the array is full, and nothing is
\* written or taken outside the array but one below it, where the inverted wait
\* of the consumer leads.
AloneKeepsBounds ==
    ~met =>
        /\ position \in -1 .. BUFFER_SIZE
        /\ (\A t \in Threads : pc[t] \notin Inside)
              => (is_room <=> position # BUFFER_SIZE)
        /\ \A t \in Producers : pc[t] = "put" => slot[t] \in -1 .. BUFFER_SIZE - 1
        /\ \A t \in Consumers : pc[t] = "reopen" => slot[t] = -1

\* A producer waits for room nobody will make, or a consumer for messages to go
\* away that nobody will take.
Blocked(t) == \/ pc[t] = "room" /\ ~is_room
              \/ pc[t] = "wait" /\ position # 0

\* When the key has been hit, every thread ends or is caught in a wait, which
\* does not look at keep_running; unless a message written behind the array
\* lands on keep_running and sets it again.
EndOrCaught ==
    (main = "join" /\ ~keep_running)
        ~> (keep_running \/ \A t \in crew : pc[t] = "done" \/ Blocked(t))

\* main prints "Hit the enter key to stop the threads executing".
StopsOnEnter == main = "join" ~> main = "returned"
=============================================================================
