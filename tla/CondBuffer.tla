----------------------------- MODULE CondBuffer -----------------------------
(***************************************************************************)
(* P06/PC_Conditional/ConditionVar_SKEL.c: a ring buffer of flags guarded  *)
(* by a mutex, with one condition variable for each direction.  A thread   *)
(* that finds nothing to do waits, which gives the mutex back, and has to  *)
(* take it again when it is woken; meanwhile the buffer may have changed.  *)
(*                                                                         *)
(* A ring of BUFFER_SIZE slots whose in and out coincide when it is empty  *)
(* holds at most BUFFER_SIZE - 1 items.                                    *)
(***************************************************************************)
EXTENDS Naturals, FiniteSets, Sequences

CONSTANTS Producers, Consumers,     \* two of each in main
          BUFFER_SIZE

ASSUME ThreadAssumption ==
    Producers \cap Consumers = {} /\ IsFiniteSet(Producers \cup Consumers)
ASSUME SizeAssumption == BUFFER_SIZE \in Nat /\ BUFFER_SIZE > 1

Threads == Producers \cup Consumers
Slots == 0 .. BUFFER_SIZE - 1
Free == "free"

ASSUME FreeAssumption == Free \notin Threads

VARIABLES buffer, in, out,
          mutex,        \* the thread that holds it, or Free
          empty, full,  \* the threads asleep on the condition variables
          pc            \* where each thread is

data == <<buffer, in, out>>
vars == <<data, mutex, empty, full, pc>>

Init == /\ buffer = [s \in Slots |-> 0]
        /\ in = 0 /\ out = 0
        /\ mutex = Free
        /\ empty = {} /\ full = {}
        /\ pc = [t \in Threads |-> "sleep"]

Goto(t, from, to) == pc[t] = from /\ pc' = [pc EXCEPT ![t] = to]

Next1(i) == (i + 1) % BUFFER_SIZE
\* Mutation: the producer does not look whether the ring is full.
IsFullNever == FALSE

IsFull == Next1(in) = out
IsEmpty == in = out

-----------------------------------------------------------------------------
(* What both loops do with the mutex and the condition variables *)

\* The end of sleep(1), or of a wait: the mutex is wanted.
Lock(t) ==
    /\ pc[t] \in {"sleep", "woken"}
    /\ mutex = Free
    /\ mutex' = t
    /\ pc' = [pc EXCEPT ![t] = "check"]
    /\ UNCHANGED <<data, empty, full>>

\* pthread_cond_wait by a producer: release and fall asleep in one step.
WaitEmpty(p) ==
    /\ Goto(p, "check", "asleep")
    /\ IsFull
    /\ mutex' = Free
    /\ empty' = empty \cup {p}
    /\ UNCHANGED <<data, full>>

WaitFull(c) ==
    /\ Goto(c, "check", "asleep")
    /\ IsEmpty
    /\ mutex' = Free
    /\ full' = full \cup {c}
    /\ UNCHANGED <<data, empty>>

\* The signaller goes on to print and unlock; the woken thread, if any, is any
\* one of the waiters.
Signals(t, waiting, rest) ==
    \/ /\ waiting = {} /\ rest = {}
       /\ pc' = [pc EXCEPT ![t] = "unlock"]
    \/ \E w \in waiting :
         /\ rest = waiting \ {w}
         /\ pc' = [pc EXCEPT ![t] = "unlock", ![w] = "woken"]

\* pthread_cond_wait may return without a signal.
SpuriousWakeup(t) ==
    /\ Goto(t, "asleep", "woken")
    /\ empty' = empty \ {t}
    /\ full' = full \ {t}
    /\ UNCHANGED <<data, mutex>>

\* Mutation: the loop goes back to sleep with the mutex in its hand.
UnlockNever(t) ==
    /\ Goto(t, "unlock", "sleep")
    /\ UNCHANGED <<data, mutex, empty, full>>

Unlock(t) ==
    /\ Goto(t, "unlock", "sleep")
    /\ mutex' = Free
    /\ UNCHANGED <<data, empty, full>>

-----------------------------------------------------------------------------
(* producer *)

\* The while loop is left, and buffer[in] = 1.
Fill(p) ==
    /\ Goto(p, "check", "advance")
    /\ ~IsFull
    /\ buffer' = [buffer EXCEPT ![in] = 1]
    /\ UNCHANGED <<in, out, mutex, empty, full>>

AdvanceIn(p) ==
    /\ Goto(p, "advance", "signal")
    /\ in' = Next1(in)
    /\ UNCHANGED <<buffer, out, mutex, empty, full>>

\* Mutation: the producer signals the condition variable producers wait on.
SignalFullWrongly(p) ==
    /\ pc[p] = "signal"
    /\ \E rest \in SUBSET empty : Signals(p, empty, rest) /\ empty' = rest
    /\ UNCHANGED <<data, mutex, full>>

\* Mutation: the producer signals only when it filled an empty buffer.
SignalFullWhenFirst(p) ==
    /\ pc[p] = "signal"
    /\ IF Next1(out) = in
       THEN \E rest \in SUBSET full : Signals(p, full, rest) /\ full' = rest
       ELSE pc' = [pc EXCEPT ![p] = "unlock"] /\ UNCHANGED full
    /\ UNCHANGED <<data, mutex, empty>>

SignalFull(p) ==
    /\ pc[p] = "signal"
    /\ \E rest \in SUBSET full : Signals(p, full, rest) /\ full' = rest
    /\ UNCHANGED <<data, mutex, empty>>

Producer(p) == \/ Lock(p) \/ WaitEmpty(p) \/ Fill(p) \/ AdvanceIn(p)
               \/ SignalFull(p) \/ Unlock(p)

-----------------------------------------------------------------------------
(* consumer *)

Drain(c) ==
    /\ Goto(c, "check", "advance")
    /\ ~IsEmpty
    /\ buffer' = [buffer EXCEPT ![out] = 0]
    /\ UNCHANGED <<in, out, mutex, empty, full>>

\* Mutation: out runs past the slot that was drained.
AdvanceOutTwice(c) ==
    /\ Goto(c, "advance", "signal")
    /\ out' = Next1(Next1(out))
    /\ UNCHANGED <<buffer, in, mutex, empty, full>>

AdvanceOut(c) ==
    /\ Goto(c, "advance", "signal")
    /\ out' = Next1(out)
    /\ UNCHANGED <<buffer, in, mutex, empty, full>>

SignalEmpty(c) ==
    /\ pc[c] = "signal"
    /\ \E rest \in SUBSET empty : Signals(c, empty, rest) /\ empty' = rest
    /\ UNCHANGED <<data, mutex, full>>

Consumer(c) == \/ Lock(c) \/ WaitFull(c) \/ Drain(c) \/ AdvanceOut(c)
               \/ SignalEmpty(c) \/ Unlock(c)

-----------------------------------------------------------------------------
Next == \/ \E p \in Producers : Producer(p)
        \/ \E c \in Consumers : Consumer(c)
        \/ \E t \in Threads : SpuriousWakeup(t)

Spec == Init /\ [][Next]_vars

\* Every thread is scheduled; a spurious wakeup is never owed to anybody, and
\* they do not go on for ever: threads that keep waking for nothing could win
\* the mutex from the others every time.
FairSpec == /\ Spec
            /\ <>[][~ \E t \in Threads : SpuriousWakeup(t)]_vars
            /\ \A p \in Producers : WF_vars(Producer(p))
            /\ \A c \in Consumers : WF_vars(Consumer(c))

-----------------------------------------------------------------------------
(* Properties *)

At(T, labels) == {t \in T : pc[t] \in labels}

Held == (in + BUFFER_SIZE - out) % BUFFER_SIZE
Room == BUFFER_SIZE - 1 - Held

\* The types of the variables, the mutex with whoever is inside its section,
\* and on a condition variable exactly those who called wait on it.
TypeOK ==
    /\ buffer \in [Slots -> {0, 1}]
    /\ in \in Slots /\ out \in Slots
    /\ pc \in [Threads -> {"sleep", "woken", "check", "asleep", "advance",
                           "signal", "unlock"}]
    /\ \A t \in Threads :
          pc[t] \in {"check", "advance", "signal", "unlock"} <=> mutex = t
    /\ mutex \in Threads \cup {Free}
    /\ empty = At(Producers, {"asleep"})
    /\ full = At(Consumers, {"asleep"})

\* The flags say which slots lie between out and in, but for the slot a thread
\* inside the mutex has just changed and not yet passed: no item is written
\* over another, and none is taken twice.
FlagsMatchPointers ==
    \A s \in Slots :
        LET ahead == (s + BUFFER_SIZE - out) % BUFFER_SIZE IN
        buffer[s] = IF \/ ahead < Held /\ ~(s = out /\ At(Consumers, {"advance"}) # {})
                       \/ s = in /\ At(Producers, {"advance"}) # {}
                    THEN 1 ELSE 0

\* A producer sleeps while there is room only if enough producers that will
\* look are awake, or a consumer is about to signal: a signal sent to nobody,
\* to the wrong side, or to a waiter who lost the race to the mutex leaves no
\* place unused.  The same for consumers and items.
NoLostWakeup ==
    /\ empty # {} =>
          Room <= Cardinality(At(Producers, {"woken", "check", "advance"}))
                    + Cardinality(At(Consumers, {"signal"}))
    /\ full # {} =>
          Held <= Cardinality(At(Consumers, {"woken", "check", "advance"}))
                    + Cardinality(At(Producers, {"signal"}))

\* The ring, the mutex and the condition variables implement the bounded
\* buffer of one item less than its slots.  All items are alike.
HasCleared == Cardinality(At(Consumers, {"advance"}))
Fifo == INSTANCE BoundedBuffer WITH
           Items <- {1}, Capacity <- BUFFER_SIZE - 1,
           queue <- [k \in 1 .. Held - HasCleared |->
                        buffer[(out + HasCleared + k - 1) % BUFFER_SIZE]],
           got <- [c \in Consumers |-> 1]
IsBoundedBuffer == Fifo!BufferSpec

\* The two sides never sleep for good at the same time, and neither side does:
\* items keep being put in and taken out.
KeepsFlowing == /\ []<>(At(Producers, {"signal"}) # {})
                /\ []<>(At(Consumers, {"signal"}) # {})
=============================================================================
