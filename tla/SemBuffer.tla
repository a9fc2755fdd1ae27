----------------------------- MODULE SemBuffer -----------------------------
(***************************************************************************)
(* P06/PC_Semaphore/skeleton_buffer.c: producers and consumers around an   *)
(* array, two counting semaphores and a mutex.  One step is one statement  *)
(* of insert_item or remove_item; the mutex is what makes the statements   *)
(* on the array and the pointers a unit, so they are not one by fiat.      *)
(***************************************************************************)
EXTENDS Naturals, FiniteSets, Sequences

CONSTANTS Producers, Consumers,     \* the threads main creates
          Items,                    \* the values rand() may return
          BUFFER_SIZE,
          Zero, MinusOne            \* what an array slot holds at first, and
                                    \* once its item has been removed

ASSUME ThreadAssumption ==
    Producers \cap Consumers = {} /\ IsFiniteSet(Producers \cup Consumers)
ASSUME SizeAssumption == BUFFER_SIZE \in Nat \ {0}
ASSUME ItemAssumption == Zero \notin Items /\ MinusOne \notin Items

Threads == Producers \cup Consumers
Slots == 0 .. BUFFER_SIZE - 1
Free == "free"

ASSUME FreeAssumption == Free \notin Threads

VARIABLES buffer, insertPointer, removePointer,
          mutex,        \* the thread that holds it, or Free
          empty, full,  \* the semaphores' values
          pc,           \* where each thread is
          item          \* each thread's local variable "random"

vars == <<buffer, insertPointer, removePointer, mutex, empty, full, pc, item>>

Init == /\ buffer = [s \in Slots |-> Zero]
        /\ insertPointer = 0 /\ removePointer = 0
        /\ mutex = Free
        /\ empty = BUFFER_SIZE /\ full = 0
        /\ pc = [t \in Threads |-> "sleep"]
        /\ item = [t \in Threads |-> Zero]

Goto(t, from, to) == pc[t] = from /\ pc' = [pc EXCEPT ![t] = to]

-----------------------------------------------------------------------------
(* producer and insert_item *)

\* The loop of producer: sleep, then insert a new item.
Produce(p) ==
    /\ Goto(p, "sleep", "wait")
    /\ \E v \in Items : item' = [item EXCEPT ![p] = v]
    /\ UNCHANGED <<buffer, insertPointer, removePointer, mutex, empty, full>>

\* Mutation: the semaphore is looked at, not taken.
WaitEmptyPolls(p) ==
    /\ Goto(p, "wait", "lock")
    /\ empty > 0
    /\ UNCHANGED <<buffer, insertPointer, removePointer, mutex, empty, full, item>>

WaitEmpty(p) ==
    /\ Goto(p, "wait", "lock")
    /\ empty > 0
    /\ empty' = empty - 1
    /\ UNCHANGED <<buffer, insertPointer, removePointer, mutex, full, item>>

\* Mutation: the lock call returns at once.
AcquireAlways(t) ==
    /\ Goto(t, "lock", "access")
    /\ mutex' = t
    /\ UNCHANGED <<buffer, insertPointer, removePointer, empty, full, item>>

\* pthread_mutex_lock, by a producer or a consumer.
Acquire(t) ==
    /\ Goto(t, "lock", "access")
    /\ mutex = Free
    /\ mutex' = t
    /\ UNCHANGED <<buffer, insertPointer, removePointer, empty, full, item>>

\* buffer[insertPointer++] = item
Write(p) ==
    /\ Goto(p, "access", "wrap")
    /\ buffer' = [buffer EXCEPT ![insertPointer] = item[p]]
    /\ insertPointer' = insertPointer + 1
    /\ UNCHANGED <<removePointer, mutex, empty, full, item>>

\* Mutation: the modulo is left out.
WrapInsertNever(p) ==
    /\ Goto(p, "wrap", "unlock")
    /\ UNCHANGED <<buffer, insertPointer, removePointer, mutex, empty, full, item>>

\* Mutation: the pointer goes back to the start one slot early.
WrapInsertEarly(p) ==
    /\ Goto(p, "wrap", "unlock")
    /\ insertPointer' = IF insertPointer >= BUFFER_SIZE - 1
                        THEN 0 ELSE insertPointer
    /\ UNCHANGED <<buffer, removePointer, mutex, empty, full, item>>

WrapInsert(p) ==
    /\ Goto(p, "wrap", "unlock")
    /\ insertPointer' = insertPointer % BUFFER_SIZE
    /\ UNCHANGED <<buffer, removePointer, mutex, empty, full, item>>

\* pthread_mutex_unlock, by a producer or a consumer.
Release(t) ==
    /\ Goto(t, "unlock", "post")
    /\ mutex' = Free
    /\ UNCHANGED <<buffer, insertPointer, removePointer, empty, full, item>>

PostFull(p) ==
    /\ Goto(p, "post", "sleep")
    /\ full' = full + 1
    /\ UNCHANGED <<buffer, insertPointer, removePointer, mutex, empty, item>>

Producer(p) == \/ Produce(p) \/ WaitEmpty(p) \/ Acquire(p) \/ Write(p)
               \/ WrapInsert(p) \/ Release(p) \/ PostFull(p)

-----------------------------------------------------------------------------
(* consumer and remove_item *)

Consume(c) ==
    /\ Goto(c, "sleep", "wait")
    /\ UNCHANGED <<buffer, insertPointer, removePointer, mutex, empty, full, item>>

WaitFull(c) ==
    /\ Goto(c, "wait", "lock")
    /\ full > 0
    /\ full' = full - 1
    /\ UNCHANGED <<buffer, insertPointer, removePointer, mutex, empty, item>>

\* *item = buffer[removePointer]
Read(c) ==
    /\ Goto(c, "access", "clear")
    /\ item' = [item EXCEPT ![c] = buffer[removePointer]]
    /\ UNCHANGED <<buffer, insertPointer, removePointer, mutex, empty, full>>

\* buffer[removePointer++] = -1
Clear(c) ==
    /\ Goto(c, "clear", "wrap")
    /\ buffer' = [buffer EXCEPT ![removePointer] = MinusOne]
    /\ removePointer' = removePointer + 1
    /\ UNCHANGED <<insertPointer, mutex, empty, full, item>>

WrapRemove(c) ==
    /\ Goto(c, "wrap", "unlock")
    /\ removePointer' = removePointer % BUFFER_SIZE
    /\ UNCHANGED <<buffer, insertPointer, mutex, empty, full, item>>

\* Mutation: the consumer posts the semaphore it waited for.
PostEmptyToFull(c) ==
    /\ Goto(c, "post", "sleep")
    /\ full' = full + 1
    /\ UNCHANGED <<buffer, insertPointer, removePointer, mutex, empty, item>>

\* Mutation: the freed slot is not announced.
PostEmptyNever(c) ==
    /\ Goto(c, "post", "sleep")
    /\ UNCHANGED <<buffer, insertPointer, removePointer, mutex, empty, full, item>>

PostEmpty(c) ==
    /\ Goto(c, "post", "sleep")
    /\ empty' = empty + 1
    /\ UNCHANGED <<buffer, insertPointer, removePointer, mutex, full, item>>

Consumer(c) == \/ Consume(c) \/ WaitFull(c) \/ Acquire(c) \/ Read(c)
               \/ Clear(c) \/ WrapRemove(c) \/ Release(c) \/ PostEmpty(c)

-----------------------------------------------------------------------------
Next == (\E p \in Producers : Producer(p)) \/ (\E c \in Consumers : Consumer(c))

Spec == Init /\ [][Next]_vars

\* Every thread is scheduled; which of several waiters a post or an unlock
\* lets through is nobody's choice.
FairSpec == /\ Spec
            /\ \A p \in Producers : WF_vars(Producer(p))
            /\ \A c \in Consumers : WF_vars(Consumer(c))

-----------------------------------------------------------------------------
(* Properties *)

At(T, labels) == {t \in T : pc[t] \in labels}

\* The items in the array: those posted, those of producers that have not
\* posted yet, and those of consumers that have not read yet.
Count == full + Cardinality(At(Producers, {"wrap", "unlock", "post"}))
              + Cardinality(At(Consumers, {"lock", "access"}))

\* The oldest item is at removePointer, unless a consumer has just read it.
Oldest == removePointer + Cardinality(At(Consumers, {"clear"}))

Queue == [k \in 1 .. Count |-> buffer[(Oldest + k - 1) % BUFFER_SIZE]]

\* The ranges of the variables; a pointer may be one past the array.
InRange ==
    /\ buffer \in [Slots -> Items \cup {Zero, MinusOne}]
    /\ insertPointer \in 0 .. BUFFER_SIZE
    /\ removePointer \in 0 .. BUFFER_SIZE
    /\ mutex \in Threads \cup {Free}
    /\ empty \in 0 .. BUFFER_SIZE
    /\ full \in 0 .. BUFFER_SIZE
    /\ pc \in [Threads -> {"sleep", "wait", "lock", "access", "clear", "wrap",
                           "unlock", "post"}]
    /\ item \in [Threads -> Items \cup {Zero, MinusOne}]

\* The types of the variables.  A pointer is past the end of the array only
\* while the thread that moved it there holds the mutex and has the modulo
\* before it: nobody else ever finds it there.
TypeOK ==
    /\ InRange
    /\ insertPointer = BUFFER_SIZE => mutex \in At(Producers, {"wrap"})
    /\ removePointer = BUFFER_SIZE => mutex \in At(Consumers, {"wrap"})

\* Every unit of capacity is accounted for: in a semaphore, or with the one
\* thread that waited for it and has not posted it yet.
SemaphoresBalance ==
    empty + full + Cardinality(At(Threads, {"lock", "access", "clear", "wrap",
                                            "unlock", "post"})) = BUFFER_SIZE

\* No item is overwritten before it is removed and no empty slot is removed:
\* whoever is about to use a slot finds in it what the semaphore promised.  The
\* items are in the Count slots from the oldest on and nowhere else, but for the
\* one that a consumer has read and not yet set to -1.
SlotsAsPromised ==
    /\ \A p \in At(Producers, {"access"}) : buffer[insertPointer] \notin Items
    /\ \A c \in At(Consumers, {"access"}) : buffer[removePointer] \in Items
    /\ \A s \in Slots : buffer[s] \in Items <=>
           \/ \E k \in 0 .. BUFFER_SIZE - 1 :
                  k < Count /\ s = (Oldest + k) % BUFFER_SIZE
           \/ s = removePointer /\ At(Consumers, {"clear"}) # {}

\* The two pointers are as far apart as there are items between them, although
\* the semaphores, the pointers and the array are updated at different times.
PointersMatchCount ==
    /\ Count <= BUFFER_SIZE
    /\ insertPointer % BUFFER_SIZE = (Oldest + Count) % BUFFER_SIZE

\* The array, the semaphores and the mutex implement the bounded buffer: items
\* come out once, in the order they were put in.
Fifo == INSTANCE BoundedBuffer WITH
           Capacity <- BUFFER_SIZE, queue <- Queue,
           got <- [c \in Consumers |-> item[c]]
IsBoundedBuffer == Fifo!BufferSpec

\* Items keep flowing: the producers never block one another and the consumers
\* for good, whoever wins the semaphores and the mutex.
KeepsFlowing == /\ []<>(At(Producers, {"post"}) # {})
                /\ []<>(At(Consumers, {"post"}) # {})
=============================================================================
