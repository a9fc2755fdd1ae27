-------------------------- MODULE SemBuffer_proofs --------------------------
(***************************************************************************)
(* For any number of threads and any size of the array: the semaphores     *)
(* balance, every slot holds what a semaphore promised, and the program    *)
(* implements the bounded buffer.                                          *)
(***************************************************************************)
EXTENDS SemBuffer, FiniteSetTheorems, SequenceTheorems, TLAPS

-----------------------------------------------------------------------------
(* Arithmetic of positions in a ring of B places *)

LEMMA Modulo ==
    ASSUME NEW B \in Nat \ {0}, NEW x \in 0 .. B - 1
    PROVE  x % B = x /\ (x + B) % B = x /\ (x + B + B) % B = x
<1>1. x % B = x
  OBVIOUS
<1>2. (x + B) % B = x
  OBVIOUS
<1>3. (x + B + B) % B = x
  OBVIOUS
<1> QED
  BY <1>1, <1>2, <1>3

\* How far a is ahead of b.
Distance(B, a, b) == IF a >= b THEN a - b ELSE a + B - b

\* The place d behind b.
Place(B, b, d) == IF b + d < B THEN b + d ELSE b + d - B

LEMMA PlaceDistance ==
    ASSUME NEW B \in Nat \ {0}, NEW b \in 0 .. B - 1, NEW d \in 0 .. B - 1
    PROVE  /\ Place(B, b, d) \in 0 .. B - 1
           /\ Distance(B, Place(B, b, d), b) = d
           /\ \A a \in 0 .. B - 1 : Distance(B, a, b) = d => a = Place(B, b, d)
<1>1. CASE b + d < B
  BY <1>1 DEF Place, Distance
<1>2. CASE ~(b + d < B)
  BY <1>2 DEF Place, Distance
<1> QED
  BY <1>1, <1>2

LEMMA ModuloRound ==
    ASSUME NEW B \in Nat \ {0}, NEW x \in 0 .. B
    PROVE  (x + B) % B = IF x = B THEN 0 ELSE x
<1>1. CASE x = B
  <2>1. x + B = 0 + B + B /\ 0 \in 0 .. B - 1
    BY <1>1
  <2> QED
    BY <1>1, <2>1, Modulo
<1>2. CASE x # B
  <2>1. x \in 0 .. B - 1
    BY <1>2
  <2> QED
    BY <1>2, <2>1, Modulo
<1> QED
  BY <1>1, <1>2

LEMMA ModuloPlace ==
    ASSUME NEW B \in Nat \ {0}, NEW x \in 0 .. B, NEW d \in 0 .. B - 1
    PROVE  (x + d) % B = Place(B, IF x = B THEN 0 ELSE x, d)
<1>1. CASE x = B
  <2>1. x + d = d + B
    BY <1>1
  <2> QED
    BY <1>1, <2>1, Modulo DEF Place
<1>2. CASE x # B /\ x + d < B
  <2>1. x + d \in 0 .. B - 1
    BY <1>2
  <2> QED
    BY <1>2, <2>1, Modulo DEF Place
<1>3. CASE x # B /\ ~(x + d < B)
  <2>1. x + d - B \in 0 .. B - 1 /\ x + d = (x + d - B) + B
    BY <1>3
  <2>2. (x + d) % B = x + d - B
    BY <2>1, Modulo
  <2> QED
    BY <1>3, <2>2, Modulo DEF Place
<1> QED
  BY <1>1, <1>2, <1>3

\* n places are in use, from b up to a; all of them when a has come round to b.
InUse(B, a, b, n) == Distance(B, a, b) = IF n = B THEN 0 ELSE n

\* One more place is used, at a.
LEMMA UseOneMore ==
    ASSUME NEW B \in Nat \ {0}, NEW a \in 0 .. B - 1, NEW b \in 0 .. B - 1,
           NEW n \in 0 .. B - 1, InUse(B, a, b, n), NEW a1, a1 = IF a = B - 1 THEN 0 ELSE a + 1
    PROVE  /\ InUse(B, a1, b, n + 1)
           /\ \A s \in 0 .. B - 1 : Distance(B, s, b) < n + 1 <=> Distance(B, s, b) < n \/ s = a
           /\ Distance(B, a, b) = n
  BY DEF InUse, Distance

\* One place less is used, at b.
LEMMA UseOneLess ==
    ASSUME NEW B \in Nat \ {0}, NEW a \in 0 .. B - 1, NEW b \in 0 .. B - 1,
           NEW n \in 1 .. B, InUse(B, a, b, n), NEW b1, b1 = IF b = B - 1 THEN 0 ELSE b + 1
    PROVE  /\ InUse(B, a, b1, n - 1)
           /\ \A s \in 0 .. B - 1 : Distance(B, s, b) < n <=> Distance(B, s, b1) < n - 1 \/ s = b
           /\ Distance(B, b, b1) = B - 1
           /\ \A d \in 1 .. B - 1 : Place(B, b1, d - 1) = Place(B, b, d)
  BY DEF InUse, Distance, Place

-----------------------------------------------------------------------------
(* Counting threads *)

Labels == {"sleep", "wait", "lock", "access", "clear", "wrap", "unlock", "post"}
Section == {"access", "clear", "wrap", "unlock"}
Busy == {"lock", "access", "clear", "wrap", "unlock", "post"}

LEMMA Kinds ==
    /\ Producers \in SUBSET Threads /\ Consumers \in SUBSET Threads
    /\ \A p \in Producers : p \in Threads /\ p \notin Consumers
    /\ \A c \in Consumers : c \in Threads /\ c \notin Producers
  BY ThreadAssumption DEF Threads

LEMMA Counts ==
    ASSUME NEW T \in SUBSET Threads, NEW L
    PROVE  /\ IsFiniteSet(At(T, L)) /\ Cardinality(At(T, L)) \in Nat
           /\ \A t \in T : pc[t] \in L => Cardinality(At(T, L)) >= 1
<1>1. At(T, L) \subseteq Producers \cup Consumers
  BY DEF At, Threads
<1>2. IsFiniteSet(At(T, L)) /\ Cardinality(At(T, L)) \in Nat
  BY <1>1, FS_Subset, FS_CardinalityType, ThreadAssumption
<1>3. ASSUME NEW t \in T, pc[t] \in L PROVE Cardinality(At(T, L)) # 0
  <2>1. t \in At(T, L)
    BY <1>3 DEF At
  <2> QED
    BY <2>1, <1>2, FS_EmptySet
<1> QED
  BY <1>2, <1>3

\* One thread moves on: so does every step of the program.
Moves(t, from, to) ==
    /\ pc[t] = from /\ pc'[t] = to
    /\ \A u \in Threads : u # t => pc'[u] = pc[u]

LEMMA CountMove ==
    ASSUME NEW T \in SUBSET Threads, NEW L, NEW t \in Threads, NEW from, NEW to,
           Moves(t, from, to)
    PROVE  Cardinality(At(T, L)') =
              Cardinality(At(T, L)) + (IF t \in T /\ to \in L THEN 1 ELSE 0)
                                    - (IF t \in T /\ from \in L THEN 1 ELSE 0)
<1>1. IsFiniteSet(At(T, L)) /\ Cardinality(At(T, L)) \in Nat
  BY Counts
<1>2. CASE t \in T /\ to \in L /\ from \notin L
  <2>1. At(T, L)' = At(T, L) \cup {t} /\ t \notin At(T, L)
    BY <1>2 DEF At, Moves
  <2>2. Cardinality(At(T, L)') = Cardinality(At(T, L)) + 1
    BY <1>1, <2>1, FS_AddElement
  <2> QED
    BY <1>1, <1>2, <2>2
<1>3. CASE t \in T /\ to \notin L /\ from \in L
  <2>1. At(T, L)' = At(T, L) \ {t} /\ t \in At(T, L)
    BY <1>3 DEF At, Moves
  <2>2. Cardinality(At(T, L)') = Cardinality(At(T, L)) - 1
    BY <1>1, <2>1, FS_RemoveElement
  <2> QED
    BY <1>1, <1>3, <2>2
<1>4. CASE t \notin T \/ (to \in L <=> from \in L)
  <2>1. At(T, L)' = At(T, L)
    BY <1>4 DEF At, Moves
  <2> QED
    BY <1>1, <1>4, <2>1
<1> QED
  BY <1>2, <1>3, <1>4

LEMMA CountUnion ==
    ASSUME NEW T \in SUBSET Threads, NEW L, NEW M, L \cap M = {}
    PROVE  Cardinality(At(T, L \cup M)) = Cardinality(At(T, L)) + Cardinality(At(T, M))
<1>1. At(T, L \cup M) = At(T, L) \cup At(T, M) /\ At(T, L) \cap At(T, M) = {}
  BY DEF At
<1>2. Cardinality(At(T, L) \cup At(T, M)) =
         Cardinality(At(T, L)) + Cardinality(At(T, M)) - Cardinality(At(T, L) \cap At(T, M))
  BY Counts, FS_Union
<1>3. Cardinality(At(T, L) \cap At(T, M)) = 0
  <2>1. Cardinality({}) = 0
    BY FS_EmptySet
  <2> QED
    BY <1>1, <2>1
<1>4. Cardinality(At(T, L)) \in Nat /\ Cardinality(At(T, M)) \in Nat
  BY Counts
<1>5. Cardinality(At(T, L \cup M)) = Cardinality(At(T, L) \cup At(T, M))
  BY <1>1
<1> QED
  BY <1>2, <1>3, <1>4, <1>5

-----------------------------------------------------------------------------
(* Types, mutual exclusion and the balance of the semaphores *)

Exclusive == \A t \in Threads : pc[t] \in Section <=> mutex = t

\* A pointer is behind the array only between the increment and the modulo.
Ends == /\ insertPointer = BUFFER_SIZE => \E p \in Producers : pc[p] = "wrap"
        /\ removePointer = BUFFER_SIZE => \E c \in Consumers : pc[c] = "wrap"

Base == InRange /\ Exclusive /\ SemaphoresBalance /\ Ends

LEMMA BaseInit == Init => Base
<1> SUFFICES ASSUME Init PROVE Base
  OBVIOUS
<1>1. InRange
  BY SizeAssumption DEF Init, InRange
<1>2. Exclusive
  BY FreeAssumption DEF Init, Exclusive, Section
<1>3. SemaphoresBalance
  <2>1. At(Threads, Busy) = {}
    BY DEF Init, At, Busy
  <2> QED
    BY <2>1, FS_EmptySet, SizeAssumption DEF Init, SemaphoresBalance, Busy
<1>4. Ends
  BY SizeAssumption DEF Init, Ends
<1> QED
  BY <1>1, <1>2, <1>3, <1>4 DEF Base

LEMMA Moving ==
    ASSUME InRange, NEW t \in Threads, NEW from, NEW to, Goto(t, from, to)
    PROVE  Moves(t, from, to)
  BY DEF InRange, Goto, Moves

\* A pointer after the modulo.
LEMMA WrappedPointer ==
    ASSUME NEW x \in 0 .. BUFFER_SIZE
    PROVE  /\ x % BUFFER_SIZE = IF x = BUFFER_SIZE THEN 0 ELSE x
           /\ x % BUFFER_SIZE \in Slots
<1>1. CASE x = BUFFER_SIZE
  <2>1. 0 \in 0 .. BUFFER_SIZE - 1 /\ x = 0 + BUFFER_SIZE
    BY <1>1, SizeAssumption
  <2> QED
    BY <1>1, <2>1, Modulo, SizeAssumption DEF Slots
<1>2. CASE x # BUFFER_SIZE
  <2>1. x \in 0 .. BUFFER_SIZE - 1
    BY <1>2, SizeAssumption
  <2> QED
    BY <1>2, <2>1, Modulo, SizeAssumption DEF Slots
<1> QED
  BY <1>1, <1>2

\* The semaphores balance when a step changes their sum as it changes the
\* number of threads at work.
LEMMA BalanceStep ==
    ASSUME SemaphoresBalance, NEW t \in Threads, NEW from, NEW to, Moves(t, from, to),
           BUFFER_SIZE \in Nat, empty \in Nat, full \in Nat, empty' \in Nat, full' \in Nat,
           empty' + full' + (IF to \in Busy THEN 1 ELSE 0)
              = empty + full + (IF from \in Busy THEN 1 ELSE 0)
    PROVE  /\ SemaphoresBalance'
           /\ empty' \in 0 .. BUFFER_SIZE /\ full' \in 0 .. BUFFER_SIZE
<1>1. Cardinality(At(Threads, Busy)') =
         Cardinality(At(Threads, Busy)) + (IF to \in Busy THEN 1 ELSE 0)
                                        - (IF from \in Busy THEN 1 ELSE 0)
  BY CountMove
<1>2. /\ Cardinality(At(Threads, Busy)) \in Nat
      /\ empty + full + Cardinality(At(Threads, Busy)) = BUFFER_SIZE
  BY Counts DEF SemaphoresBalance, Busy
<1>3. /\ from \in Busy => Cardinality(At(Threads, Busy)) >= 1
  BY Counts DEF Moves
<1>4. Cardinality(At(Threads, Busy)') \in Nat
  BY <1>1, <1>2, <1>3
<1>5. empty' + full' + Cardinality(At(Threads, Busy)') = BUFFER_SIZE
  <2>1. PICK e \in Nat, f \in Nat, n \in Nat, e1 \in Nat, f1 \in Nat, n1 \in Nat :
           /\ e = empty /\ f = full /\ e1 = empty' /\ f1 = full'
           /\ n = Cardinality(At(Threads, Busy)) /\ n1 = Cardinality(At(Threads, Busy)')
    BY <1>2, <1>4
  <2>2. n1 = n + (IF to \in Busy THEN 1 ELSE 0) - (IF from \in Busy THEN 1 ELSE 0)
    BY <1>1, <2>1
  <2>3. e1 + f1 + (IF to \in Busy THEN 1 ELSE 0) = e + f + (IF from \in Busy THEN 1 ELSE 0)
    BY <2>1
  <2>4. e + f + n = BUFFER_SIZE
    BY <1>2, <2>1
  <2>5. e1 + f1 + n1 = BUFFER_SIZE
    BY <2>2, <2>3, <2>4
  <2> QED
    BY <2>1, <2>5
<1>6. empty' \in 0 .. BUFFER_SIZE /\ full' \in 0 .. BUFFER_SIZE
  BY <1>4, <1>5
<1> QED
  BY <1>5, <1>6 DEF SemaphoresBalance, Busy

\* What the mutex and the semaphores need of a step of one thread.
LEMMA BaseStep ==
    ASSUME InRange, Exclusive, SemaphoresBalance,
           NEW t \in Threads, NEW from \in Labels, NEW to \in Labels, Goto(t, from, to),
           buffer' \in [Slots -> Items \cup {Zero, MinusOne}],
           insertPointer' \in 0 .. BUFFER_SIZE, removePointer' \in 0 .. BUFFER_SIZE,
           item' \in [Threads -> Items \cup {Zero, MinusOne}],
           empty' \in Nat, full' \in Nat,
           empty' + full' + (IF to \in Busy THEN 1 ELSE 0)
              = empty + full + (IF from \in Busy THEN 1 ELSE 0),
           from \notin Section /\ to \in Section => mutex = Free /\ mutex' = t,
           from \in Section /\ to \notin Section => mutex' = Free,
           (from \in Section <=> to \in Section) => mutex' = mutex
    PROVE  InRange' /\ Exclusive' /\ SemaphoresBalance'
<1>1. Moves(t, from, to) /\ pc' \in [Threads -> Labels]
  BY Moving DEF Goto, InRange, Labels
<1>2. mutex' \in Threads \cup {Free} /\ Exclusive'
  BY <1>1, FreeAssumption DEF InRange, Exclusive, Moves
<1>3. /\ SemaphoresBalance'
      /\ empty' \in 0 .. BUFFER_SIZE /\ full' \in 0 .. BUFFER_SIZE
  <2>1. BUFFER_SIZE \in Nat /\ empty \in Nat /\ full \in Nat
    BY SizeAssumption DEF InRange
  <2> QED
    BY <1>1, <2>1, BalanceStep
<1> QED
  BY <1>1, <1>2, <1>3 DEF InRange, Labels

\* Of all threads only the holder of the mutex is inside.
LEMMA Only ==
    ASSUME Exclusive, NEW t \in Threads, pc[t] \in Section
    PROVE  \A u \in Threads : pc[u] \in Section => u = t
  BY DEF Exclusive

\* Where the pointers are when somebody uses them.
LEMMA Pointing ==
    ASSUME Base
    PROVE  /\ \A p \in Producers : pc[p] = "access" => insertPointer \in Slots
           /\ \A c \in Consumers : pc[c] \in {"access", "clear"} => removePointer \in Slots
<1>1. ASSUME NEW p \in Producers, pc[p] = "access", insertPointer = BUFFER_SIZE PROVE FALSE
  <2>1. PICK u \in Producers : pc[u] = "wrap"
    BY <1>1 DEF Base, Ends
  <2> QED
    BY <1>1, <2>1, Only, Kinds DEF Base, Section
<1>2. ASSUME NEW c \in Consumers, pc[c] \in {"access", "clear"}, removePointer = BUFFER_SIZE
      PROVE  FALSE
  <2>1. PICK u \in Consumers : pc[u] = "wrap"
    BY <1>2 DEF Base, Ends
  <2> QED
    BY <1>2, <2>1, Only, Kinds DEF Base, Section
<1> QED
  BY <1>1, <1>2, SizeAssumption DEF Base, InRange, Slots

\* A step that leaves the pointers alone, of a thread that is not at the modulo.
LEMMA EndsKept ==
    ASSUME Base, NEW t \in Threads, NEW from, NEW to, Goto(t, from, to), from # "wrap",
           UNCHANGED <<insertPointer, removePointer>>
    PROVE  Ends'
<1>1. Moves(t, from, to)
  BY Moving DEF Base
<1>2. \A u \in Threads : pc[u] = "wrap" => pc'[u] = "wrap"
  BY <1>1 DEF Moves
<1> QED
  BY <1>2, Kinds DEF Base, Ends

LEMMA BaseNext == Base /\ [Next]_vars => Base'
<1> SUFFICES ASSUME Base, [Next]_vars PROVE Base'
  OBVIOUS
<1>0. InRange /\ Exclusive /\ SemaphoresBalance /\ Ends
  BY DEF Base
<1>t. /\ empty \in Nat /\ full \in Nat /\ BUFFER_SIZE \in Nat \ {0}
      /\ insertPointer \in 0 .. BUFFER_SIZE /\ removePointer \in 0 .. BUFFER_SIZE
      /\ buffer \in [Slots -> Items \cup {Zero, MinusOne}]
      /\ item \in [Threads -> Items \cup {Zero, MinusOne}]
  BY <1>0, SizeAssumption DEF InRange
<1>1. ASSUME NEW p \in Producers, Produce(p) PROVE Base'
  <2>1. item' \in [Threads -> Items \cup {Zero, MinusOne}]
    BY <1>1, <1>t DEF Produce
  <2> QED
    BY <1>0, <1>1, <1>t, <2>1, BaseStep, EndsKept, Kinds
       DEF Base, Produce, Labels, Section, Busy
<1>2. ASSUME NEW p \in Producers, WaitEmpty(p) PROVE Base'
  BY <1>0, <1>2, <1>t, BaseStep, EndsKept, Kinds DEF Base, WaitEmpty, Labels, Section, Busy
<1>3. ASSUME NEW t \in Threads, Acquire(t) PROVE Base'
  BY <1>0, <1>3, <1>t, BaseStep, EndsKept DEF Base, Acquire, Labels, Section, Busy
<1>4. ASSUME NEW p \in Producers, Write(p) PROVE Base'
  <2>1. insertPointer \in Slots /\ p \in Threads /\ Moves(p, "access", "wrap")
    BY <1>0, <1>4, Pointing, Moving, Kinds DEF Write, Goto
  <2>2. /\ insertPointer' \in 0 .. BUFFER_SIZE
        /\ buffer' \in [Slots -> Items \cup {Zero, MinusOne}]
    BY <1>4, <1>t, <2>1 DEF Write, Slots
  <2>3. InRange' /\ Exclusive' /\ SemaphoresBalance'
    BY <1>0, <1>4, <1>t, <2>1, <2>2, BaseStep DEF Write, Labels, Section, Busy
  <2>4. Ends'
    BY <1>0, <1>4, <2>1, Kinds DEF Ends, Moves, Write
  <2> QED
    BY <2>3, <2>4 DEF Base
<1>5. ASSUME NEW p \in Producers, WrapInsert(p) PROVE Base'
  <2>1. p \in Threads /\ Moves(p, "wrap", "unlock")
    BY <1>0, <1>5, Moving, Kinds DEF WrapInsert
  <2>2. insertPointer' \in Slots
    BY <1>5, <1>t, WrappedPointer DEF WrapInsert
  <2>3. InRange' /\ Exclusive' /\ SemaphoresBalance'
    BY <1>0, <1>5, <1>t, <2>1, <2>2, BaseStep DEF WrapInsert, Labels, Section, Busy, Slots
  <2>4. Ends'
    BY <1>0, <1>5, <1>t, <2>1, <2>2, Kinds DEF Ends, Moves, WrapInsert, Slots
  <2> QED
    BY <2>3, <2>4 DEF Base
<1>6. ASSUME NEW t \in Threads, Release(t) PROVE Base'
  BY <1>0, <1>6, <1>t, BaseStep, EndsKept DEF Base, Release, Labels, Section, Busy
<1>7. ASSUME NEW p \in Producers, PostFull(p) PROVE Base'
  BY <1>0, <1>7, <1>t, BaseStep, EndsKept, Kinds DEF Base, PostFull, Labels, Section, Busy
<1>8. ASSUME NEW c \in Consumers, Consume(c) PROVE Base'
  BY <1>0, <1>8, <1>t, BaseStep, EndsKept, Kinds DEF Base, Consume, Labels, Section, Busy
<1>9. ASSUME NEW c \in Consumers, WaitFull(c) PROVE Base'
  BY <1>0, <1>9, <1>t, BaseStep, EndsKept, Kinds DEF Base, WaitFull, Labels, Section, Busy
<1>10. ASSUME NEW c \in Consumers, Read(c) PROVE Base'
  <2>1. removePointer \in Slots
    BY <1>10, Pointing DEF Read, Goto
  <2>2. item' \in [Threads -> Items \cup {Zero, MinusOne}]
    BY <1>10, <1>t, <2>1 DEF Read
  <2> QED
    BY <1>0, <1>10, <1>t, <2>2, BaseStep, EndsKept, Kinds
       DEF Base, Read, Labels, Section, Busy
<1>11. ASSUME NEW c \in Consumers, Clear(c) PROVE Base'
  <2>1. removePointer \in Slots /\ c \in Threads /\ Moves(c, "clear", "wrap")
    BY <1>0, <1>11, Pointing, Moving, Kinds DEF Clear, Goto
  <2>2. /\ removePointer' \in 0 .. BUFFER_SIZE
        /\ buffer' \in [Slots -> Items \cup {Zero, MinusOne}]
    BY <1>11, <1>t, <2>1 DEF Clear, Slots
  <2>3. InRange' /\ Exclusive' /\ SemaphoresBalance'
    BY <1>0, <1>11, <1>t, <2>1, <2>2, BaseStep DEF Clear, Labels, Section, Busy
  <2>4. Ends'
    BY <1>0, <1>11, <2>1, Kinds DEF Ends, Moves, Clear
  <2> QED
    BY <2>3, <2>4 DEF Base
<1>12. ASSUME NEW c \in Consumers, WrapRemove(c) PROVE Base'
  <2>1. c \in Threads /\ Moves(c, "wrap", "unlock")
    BY <1>0, <1>12, Moving, Kinds DEF WrapRemove
  <2>2. removePointer' \in Slots
    BY <1>12, <1>t, WrappedPointer DEF WrapRemove
  <2>3. InRange' /\ Exclusive' /\ SemaphoresBalance'
    BY <1>0, <1>12, <1>t, <2>1, <2>2, BaseStep DEF WrapRemove, Labels, Section, Busy, Slots
  <2>4. Ends'
    BY <1>0, <1>12, <1>t, <2>1, <2>2, Kinds DEF Ends, Moves, WrapRemove, Slots
  <2> QED
    BY <2>3, <2>4 DEF Base
<1>13. ASSUME NEW c \in Consumers, PostEmpty(c) PROVE Base'
  BY <1>0, <1>13, <1>t, BaseStep, EndsKept, Kinds DEF Base, PostEmpty, Labels, Section, Busy
<1>14. CASE UNCHANGED vars
  BY <1>0, <1>14 DEF Base, vars, InRange, Exclusive, Ends, SemaphoresBalance, At
<1> QED
  BY <1>1, <1>2, <1>3, <1>4, <1>5, <1>6, <1>7, <1>8, <1>9, <1>10, <1>11, <1>12, <1>13,
     <1>14, Kinds DEF Next, Producer, Consumer

\* The types (TypeOK): a pointer leaves the array only in the hands of the thread
\* that holds the mutex and is about to take it modulo BUFFER_SIZE.
THEOREM TypeCorrect == Spec => []TypeOK
<1>1. ASSUME Base PROVE TypeOK
  <2>1. insertPointer = BUFFER_SIZE => mutex \in At(Producers, {"wrap"})
    BY <1>1, Kinds DEF Base, Ends, Exclusive, Section, At
  <2>2. removePointer = BUFFER_SIZE => mutex \in At(Consumers, {"wrap"})
    BY <1>1, Kinds DEF Base, Ends, Exclusive, Section, At
  <2> QED
    BY <1>1, <2>1, <2>2 DEF Base, TypeOK
<1> QED
  BY <1>1, BaseInit, BaseNext, PTL DEF Spec

\* Every wait on one semaphore is paid back with one post of the other.
THEOREM Balanced == Spec => []SemaphoresBalance
<1>1. Base => SemaphoresBalance
  BY DEF Base
<1> QED
  BY <1>1, BaseInit, BaseNext, PTL DEF Spec

-----------------------------------------------------------------------------
(* Deadlock *)

\* The calls that may not return: pthread_mutex_lock and both sem_wait.
Blocked(t) ==
    \/ pc[t] = "lock" /\ mutex # Free
    \/ t \in Producers /\ pc[t] = "wait" /\ empty = 0
    \/ t \in Consumers /\ pc[t] = "wait" /\ full = 0

\* The threads never all wait for one another: when the mutex is taken its holder
\* can go on, and when nobody is past a semaphore one of the two is up, although
\* insert_item and remove_item take a semaphore first and the mutex second.
THEOREM NeverAllBlocked ==
    ASSUME Producers # {}, Consumers # {}
    PROVE  Spec => [](\E t \in Threads : ~Blocked(t))
<1>1. ASSUME Base
      PROVE  \E t \in Threads : ~Blocked(t)
  <2>0. InRange /\ Exclusive /\ SemaphoresBalance
    BY <1>1 DEF Base
  <2>1. CASE mutex # Free
    <3>1. mutex \in Threads /\ pc[mutex] \in Section
      BY <2>0, <2>1 DEF InRange, Exclusive
    <3> QED
      BY <3>1 DEF Blocked, Section
  <2>2. CASE \E t \in Threads : pc[t] # "wait" /\ mutex = Free
    BY <2>2 DEF Blocked
  <2>3. CASE \A t \in Threads : pc[t] = "wait"
    <3>1. PICK p \in Producers, c \in Consumers : p \in Threads /\ c \in Threads
      BY <1>1, Kinds
    <3>2. At(Threads, Busy) = {}
      BY <2>3 DEF At, Busy
    <3>3. Cardinality(At(Threads, Busy)) = 0
      BY <3>2, FS_EmptySet
    <3>4. empty \in Nat /\ full \in Nat /\ empty + full = BUFFER_SIZE
      BY <2>0, <3>3 DEF InRange, SemaphoresBalance, Busy
    <3>5. empty # 0 \/ full # 0
      BY <3>4, SizeAssumption
    <3>6. p \notin Consumers /\ c \notin Producers
      BY Kinds
    <3> QED
      BY <2>3, <3>1, <3>5, <3>6 DEF Blocked
  <2> QED
    BY <2>1, <2>2, <2>3
<1>2. Base => \E t \in Threads : ~Blocked(t)
  BY <1>1
<1> QED
  BY <1>2, BaseInit, BaseNext, PTL DEF Spec

-----------------------------------------------------------------------------
(* The items in the array *)

Posting == {"wrap", "unlock", "post"}
Fetching == {"lock", "access"}
Clearing == \E c \in Consumers : pc[c] = "clear"

LEMMA Capacity ==
    Base => /\ Count \in 0 .. BUFFER_SIZE
            /\ \A p \in Producers : pc[p] \in Fetching => Count < BUFFER_SIZE
            /\ \A c \in Consumers : pc[c] \in Busy \ Fetching => Count < BUFFER_SIZE
            /\ \A c \in Consumers : pc[c] \in Fetching => Count > 0
<1> SUFFICES ASSUME Base
             PROVE  /\ Count \in 0 .. BUFFER_SIZE
                    /\ \A p \in Producers : pc[p] \in Fetching => Count < BUFFER_SIZE
                    /\ \A c \in Consumers : pc[c] \in Busy \ Fetching => Count < BUFFER_SIZE
                    /\ \A c \in Consumers : pc[c] \in Fetching => Count > 0
  OBVIOUS
<1> DEFINE n(T, L) == Cardinality(At(T, L))
<1>0. \A L : n(Producers, L) \in Nat /\ n(Consumers, L) \in Nat
  BY Counts, Kinds
<1>1. n(Threads, Busy) = n(Producers, Busy) + n(Consumers, Busy)
  <2>1. /\ At(Threads, Busy) = At(Producers, Busy) \cup At(Consumers, Busy)
        /\ At(Producers, Busy) \cap At(Consumers, Busy) = {}
    BY Kinds DEF At, Threads
  <2>2. Cardinality(At(Producers, Busy) \cup At(Consumers, Busy)) =
          n(Producers, Busy) + n(Consumers, Busy)
             - Cardinality(At(Producers, Busy) \cap At(Consumers, Busy))
    BY Counts, Kinds, FS_Union
  <2>3. Cardinality(At(Producers, Busy) \cap At(Consumers, Busy)) = 0
    BY <2>1, FS_EmptySet
  <2>4. Cardinality(At(Producers, Busy) \cup At(Consumers, Busy)) =
          n(Producers, Busy) + n(Consumers, Busy)
    BY <1>0, <2>2, <2>3
  <2> QED
    BY <2>1, <2>4
<1>2. /\ n(Producers, Busy) = n(Producers, Fetching) + n(Producers, Busy \ Fetching)
      /\ n(Consumers, Busy) = n(Consumers, Fetching) + n(Consumers, Busy \ Fetching)
  <2>1. Busy = Fetching \cup (Busy \ Fetching) /\ Fetching \cap (Busy \ Fetching) = {}
    BY DEF Busy, Fetching
  <2>2. ASSUME NEW T \in SUBSET Threads
        PROVE  n(T, Fetching \cup (Busy \ Fetching)) = n(T, Fetching) + n(T, Busy \ Fetching)
    BY <2>1, CountUnion
  <2> QED
    BY <2>1, <2>2, Kinds
<1>3. n(Producers, Busy \ Fetching) = n(Producers, Posting) + n(Producers, {"clear"})
  <2>1. Busy \ Fetching = Posting \cup {"clear"} /\ Posting \cap {"clear"} = {}
    BY DEF Busy, Fetching, Posting
  <2>2. n(Producers, Posting \cup {"clear"}) = n(Producers, Posting) + n(Producers, {"clear"})
    BY <2>1, CountUnion, Kinds
  <2> QED
    BY <2>1, <2>2
<1>4. empty + full + n(Threads, Busy) = BUFFER_SIZE
  BY DEF Base, SemaphoresBalance, Busy
<1>5. Count = full + n(Producers, Posting) + n(Consumers, Fetching)
  BY DEF Count, Posting, Fetching
<1>6. empty \in Nat /\ full \in Nat /\ BUFFER_SIZE \in Nat
  BY SizeAssumption DEF Base, InRange
<1>7. /\ Count \in Nat
      /\ Count + empty + n(Producers, Fetching) + n(Producers, {"clear"})
             + n(Consumers, Busy \ Fetching) = BUFFER_SIZE
  <2>1. /\ n(Producers, Posting) \in Nat /\ n(Consumers, Fetching) \in Nat
        /\ n(Producers, Fetching) \in Nat /\ n(Producers, {"clear"}) \in Nat
        /\ n(Consumers, Busy \ Fetching) \in Nat
    BY <1>0
  <2> HIDE DEF n
  <2> QED
    BY <1>1, <1>2, <1>3, <1>4, <1>5, <1>6, <2>1
<1>8. /\ \A p \in Producers : pc[p] \in Fetching => n(Producers, Fetching) >= 1
      /\ \A c \in Consumers : pc[c] \in Busy \ Fetching => n(Consumers, Busy \ Fetching) >= 1
      /\ \A c \in Consumers : pc[c] \in Fetching => n(Consumers, Fetching) >= 1
  BY Counts, Kinds
<1> QED
  <2>1. /\ n(Producers, Posting) \in Nat /\ n(Consumers, Fetching) \in Nat
        /\ n(Producers, Fetching) \in Nat /\ n(Producers, {"clear"}) \in Nat
        /\ n(Consumers, Busy \ Fetching) \in Nat
    BY <1>0
  <2> HIDE DEF n
  <2>2. Count \in 0 .. BUFFER_SIZE
    BY <1>6, <1>7, <2>1
  <2>3. n(Producers, Fetching) >= 1 => Count < BUFFER_SIZE
    BY <1>6, <1>7, <2>1
  <2>4. n(Consumers, Busy \ Fetching) >= 1 => Count < BUFFER_SIZE
    BY <1>6, <1>7, <2>1
  <2>5. n(Consumers, Fetching) >= 1 => Count > 0
    BY <1>5, <1>6, <2>1
  <2> QED
    BY <1>8, <2>2, <2>3, <2>4, <2>5

\* Who adds to Count by being where it is.
Adds(t, at) == IF \/ t \in Producers /\ at \in Posting
                  \/ t \in Consumers /\ at \in Fetching
               THEN 1 ELSE 0

LEMMA CountStep ==
    ASSUME Base, Base', NEW t \in Threads, NEW from, NEW to, Moves(t, from, to)
    PROVE  Count' = Count + full' - full + Adds(t, to) - Adds(t, from)
<1> DEFINE n(T, L) == Cardinality(At(T, L))
<1>1. /\ n(Producers, Posting)' = n(Producers, Posting)
           + (IF t \in Producers /\ to \in Posting THEN 1 ELSE 0)
           - (IF t \in Producers /\ from \in Posting THEN 1 ELSE 0)
      /\ n(Consumers, Fetching)' = n(Consumers, Fetching)
           + (IF t \in Consumers /\ to \in Fetching THEN 1 ELSE 0)
           - (IF t \in Consumers /\ from \in Fetching THEN 1 ELSE 0)
  BY CountMove, Kinds
<1>2. /\ n(Producers, Posting) \in Nat /\ n(Consumers, Fetching) \in Nat
      /\ full \in Nat /\ full' \in Nat
  BY Counts, Kinds, SizeAssumption DEF Base, InRange
<1>3. /\ Count = full + n(Producers, Posting) + n(Consumers, Fetching)
      /\ Count' = full' + n(Producers, Posting)' + n(Consumers, Fetching)'
  BY DEF Count, Posting, Fetching
<1>4. PICK p1 \in Int, c1 \in Int, f1 \in Nat :
         /\ p1 = n(Producers, Posting)' /\ c1 = n(Consumers, Fetching)' /\ f1 = full'
  BY <1>1, <1>2
<1> HIDE DEF n
<1>5. CASE t \in Producers
  <2>1. t \notin Consumers
    BY <1>5, Kinds
  <2>2. f1 + p1 + c1 = full + n(Producers, Posting) + n(Consumers, Fetching)
                         + f1 - full + Adds(t, to) - Adds(t, from)
    BY <1>1, <1>2, <1>4, <1>5, <2>1 DEF Adds
  <2> QED
    BY <1>3, <1>4, <2>2
<1>6. CASE t \in Consumers
  <2>1. t \notin Producers
    BY <1>6, Kinds
  <2>2. f1 + p1 + c1 = full + n(Producers, Posting) + n(Consumers, Fetching)
                         + f1 - full + Adds(t, to) - Adds(t, from)
    BY <1>1, <1>2, <1>4, <1>6, <2>1 DEF Adds
  <2> QED
    BY <1>3, <1>4, <2>2
<1> QED
  BY <1>5, <1>6 DEF Threads

\* The places the pointers stand for; Last is where the next item goes.
First == IF Oldest = BUFFER_SIZE THEN 0 ELSE Oldest
Last == IF insertPointer = BUFFER_SIZE THEN 0 ELSE insertPointer

\* At most one consumer is between reading a slot and clearing it.
WhereTheyAre == /\ Oldest = IF Clearing THEN removePointer + 1 ELSE removePointer
                /\ Clearing => removePointer \in Slots
                /\ Oldest \in 0 .. BUFFER_SIZE
                /\ First \in Slots /\ Last \in Slots

LEMMA Places == Base => WhereTheyAre
<1> SUFFICES ASSUME Base PROVE WhereTheyAre
  OBVIOUS
<1>1. Cardinality(At(Consumers, {"clear"})) = IF Clearing THEN 1 ELSE 0
  <2>1. CASE Clearing
    <3>1. PICK c \in Consumers : pc[c] = "clear"
      BY <2>1 DEF Clearing
    <3>2. At(Consumers, {"clear"}) = {c}
      BY <3>1, Only, Kinds DEF Base, At, Section
    <3> QED
      BY <2>1, <3>2, FS_Singleton
  <2>2. CASE ~Clearing
    <3>1. At(Consumers, {"clear"}) = {}
      BY <2>2 DEF At, Clearing
    <3> QED
      BY <2>2, <3>1, FS_EmptySet
  <2> QED
    BY <2>1, <2>2
<1>2. removePointer \in 0 .. BUFFER_SIZE /\ insertPointer \in 0 .. BUFFER_SIZE
  BY DEF Base, InRange
<1>3. Clearing => removePointer \in Slots
  BY Pointing DEF Clearing
<1>4. Oldest = IF Clearing THEN removePointer + 1 ELSE removePointer
  BY <1>1, <1>2 DEF Oldest
<1>5. Oldest \in 0 .. BUFFER_SIZE
  BY <1>2, <1>3, <1>4, SizeAssumption DEF Slots
<1> QED
  BY <1>2, <1>3, <1>4, <1>5, SizeAssumption DEF First, Last, Slots, WhereTheyAre

Ahead(s) == Distance(BUFFER_SIZE, s, First)

\* A producer brings an item.
Carrying == \A p \in Producers : pc[p] \in {"wait", "lock", "access"} => item[p] \in Items

\* The items fill the slots from First up to Last, and the slot that a consumer
\* has read and not cleared yet still holds its item.
Filled == /\ InUse(BUFFER_SIZE, Last, First, Count)
          /\ \A s \in Slots : buffer[s] \in Items
                                 <=> Ahead(s) < Count \/ (s = removePointer /\ Clearing)

Contents == Carrying /\ Filled

\* The invariant, from its parts after a step.
LEMMA FilledNow ==
    ASSUME NEW n, n = Count', InUse(BUFFER_SIZE, Last', First', n),
           \A s \in Slots : buffer'[s] \in Items
                                <=> \/ Distance(BUFFER_SIZE, s, First') < n
                                    \/ s = removePointer' /\ Clearing'
    PROVE  Filled'
<1>1. InUse(BUFFER_SIZE, Last, First, Count)'
  BY DEF InUse, Distance
<1>2. \A s \in Slots : Ahead(s)' = Distance(BUFFER_SIZE, s, First')
  BY DEF Ahead, Distance
<1>3. (\A s \in Slots : buffer[s] \in Items
                           <=> Ahead(s) < Count \/ (s = removePointer /\ Clearing))'
  BY <1>2
<1> QED
  BY <1>1, <1>3 DEF Filled

LEMMA FilledSoFar ==
    ASSUME Contents, NEW s \in Slots
    PROVE  buffer[s] \in Items <=> Ahead(s) < Count \/ (s = removePointer /\ Clearing)
  BY DEF Contents, Filled

LEMMA ContentsInit == Init => Contents
<1> SUFFICES ASSUME Init PROVE Contents
  OBVIOUS
<1>1. Base /\ ~Clearing /\ Carrying
  BY BaseInit DEF Init, Clearing, Carrying, Threads
<1>2. Count = 0
  <2>1. At(Producers, Posting) = {} /\ At(Consumers, Fetching) = {}
    BY Kinds DEF Init, At, Posting, Fetching
  <2>2. Cardinality(At(Producers, Posting)) = 0 /\ Cardinality(At(Consumers, Fetching)) = 0
    BY <2>1, FS_EmptySet
  <2> QED
    BY <2>2 DEF Init, Count, Posting, Fetching
<1>3. First = 0 /\ Last = 0
  BY <1>1, Places, SizeAssumption DEF Init, First, Last, WhereTheyAre
<1>4. InUse(BUFFER_SIZE, Last, First, Count)
  BY <1>2, <1>3, SizeAssumption DEF InUse, Distance
<1>5. ASSUME NEW s \in Slots PROVE buffer[s] \notin Items /\ ~(Ahead(s) < Count)
  BY <1>2, <1>3, ItemAssumption, SizeAssumption DEF Init, Ahead, Distance, Slots
<1> QED
  BY <1>1, <1>4, <1>5 DEF Contents, Filled

\* A step after which the places are the same, and so is what they hold.
LEMMA SamePlaces ==
    ASSUME Filled, First' = First, Last' = Last, Count' = Count, UNCHANGED buffer,
           Clearing' <=> Clearing, Clearing => UNCHANGED removePointer
    PROVE  Filled'
<1>1. \A s \in Slots : Ahead(s)' = Ahead(s)
  BY DEF Ahead, Distance
<1> QED
  BY <1>1 DEF Filled, InUse, Distance

\* Steps that touch neither the array nor the pointers.
LEMMA QuietStep ==
    ASSUME Base, Base', Contents, NEW t \in Threads, NEW from, NEW to, Goto(t, from, to),
           UNCHANGED <<buffer, insertPointer, removePointer>>,
           from # "clear", to # "clear", full' + Adds(t, to) = full + Adds(t, from)
    PROVE  Filled' /\ First' = First /\ Count' = Count
<1>1. Moves(t, from, to)
  BY Moving DEF Base
<1>2. Clearing' <=> Clearing
  BY <1>1, Kinds DEF Clearing, Moves
<1>3. Count' = Count
  <2>1. Count \in Nat /\ full \in Nat /\ Adds(t, to) \in Nat /\ Adds(t, from) \in Nat
    BY Capacity, SizeAssumption DEF Base, InRange, Adds
  <2>2. PICK f1 \in Nat : f1 = full'
    BY SizeAssumption DEF Base, InRange
  <2>3. Count' = Count + f1 - full + Adds(t, to) - Adds(t, from)
    BY <1>1, <2>2, CountStep
  <2>4. f1 + Adds(t, to) = full + Adds(t, from)
    BY <2>2
  <2> QED
    BY <2>1, <2>3, <2>4
<1>4. Oldest' = Oldest
  <2>1. WhereTheyAre /\ WhereTheyAre'
    BY Places, PTL
  <2> QED
    BY <1>2, <2>1 DEF WhereTheyAre
<1>5. First' = First /\ Last' = Last
  BY <1>4 DEF First, Last
<1> QED
  BY <1>2, <1>3, <1>5, SamePlaces DEF Contents

LEMMA WriteStep ==
    ASSUME Base, Base', Contents, NEW p \in Producers, Write(p)
    PROVE  /\ Filled' /\ First' = First /\ Count' = Count + 1 /\ Count < BUFFER_SIZE
           /\ Ahead(Last) = Count /\ buffer' = [buffer EXCEPT ![Last] = item[p]]
<1>1. /\ p \in Threads /\ Moves(p, "access", "wrap")
      /\ insertPointer \in Slots /\ insertPointer' = insertPointer + 1
      /\ buffer' = [buffer EXCEPT ![insertPointer] = item[p]]
      /\ UNCHANGED <<removePointer, full>>
  BY Moving, Pointing, Kinds DEF Base, Write, Goto
<1>2. ~Clearing /\ ~Clearing'
  BY <1>1, Only, Kinds DEF Base, Clearing, Section, Moves
<1>3. WhereTheyAre /\ WhereTheyAre'
  BY Places, PTL
<1>4. Oldest' = Oldest /\ First' = First
  BY <1>1, <1>2, <1>3 DEF WhereTheyAre, First
<1>5. BUFFER_SIZE \in Nat \ {0} /\ Last \in 0 .. BUFFER_SIZE - 1 /\ First \in 0 .. BUFFER_SIZE - 1
  BY <1>3, SizeAssumption DEF WhereTheyAre, Slots
<1>6. Last = insertPointer /\ Last' = IF Last = BUFFER_SIZE - 1 THEN 0 ELSE Last + 1
  BY <1>1, <1>5 DEF Last, Slots
<1>7. Count \in 0 .. BUFFER_SIZE - 1
  BY <1>1, <1>5, Capacity DEF Moves, Fetching
<1>8. Count' = Count + 1
  <2>1. full \in Nat /\ full' = full /\ Adds(p, "wrap") = 1 /\ Adds(p, "access") = 0
    BY <1>1, Kinds, SizeAssumption DEF Base, InRange, Adds, Posting, Fetching
  <2>2. Count' = Count + full - full + 1 - 0
    BY <1>1, <2>1, CountStep
  <2> QED
    BY <1>7, <2>1, <2>2
<1>9. InUse(BUFFER_SIZE, Last, First, Count)
  BY DEF Contents, Filled
<1>10. /\ InUse(BUFFER_SIZE, Last', First, Count + 1) /\ Ahead(Last) = Count
       /\ \A s \in Slots : Ahead(s) < Count + 1 <=> Ahead(s) < Count \/ s = Last
  BY <1>5, <1>6, <1>7, <1>9, UseOneMore DEF Slots, Ahead
<1>11. item[p] \in Items
  BY <1>1 DEF Contents, Carrying, Moves
<1>12. ASSUME NEW s \in Slots
       PROVE  buffer'[s] \in Items <=> Ahead(s) < Count + 1
  <2>1. buffer[s] \in Items <=> Ahead(s) < Count
    BY <1>2, FilledSoFar
  <2>2. buffer'[s] = IF s = Last THEN item[p] ELSE buffer[s]
    BY <1>1, <1>6 DEF Base, InRange
  <2> QED
    BY <1>10, <1>11, <2>1, <2>2
<1>13. Filled'
  <2>1. InUse(BUFFER_SIZE, Last', First', Count + 1)
    BY <1>4, <1>10
  <2>2. \A s \in Slots : buffer'[s] \in Items
                             <=> Distance(BUFFER_SIZE, s, First') < Count + 1
    BY <1>4, <1>12 DEF Ahead
  <2> QED
    BY <1>2, <1>8, <2>1, <2>2, FilledNow
<1> QED
  BY <1>1, <1>4, <1>5, <1>6, <1>7, <1>8, <1>10, <1>13

LEMMA ReadStep ==
    ASSUME Base, Base', Contents, NEW c \in Consumers, Read(c)
    PROVE  /\ Filled' /\ Count > 0 /\ Count' = Count - 1 /\ UNCHANGED buffer
           /\ First' = IF First = BUFFER_SIZE - 1 THEN 0 ELSE First + 1
           /\ item' = [item EXCEPT ![c] = buffer[First]]
<1>1. /\ c \in Threads /\ Moves(c, "access", "clear") /\ removePointer \in Slots
      /\ item' = [item EXCEPT ![c] = buffer[removePointer]]
      /\ UNCHANGED <<buffer, insertPointer, removePointer, full>>
  BY Moving, Pointing, Kinds DEF Base, Read, Goto
<1>2. ~Clearing
  BY <1>1, Only, Kinds DEF Base, Clearing, Section, Moves
<1>3. Clearing'
  BY <1>1 DEF Clearing, Moves
<1>4. WhereTheyAre /\ WhereTheyAre'
  BY Places, PTL
<1>5. BUFFER_SIZE \in Nat \ {0} /\ Last \in 0 .. BUFFER_SIZE - 1 /\ First \in 0 .. BUFFER_SIZE - 1
  BY <1>4, SizeAssumption DEF WhereTheyAre, Slots
<1>6. First = removePointer /\ Oldest' = First + 1 /\ Last' = Last
  <2>1. Oldest = removePointer
    BY <1>2, <1>4 DEF WhereTheyAre
  <2>2. Oldest' = removePointer' + 1
    BY <1>3, <1>4 DEF WhereTheyAre
  <2>3. First = removePointer
    BY <1>1, <2>1, SizeAssumption DEF First, Slots
  <2>4. Last' = Last
    BY <1>1 DEF Last
  <2> QED
    BY <1>1, <2>2, <2>3, <2>4
<1>7. First' = IF First = BUFFER_SIZE - 1 THEN 0 ELSE First + 1
  <2>1. First' = IF Oldest' = BUFFER_SIZE THEN 0 ELSE Oldest'
    BY DEF First
  <2>2. First + 1 = BUFFER_SIZE <=> First = BUFFER_SIZE - 1
    BY <1>5
  <2> QED
    BY <1>6, <2>1, <2>2
<1>8. Count \in 1 .. BUFFER_SIZE
  BY <1>1, <1>5, Capacity DEF Moves, Fetching
<1>9. Count' = Count - 1
  <2>1. full \in Nat /\ full' = full /\ Adds(c, "clear") = 0 /\ Adds(c, "access") = 1
    BY <1>1, Kinds, SizeAssumption DEF Base, InRange, Adds, Posting, Fetching
  <2>2. Count' = Count + full - full + 0 - 1
    BY <1>1, <2>1, CountStep
  <2> QED
    BY <1>8, <2>1, <2>2
<1>10. InUse(BUFFER_SIZE, Last, First, Count)
  BY DEF Contents, Filled
<1>11. /\ InUse(BUFFER_SIZE, Last, First', Count - 1)
       /\ \A s \in Slots : Ahead(s) < Count
                             <=> Distance(BUFFER_SIZE, s, First') < Count - 1 \/ s = First
  BY <1>5, <1>7, <1>8, <1>10, UseOneLess DEF Slots, Ahead
<1>12. ASSUME NEW s \in Slots
       PROVE  buffer'[s] \in Items
                 <=> Distance(BUFFER_SIZE, s, First') < Count - 1 \/ s = removePointer
  <2>1. buffer[s] \in Items <=> Ahead(s) < Count
    BY <1>2, FilledSoFar
  <2> QED
    BY <1>1, <1>6, <1>11, <2>1
<1>13. Filled'
  <2>1. InUse(BUFFER_SIZE, Last', First', Count - 1)
    BY <1>6, <1>11
  <2> QED
    BY <1>1, <1>3, <1>9, <1>12, <2>1, FilledNow
<1> QED
  BY <1>1, <1>5, <1>6, <1>7, <1>8, <1>9, <1>13

LEMMA ClearStep ==
    ASSUME Base, Base', Contents, NEW c \in Consumers, Clear(c)
    PROVE  /\ Filled' /\ Count' = Count /\ First' = First
           /\ buffer' = [buffer EXCEPT ![removePointer] = MinusOne]
           /\ removePointer \in Slots /\ ~(Ahead(removePointer) < Count)
<1>1. /\ c \in Threads /\ Moves(c, "clear", "wrap") /\ removePointer \in Slots
      /\ buffer' = [buffer EXCEPT ![removePointer] = MinusOne]
      /\ removePointer' = removePointer + 1
      /\ UNCHANGED <<insertPointer, full>>
  BY Moving, Pointing, Kinds DEF Base, Clear, Goto
<1>2. Clearing
  BY <1>1 DEF Clearing, Moves
<1>3. ~Clearing'
  BY <1>1, Only, Kinds DEF Base, Clearing, Section, Moves
<1>4. WhereTheyAre /\ WhereTheyAre'
  BY Places, PTL
<1>5. BUFFER_SIZE \in Nat \ {0} /\ Last \in 0 .. BUFFER_SIZE - 1 /\ First \in 0 .. BUFFER_SIZE - 1
  BY <1>4, SizeAssumption DEF WhereTheyAre, Slots
<1>6. Oldest = removePointer + 1 /\ Oldest' = Oldest
  BY <1>1, <1>2, <1>3, <1>4 DEF WhereTheyAre
<1>7. First' = First /\ Last' = Last
  BY <1>1, <1>6 DEF First, Last
<1>8. Count \in 0 .. BUFFER_SIZE - 1
  BY <1>1, <1>5, Capacity DEF Moves, Fetching, Busy
<1>9. Count' = Count
  <2>1. full \in Nat /\ full' = full /\ Adds(c, "wrap") = 0 /\ Adds(c, "clear") = 0
    BY <1>1, Kinds, SizeAssumption DEF Base, InRange, Adds, Posting, Fetching
  <2>2. Count' = Count + full - full + 0 - 0
    BY <1>1, <2>1, CountStep
  <2> QED
    BY <1>8, <2>1, <2>2
<1>10. Ahead(removePointer) = BUFFER_SIZE - 1
  BY <1>1, <1>5, <1>6 DEF Ahead, Distance, First, Slots
<1>11. ASSUME NEW s \in Slots
       PROVE  buffer'[s] \in Items <=> Ahead(s) < Count
  <2>1. buffer[s] \in Items <=> Ahead(s) < Count \/ s = removePointer
    BY <1>2, FilledSoFar
  <2>2. buffer'[s] = IF s = removePointer THEN MinusOne ELSE buffer[s]
    BY <1>1 DEF Base, InRange
  <2>3. ~(Ahead(removePointer) < Count)
    BY <1>5, <1>8, <1>10
  <2> QED
    BY <2>1, <2>2, <2>3, ItemAssumption
<1>12. Filled'
  <2>1. InUse(BUFFER_SIZE, Last', First', Count)
    BY <1>7 DEF Contents, Filled
  <2>2. \A s \in Slots : buffer'[s] \in Items <=> Distance(BUFFER_SIZE, s, First') < Count
    BY <1>7, <1>11 DEF Ahead
  <2> QED
    BY <1>3, <1>9, <2>1, <2>2, FilledNow
<1> QED
  BY <1>1, <1>5, <1>7, <1>8, <1>9, <1>10, <1>12

\* The producers' items after a step.
LEMMA CarryingStep ==
    ASSUME Base, Contents, NEW t \in Threads, NEW from, NEW to, Goto(t, from, to),
           \A p \in Producers : p # t => item'[p] = item[p],
           t \in Producers /\ to \in {"wait", "lock", "access"}
              => \/ item'[t] \in Items
                 \/ from \in {"wait", "lock", "access"} /\ item'[t] = item[t]
    PROVE  Carrying'
<1>1. Moves(t, from, to)
  BY Moving DEF Base
<1>2. ASSUME NEW p \in Producers, pc'[p] \in {"wait", "lock", "access"}
      PROVE  item'[p] \in Items
  BY <1>1, <1>2, Kinds DEF Contents, Carrying, Moves
<1> QED
  BY <1>2 DEF Carrying

\* Nothing a consumer has or will get changes.
Idle == /\ First' = First /\ Count' = Count
        /\ \A s \in Slots : Ahead(s) < Count => buffer'[s] = buffer[s]
        /\ \A c \in Consumers : item'[c] = item[c]

LEMMA Steps ==
    ASSUME Base, Base', Contents, [Next]_vars
    PROVE  Contents' /\ (Idle \/ (\E p \in Producers : Write(p)) \/ (\E c \in Consumers : Read(c)))
<1>0. full \in Nat
  BY SizeAssumption DEF Base, InRange
<1>1. ASSUME NEW p \in Producers, Produce(p) PROVE Contents' /\ Idle
  <2>1. /\ p \in Threads /\ item'[p] \in Items
        /\ \A u \in Threads : u # p => item'[u] = item[u]
    BY <1>1, Kinds DEF Produce, Base, InRange
  <2>2. full' + Adds(p, "wait") = full + Adds(p, "sleep")
    BY <1>0, <1>1, Kinds DEF Produce, Adds, Posting, Fetching
  <2>3. Filled' /\ First' = First /\ Count' = Count /\ UNCHANGED buffer
    BY <1>1, <2>1, <2>2, QuietStep DEF Produce
  <2>4. Carrying'
    BY <1>1, <2>1, CarryingStep, Kinds DEF Produce
  <2> QED
    BY <2>1, <2>3, <2>4, Kinds DEF Contents, Idle
<1>2. ASSUME NEW t \in Threads, NEW from, NEW to, Goto(t, from, to),
             UNCHANGED <<buffer, insertPointer, removePointer, item>>,
             from # "clear", to # "clear", full' + Adds(t, to) = full + Adds(t, from),
             to \in {"wait", "lock", "access"} /\ t \in Producers
                => from \in {"wait", "lock", "access"}
      PROVE  Contents' /\ Idle
  <2>1. Filled' /\ First' = First /\ Count' = Count
    BY <1>2, QuietStep
  <2>2. Carrying'
    BY <1>2, CarryingStep
  <2> QED
    BY <1>2, <2>1, <2>2 DEF Contents, Idle
<1>3. ASSUME NEW p \in Producers, WaitEmpty(p) PROVE Contents' /\ Idle
  BY <1>0, <1>2, <1>3, Kinds DEF WaitEmpty, Adds, Posting, Fetching
<1>4. ASSUME NEW t \in Threads, Acquire(t) PROVE Contents' /\ Idle
  BY <1>0, <1>2, <1>4 DEF Acquire, Adds, Posting, Fetching
<1>5. ASSUME NEW t \in Threads, Release(t) PROVE Contents' /\ Idle
  BY <1>0, <1>2, <1>5 DEF Release, Adds, Posting, Fetching
<1>6. ASSUME NEW p \in Producers, PostFull(p) PROVE Contents' /\ Idle
  BY <1>0, <1>2, <1>6, Kinds DEF PostFull, Adds, Posting, Fetching
<1>7. ASSUME NEW c \in Consumers, Consume(c) PROVE Contents' /\ Idle
  BY <1>0, <1>2, <1>7, Kinds DEF Consume, Adds, Posting, Fetching
<1>8. ASSUME NEW c \in Consumers, WaitFull(c) PROVE Contents' /\ Idle
  BY <1>0, <1>2, <1>8, Kinds DEF WaitFull, Adds, Posting, Fetching
<1>9. ASSUME NEW c \in Consumers, PostEmpty(c) PROVE Contents' /\ Idle
  BY <1>0, <1>2, <1>9, Kinds DEF PostEmpty, Adds, Posting, Fetching
<1>10. ASSUME NEW p \in Producers, WrapInsert(p) PROVE Contents' /\ Idle
  <2>1. /\ p \in Threads /\ Goto(p, "wrap", "unlock") /\ Moves(p, "wrap", "unlock")
        /\ insertPointer' = insertPointer % BUFFER_SIZE
        /\ UNCHANGED <<buffer, removePointer, full, item>>
    BY <1>10, Moving, Kinds DEF WrapInsert, Base
  <2>2. Count' = Count
    <3>1. Adds(p, "wrap") = 1 /\ Adds(p, "unlock") = 1
      BY Kinds DEF Adds, Posting
    <3>2. Count' = Count + full - full + 1 - 1
      BY <2>1, <3>1, CountStep
    <3> QED
      BY <1>0, <3>2, Capacity
  <2>3. Clearing' <=> Clearing
    BY <2>1, Kinds DEF Clearing, Moves
  <2>4. First' = First
    <3>1. WhereTheyAre /\ WhereTheyAre'
      BY Places, PTL
    <3> QED
      BY <2>1, <2>3, <3>1 DEF WhereTheyAre, First
  <2>5. Last' = Last
    <3>1. insertPointer \in 0 .. BUFFER_SIZE /\ BUFFER_SIZE \in Nat \ {0}
      BY SizeAssumption DEF Base, InRange
    <3>2. insertPointer' = Last /\ Last \in 0 .. BUFFER_SIZE - 1
      BY <2>1, <3>1, WrappedPointer DEF Last, Slots
    <3>3. Last' = IF insertPointer' = BUFFER_SIZE THEN 0 ELSE insertPointer'
      BY DEF Last
    <3> QED
      BY <3>1, <3>2, <3>3
  <2>6. Filled'
    BY <2>1, <2>2, <2>3, <2>4, <2>5, SamePlaces DEF Contents
  <2>7. Carrying'
    BY <2>1, CarryingStep
  <2> QED
    BY <2>1, <2>2, <2>4, <2>6, <2>7 DEF Contents, Idle
<1>11. ASSUME NEW c \in Consumers, WrapRemove(c) PROVE Contents' /\ Idle
  <2>1. /\ c \in Threads /\ Goto(c, "wrap", "unlock") /\ Moves(c, "wrap", "unlock")
        /\ removePointer' = removePointer % BUFFER_SIZE
        /\ UNCHANGED <<buffer, insertPointer, full, item>>
    BY <1>11, Moving, Kinds DEF WrapRemove, Base
  <2>2. Count' = Count
    <3>1. Adds(c, "wrap") = 0 /\ Adds(c, "unlock") = 0
      BY Kinds DEF Adds, Fetching
    <3>2. Count' = Count + full - full + 0 - 0
      BY <2>1, <3>1, CountStep
    <3> QED
      BY <1>0, <3>2, Capacity
  <2>3. ~Clearing /\ ~Clearing'
    BY <2>1, Only, Kinds DEF Base, Clearing, Section, Moves
  <2>4. First' = First /\ Last' = Last
    <3>1. WhereTheyAre /\ WhereTheyAre'
      BY Places, PTL
    <3>2. Oldest = removePointer /\ Oldest' = removePointer'
      BY <2>3, <3>1 DEF WhereTheyAre
    <3>3. removePointer \in 0 .. BUFFER_SIZE /\ BUFFER_SIZE \in Nat \ {0}
      BY SizeAssumption DEF Base, InRange
    <3>4. removePointer' = First /\ First \in 0 .. BUFFER_SIZE - 1
      BY <2>1, <3>2, <3>3, WrappedPointer DEF First, Slots
    <3>5. First' = IF Oldest' = BUFFER_SIZE THEN 0 ELSE Oldest'
      BY DEF First
    <3>6. First' = First
      BY <3>2, <3>3, <3>4, <3>5
    <3> QED
      BY <2>1, <3>6 DEF Last
  <2>5. Filled'
    BY <2>1, <2>2, <2>3, <2>4, SamePlaces DEF Contents
  <2>6. Carrying'
    BY <2>1, CarryingStep, Kinds
  <2> QED
    BY <2>1, <2>2, <2>4, <2>5, <2>6 DEF Contents, Idle
<1>12. ASSUME NEW p \in Producers, Write(p) PROVE Contents'
  <2>1. Filled'
    BY <1>12, WriteStep
  <2>2. Carrying'
    BY <1>12, CarryingStep, Kinds DEF Write
  <2> QED
    BY <2>1, <2>2 DEF Contents
<1>13. ASSUME NEW c \in Consumers, Read(c) PROVE Contents'
  <2>1. Filled'
    BY <1>13, ReadStep
  <2>2. \A p \in Producers : item'[p] = item[p]
    BY <1>13, Kinds DEF Read, Base, InRange
  <2>3. Carrying'
    BY <1>13, <2>2, CarryingStep, Kinds DEF Read
  <2> QED
    BY <2>1, <2>3 DEF Contents
<1>14. ASSUME NEW c \in Consumers, Clear(c) PROVE Contents' /\ Idle
  <2>1. /\ Filled' /\ Count' = Count /\ First' = First /\ UNCHANGED item
        /\ buffer' = [buffer EXCEPT ![removePointer] = MinusOne]
        /\ ~(Ahead(removePointer) < Count)
    BY <1>14, ClearStep DEF Clear
  <2>2. \A s \in Slots : Ahead(s) < Count => buffer'[s] = buffer[s]
    BY <2>1 DEF Base, InRange
  <2>3. Carrying'
    BY <1>14, CarryingStep, Kinds DEF Clear
  <2> QED
    BY <2>1, <2>2, <2>3 DEF Contents, Idle
<1>15. CASE UNCHANGED vars
  <2>1. \A T, L : At(T, L)' = At(T, L)
    BY <1>15 DEF vars, At
  <2>2. Count' = Count /\ First' = First /\ Last' = Last /\ (Clearing' <=> Clearing)
    BY <1>15, <2>1 DEF vars, Count, First, Last, Oldest, Clearing
  <2>3. Filled'
    BY <1>15, <2>2, SamePlaces DEF vars, Contents
  <2>4. Carrying'
    BY <1>15 DEF vars, Contents, Carrying
  <2> QED
    BY <1>15, <2>2, <2>3, <2>4 DEF vars, Contents, Idle
<1> QED
  BY <1>1, <1>3, <1>4, <1>5, <1>6, <1>7, <1>8, <1>9, <1>10, <1>11, <1>12, <1>13, <1>14,
     <1>15, Kinds DEF Next, Producer, Consumer

LEMMA Inductive == Base /\ Contents /\ [Next]_vars => (Base /\ Contents)'
  BY BaseNext, Steps

\* Whoever is about to write finds a slot without an item, and whoever is about
\* to read finds an item, although neither looks; and of every slot, at every moment,
\* the pointers and the semaphores say whether it holds an item (SlotsAsPromised).
THEOREM SlotsRight == Spec => []SlotsAsPromised
<1>1. Base /\ Contents => SlotsAsPromised
  <2> SUFFICES ASSUME Base, Contents PROVE SlotsAsPromised
    OBVIOUS
  <2>1. WhereTheyAre
    BY Places
  <2>2. BUFFER_SIZE \in Nat \ {0} /\ Last \in 0 .. BUFFER_SIZE - 1 /\ First \in 0 .. BUFFER_SIZE - 1
    BY <2>1, SizeAssumption DEF WhereTheyAre, Slots
  <2>3. InUse(BUFFER_SIZE, Last, First, Count)
    BY DEF Contents, Filled
  <2>4. ASSUME NEW p \in Producers, pc[p] = "access" PROVE buffer[insertPointer] \notin Items
    <3>1. insertPointer \in Slots /\ ~Clearing /\ Count \in 0 .. BUFFER_SIZE - 1
      BY <2>2, <2>4, Pointing, Only, Kinds, Capacity DEF Base, Clearing, Section, Fetching
    <3>2. Last = insertPointer
      BY <2>2, <3>1 DEF Last, Slots
    <3>3. Ahead(Last) = Count
      BY <2>2, <2>3, <3>1, UseOneMore DEF Ahead
    <3> QED
      BY <2>2, <3>1, <3>2, <3>3, FilledSoFar
  <2>5. ASSUME NEW c \in Consumers, pc[c] = "access" PROVE buffer[removePointer] \in Items
    <3>1. removePointer \in Slots /\ ~Clearing /\ Count \in 1 .. BUFFER_SIZE
      BY <2>2, <2>5, Pointing, Only, Kinds, Capacity DEF Base, Clearing, Section, Fetching
    <3>2. First = removePointer
      BY <2>1, <2>2, <3>1 DEF First, Slots, WhereTheyAre
    <3>3. Ahead(First) = 0
      BY <2>2 DEF Ahead, Distance
    <3> QED
      BY <2>2, <3>1, <3>2, <3>3, FilledSoFar
  <2>6. ASSUME NEW s \in Slots
        PROVE  Ahead(s) < Count
                  <=> \E k \in 0 .. BUFFER_SIZE - 1 :
                         k < Count /\ s = (Oldest + k) % BUFFER_SIZE
    <3>1. ASSUME NEW k \in 0 .. BUFFER_SIZE - 1
          PROVE  (Oldest + k) % BUFFER_SIZE = Place(BUFFER_SIZE, First, k)
      <4>1. Oldest \in 0 .. BUFFER_SIZE /\ First = IF Oldest = BUFFER_SIZE THEN 0 ELSE Oldest
        BY <2>1 DEF WhereTheyAre, First
      <4> QED
        BY <2>2, <4>1, ModuloPlace
    <3>2. ASSUME NEW k \in 0 .. BUFFER_SIZE - 1
          PROVE  Ahead(Place(BUFFER_SIZE, First, k)) = k
      BY <2>2, PlaceDistance DEF Ahead
    <3>3. Ahead(s) \in 0 .. BUFFER_SIZE - 1
      BY <2>2 DEF Ahead, Distance, Slots
    <3>4. s = Place(BUFFER_SIZE, First, Ahead(s))
      BY <2>2, <3>3, PlaceDistance DEF Ahead, Slots
    <3> QED
      BY <3>1, <3>2, <3>3, <3>4
  <2>7. Clearing <=> At(Consumers, {"clear"}) # {}
    BY DEF Clearing, At
  <2>8. ASSUME NEW s \in Slots
        PROVE  buffer[s] \in Items <=>
                  \/ \E k \in 0 .. BUFFER_SIZE - 1 :
                         k < Count /\ s = (Oldest + k) % BUFFER_SIZE
                  \/ s = removePointer /\ At(Consumers, {"clear"}) # {}
    BY <2>6, <2>7, <2>8, FilledSoFar
  <2> QED
    BY <2>4, <2>5, <2>8 DEF SlotsAsPromised, At
<1> QED
  BY <1>1, BaseInit, ContentsInit, Inductive, PTL DEF Spec

\* The pointers are as far apart as the semaphores say, at every moment.
THEOREM PointersRight == Spec => []PointersMatchCount
<1>1. Base /\ Contents => PointersMatchCount
  <2> SUFFICES ASSUME Base, Contents PROVE PointersMatchCount
    OBVIOUS
  <2>1. WhereTheyAre
    BY Places
  <2>2. BUFFER_SIZE \in Nat \ {0} /\ Last \in 0 .. BUFFER_SIZE - 1 /\ First \in 0 .. BUFFER_SIZE - 1
    BY <2>1, SizeAssumption DEF WhereTheyAre, Slots
  <2>3. InUse(BUFFER_SIZE, Last, First, Count)
    BY DEF Contents, Filled
  <2>4. Count \in 0 .. BUFFER_SIZE
    BY Capacity
  <2>5. insertPointer % BUFFER_SIZE = Last
    BY <2>2, WrappedPointer DEF Last, Base, InRange
  <2>6. CASE Count = BUFFER_SIZE
    <3>1. Last = First
      BY <2>2, <2>3, <2>6 DEF InUse, Distance
    <3>2. (Oldest + BUFFER_SIZE) % BUFFER_SIZE = First
      BY <2>1, <2>2, ModuloRound DEF WhereTheyAre, First
    <3> QED
      BY <2>4, <2>5, <2>6, <3>1, <3>2 DEF PointersMatchCount
  <2>7. CASE Count # BUFFER_SIZE
    <3>1. Count \in 0 .. BUFFER_SIZE - 1
      BY <2>2, <2>4, <2>7
    <3>2. Last = Place(BUFFER_SIZE, First, Count)
      BY <2>2, <2>3, <2>7, <3>1, PlaceDistance DEF InUse
    <3>3. (Oldest + Count) % BUFFER_SIZE = Place(BUFFER_SIZE, First, Count)
      <4>1. Oldest \in 0 .. BUFFER_SIZE /\ First = IF Oldest = BUFFER_SIZE THEN 0 ELSE Oldest
        BY <2>1 DEF WhereTheyAre, First
      <4>2. PICK d \in 0 .. BUFFER_SIZE - 1 : d = Count
        BY <3>1
      <4>3. (Oldest + d) % BUFFER_SIZE = Place(BUFFER_SIZE, First, d)
        BY <2>2, <4>1, ModuloPlace
      <4> QED
        BY <4>2, <4>3
    <3> QED
      BY <2>4, <2>5, <3>2, <3>3 DEF PointersMatchCount
  <2> QED
    BY <2>6, <2>7
<1> QED
  BY <1>1, BaseInit, ContentsInit, Inductive, PTL DEF Spec

-----------------------------------------------------------------------------
(* The bounded buffer *)

QueueIs ==
    /\ Queue = [k \in 1 .. Count |-> buffer[Place(BUFFER_SIZE, First, k - 1)]]
    /\ Queue \in [1 .. Count -> Items] /\ Queue \in Seq(Items)
    /\ Count \in 0 .. BUFFER_SIZE /\ Len(Queue) = Count
    /\ \A k \in 1 .. Count : /\ Place(BUFFER_SIZE, First, k - 1) \in Slots
                             /\ Ahead(Place(BUFFER_SIZE, First, k - 1)) = k - 1

\* A function on 1 .. n is a sequence of length n.
LEMMA Sequence ==
    ASSUME NEW S, NEW n \in Nat, NEW f \in [1 .. n -> S]
    PROVE  f \in Seq(S) /\ Len(f) = n
<1>1. f \in Seq(S)
  BY SeqDef
<1>2. Len(f) \in Nat /\ 1 .. Len(f) = 1 .. n
  BY <1>1, LenProperties
<1> QED
  BY <1>1, <1>2

LEMMA QueueRight == Base /\ Contents => QueueIs
<1> SUFFICES ASSUME Base, Contents PROVE QueueIs
  OBVIOUS
<1>1. WhereTheyAre
  BY Places
<1>2. BUFFER_SIZE \in Nat \ {0} /\ First \in 0 .. BUFFER_SIZE - 1
  BY <1>1, SizeAssumption DEF WhereTheyAre, Slots
<1>3. Count \in 0 .. BUFFER_SIZE
  BY Capacity
<1>4. ASSUME NEW k \in 1 .. Count
      PROVE  /\ Place(BUFFER_SIZE, First, k - 1) \in Slots
             /\ Ahead(Place(BUFFER_SIZE, First, k - 1)) = k - 1
             /\ buffer[Place(BUFFER_SIZE, First, k - 1)] \in Items
             /\ (Oldest + k - 1) % BUFFER_SIZE = Place(BUFFER_SIZE, First, k - 1)
  <2>1. PICK d \in 0 .. BUFFER_SIZE - 1 : d = k - 1
    BY <1>2, <1>3
  <2>2. Place(BUFFER_SIZE, First, d) \in Slots /\ Ahead(Place(BUFFER_SIZE, First, d)) = d
    BY <1>2, PlaceDistance DEF Slots, Ahead
  <2>3. buffer[Place(BUFFER_SIZE, First, d)] \in Items
    <3>1. d < Count
      BY <1>3, <2>1
    <3> QED
      BY <2>2, <3>1, FilledSoFar
  <2>4. (Oldest + d) % BUFFER_SIZE = Place(BUFFER_SIZE, First, d)
    <3>1. Oldest \in 0 .. BUFFER_SIZE /\ First = IF Oldest = BUFFER_SIZE THEN 0 ELSE Oldest
      BY <1>1 DEF WhereTheyAre, First
    <3> QED
      BY <1>2, <3>1, ModuloPlace
  <2>5. Oldest + k - 1 = Oldest + d
    BY <1>1, <1>2, <1>3, <2>1 DEF WhereTheyAre
  <2> QED
    BY <2>1, <2>2, <2>3, <2>4, <2>5
<1>5. Queue = [k \in 1 .. Count |-> buffer[Place(BUFFER_SIZE, First, k - 1)]]
  BY <1>4 DEF Queue
<1>6. Queue \in [1 .. Count -> Items]
  BY <1>4, <1>5
<1>7. Queue \in Seq(Items) /\ Len(Queue) = Count
  BY <1>2, <1>3, <1>6, Sequence
<1> QED
  BY <1>3, <1>4, <1>5, <1>6, <1>7 DEF QueueIs

LEMMA IdleRefines ==
    ASSUME QueueIs, QueueIs', Idle
    PROVE  UNCHANGED Fifo!bufferVars
<1>1. Queue' = Queue
  <2>1. \A k \in 1 .. Count : buffer'[Place(BUFFER_SIZE, First, k - 1)]
                                 = buffer[Place(BUFFER_SIZE, First, k - 1)]
    <3> TAKE k \in 1 .. Count
    <3>1. k - 1 < Count
      BY DEF QueueIs
    <3> QED
      BY <3>1 DEF QueueIs, Idle
  <2>2. Queue' = [k \in 1 .. Count |-> buffer'[Place(BUFFER_SIZE, First, k - 1)]]
    BY DEF QueueIs, Idle, Place
  <2>3. Queue = [k \in 1 .. Count |-> buffer[Place(BUFFER_SIZE, First, k - 1)]]
    BY DEF QueueIs
  <2> QED
    BY <2>1, <2>2, <2>3
<1>2. [c \in Consumers |-> item[c]]' = [c \in Consumers |-> item[c]]
  BY DEF Idle
<1> QED
  BY <1>1, <1>2 DEF Fifo!bufferVars

LEMMA WriteRefines ==
    ASSUME Base, Base', Contents, QueueIs, QueueIs', NEW p \in Producers, Write(p)
    PROVE  Fifo!Put(item[p])
<1>1. /\ First' = First /\ Count' = Count + 1 /\ Count < BUFFER_SIZE
      /\ Ahead(Last) = Count /\ buffer' = [buffer EXCEPT ![Last] = item[p]]
  BY WriteStep
<1>2. item[p] \in Items /\ UNCHANGED item
  BY DEF Write, Goto, Contents, Carrying
<1>3. /\ BUFFER_SIZE \in Nat \ {0} /\ First \in 0 .. BUFFER_SIZE - 1
      /\ Last \in 0 .. BUFFER_SIZE - 1 /\ Count \in 0 .. BUFFER_SIZE - 1
  BY <1>1, Places, SizeAssumption DEF WhereTheyAre, Slots, QueueIs
<1>4. Last = Place(BUFFER_SIZE, First, Count)
  BY <1>1, <1>3, PlaceDistance DEF Ahead
<1>5. Queue' = [k \in 1 .. Count + 1 |-> buffer'[Place(BUFFER_SIZE, First, k - 1)]]
  BY <1>1 DEF QueueIs, Place
<1>6. ASSUME NEW k \in 1 .. Count + 1
      PROVE  Queue'[k] = IF k <= Count THEN Queue[k] ELSE item[p]
  <2>1. CASE k <= Count
    <3>1. k \in 1 .. Count
      BY <1>3, <2>1
    <3>2. Place(BUFFER_SIZE, First, k - 1) \in Slots /\ Place(BUFFER_SIZE, First, k - 1) # Last
      <4>1. Ahead(Place(BUFFER_SIZE, First, k - 1)) = k - 1 /\ k - 1 # Count
        BY <1>3, <3>1 DEF QueueIs
      <4>2. Place(BUFFER_SIZE, First, k - 1) \in Slots
        BY <3>1 DEF QueueIs
      <4> QED
        BY <1>1, <4>1, <4>2
    <3>3. Queue[k] = buffer[Place(BUFFER_SIZE, First, k - 1)]
      BY <3>1 DEF QueueIs
    <3> QED
      BY <1>1, <1>5, <2>1, <3>2, <3>3 DEF Base, InRange
  <2>2. CASE ~(k <= Count)
    <3>1. k - 1 = Count
      BY <1>3, <2>2
    <3> QED
      BY <1>1, <1>3, <1>4, <1>5, <2>2, <3>1 DEF Base, InRange, Slots
  <2> QED
    BY <2>1, <2>2
<1>7. Queue' = Append(Queue, item[p])
  <2>1. Queue \in Seq(Items) /\ Len(Queue) = Count
    BY DEF QueueIs
  <2>2. Queue' \in Seq(Items) /\ Len(Queue') = Count + 1
    BY <1>1 DEF QueueIs
  <2>3. /\ Append(Queue, item[p]) \in Seq(Items)
        /\ Len(Append(Queue, item[p])) = Count + 1
        /\ \A k \in 1 .. Count + 1 :
              Append(Queue, item[p])[k] = IF k <= Count THEN Queue[k] ELSE item[p]
    BY <1>2, <2>1, AppendProperties
  <2>4. \A k \in 1 .. Len(Queue') : Queue'[k] = Append(Queue, item[p])[k]
    BY <1>6, <2>2, <2>3
  <2> QED
    BY <2>2, <2>3, <2>4, SeqEqual
<1>8. Len(Queue) < BUFFER_SIZE
  BY <1>1 DEF QueueIs
<1> QED
  BY <1>2, <1>7, <1>8 DEF Fifo!Put

LEMMA ReadRefines ==
    ASSUME Base, Base', Contents, QueueIs, QueueIs', NEW c \in Consumers, Read(c)
    PROVE  Fifo!Take(c)
<1>1. /\ Count > 0 /\ Count' = Count - 1 /\ UNCHANGED buffer
      /\ First' = IF First = BUFFER_SIZE - 1 THEN 0 ELSE First + 1
      /\ item' = [item EXCEPT ![c] = buffer[First]]
  BY ReadStep
<1>2. /\ BUFFER_SIZE \in Nat \ {0} /\ First \in 0 .. BUFFER_SIZE - 1
      /\ Last \in 0 .. BUFFER_SIZE - 1 /\ Count \in 1 .. BUFFER_SIZE
  BY <1>1, Places, SizeAssumption DEF WhereTheyAre, Slots, QueueIs
<1>3. InUse(BUFFER_SIZE, Last, First, Count)
  BY DEF Contents, Filled
<1>4. \A d \in 1 .. BUFFER_SIZE - 1 :
         Place(BUFFER_SIZE, First', d - 1) = Place(BUFFER_SIZE, First, d)
  BY <1>1, <1>2, <1>3, UseOneLess
<1>5. Queue \in Seq(Items) /\ Len(Queue) = Count /\ Queue # <<>>
  <2>1. Queue \in Seq(Items) /\ Len(Queue) = Count
    BY DEF QueueIs
  <2>2. Len(Queue) # 0
    BY <1>2, <2>1
  <2> HIDE DEF Queue
  <2>3. Queue # <<>>
    BY <2>1, <2>2, EmptySeq
  <2> QED
    BY <2>1, <2>3
<1>6. Queue' \in Seq(Items) /\ Len(Queue') = Count - 1
  BY <1>1 DEF QueueIs
<1>7. ASSUME NEW k \in 1 .. Count - 1
      PROVE  Queue'[k] = Queue[k + 1]
  <2>1. Queue'[k] = buffer'[Place(BUFFER_SIZE, First', k - 1)]
    <3>1. Queue' = [j \in 1 .. Count - 1 |-> buffer'[Place(BUFFER_SIZE, First', j - 1)]]
      BY <1>1 DEF QueueIs, Place
    <3> QED
      BY <3>1
  <2>2. k + 1 \in 1 .. Count /\ k \in 1 .. BUFFER_SIZE - 1 /\ (k + 1) - 1 = k
    BY <1>2
  <2>3. Queue[k + 1] = buffer[Place(BUFFER_SIZE, First, k)]
    <3>1. Queue[k + 1] = buffer[Place(BUFFER_SIZE, First, (k + 1) - 1)]
      BY <2>2 DEF QueueIs
    <3> QED
      BY <2>2, <3>1
  <2> QED
    BY <1>1, <1>4, <2>1, <2>2, <2>3
<1>8. Queue' = Tail(Queue)
  <2>1. /\ Tail(Queue) \in Seq(Items) /\ Len(Tail(Queue)) = Count - 1
        /\ \A k \in 1 .. Count - 1 : Tail(Queue)[k] = Queue[k + 1]
    BY <1>5, HeadTailProperties
  <2>2. \A k \in 1 .. Len(Queue') : Queue'[k] = Tail(Queue)[k]
    BY <1>6, <1>7, <2>1
  <2> QED
    BY <1>6, <2>1, <2>2, SeqEqual
<1>9. Head(Queue) = buffer[First]
  <2>1. 1 \in 1 .. Count /\ Place(BUFFER_SIZE, First, 1 - 1) = First
    BY <1>2 DEF Place
  <2>2. Queue[1] = buffer[Place(BUFFER_SIZE, First, 1 - 1)]
    BY <2>1 DEF QueueIs
  <2>3. Head(Queue) = Queue[1]
    OBVIOUS
  <2> QED
    BY <2>1, <2>2, <2>3
<1>10. [u \in Consumers |-> item[u]]' = [[u \in Consumers |-> item[u]] EXCEPT ![c] = Head(Queue)]
  <2>1. \A u \in Consumers : item'[u] = IF u = c THEN Head(Queue) ELSE item[u]
    BY <1>1, <1>9, Kinds DEF Base, InRange
  <2> QED
    BY <2>1
<1> QED
  BY <1>5, <1>8, <1>10 DEF Fifo!Take

\* Items come out once each, in the order they were put in, and never more than
\* BUFFER_SIZE wait: the program implements the bounded buffer, however many
\* threads there are.
THEOREM Implementation == Spec => IsBoundedBuffer
<1>1. Init => Fifo!BufferInit
  <2> SUFFICES ASSUME Init PROVE Queue = <<>>
    BY DEF Fifo!BufferInit
  <2>1. QueueIs
    BY BaseInit, ContentsInit, QueueRight
  <2>2. Count = 0
    <3>1. At(Producers, Posting) = {} /\ At(Consumers, Fetching) = {}
      BY Kinds DEF Init, At, Posting, Fetching
    <3>2. Cardinality(At(Producers, Posting)) = 0 /\ Cardinality(At(Consumers, Fetching)) = 0
      BY <3>1, FS_EmptySet
    <3> QED
      BY <3>2 DEF Init, Count, Posting, Fetching
  <2> QED
    BY <2>1, <2>2, EmptySeq DEF QueueIs
<1>2. /\ Base /\ Contents /\ QueueIs /\ [Next]_vars /\ (Base /\ Contents /\ QueueIs)'
      => [Fifo!BufferNext]_Fifo!bufferVars
  <2> SUFFICES ASSUME Base, Contents, QueueIs, [Next]_vars, Base', QueueIs'
               PROVE  [Fifo!BufferNext]_Fifo!bufferVars
    OBVIOUS
  <2>1. CASE Idle
    BY <2>1, IdleRefines
  <2>2. ASSUME NEW p \in Producers, Write(p) PROVE Fifo!BufferNext
    <3>1. Fifo!Put(item[p])
      BY <2>2, WriteRefines
    <3>2. item[p] \in Items
      BY <2>2 DEF Write, Goto, Contents, Carrying
    <3> QED
      BY <3>1, <3>2 DEF Fifo!BufferNext
  <2>3. ASSUME NEW c \in Consumers, Read(c) PROVE Fifo!BufferNext
    BY <2>3, ReadRefines DEF Fifo!BufferNext
  <2> QED
    BY <2>1, <2>2, <2>3, Steps
<1>3. Spec => Fifo!BufferInit /\ [][Fifo!BufferNext]_Fifo!bufferVars
  BY <1>1, <1>2, BaseInit, ContentsInit, Inductive, QueueRight, PTL DEF Spec
<1> QED
  BY <1>3 DEF IsBoundedBuffer, Fifo!BufferSpec
=============================================================================
