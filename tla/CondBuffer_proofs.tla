------------------------- MODULE CondBuffer_proofs -------------------------
(***************************************************************************)
(* For any number of threads and any size of the ring: the flags match the *)
(* pointers, and no wakeup is lost.                                        *)
(***************************************************************************)
EXTENDS CondBuffer, FiniteSetTheorems, SequenceTheorems, TLAPS

-----------------------------------------------------------------------------
(* Arithmetic of positions in a ring of B places *)

LEMMA Modulo ==
    ASSUME NEW B \in Nat \ {0}, NEW x \in 0 .. B - 1
    PROVE  x % B = x /\ (x + B) % B = x /\ (x + B + B) % B = x
<1>1. x % B = x
  OBVIOUS
<1>2. (x + B) % B = x
  OBVIOUS
<1>3. (x + B + B) % B = x
  OBVIOUS
<1> QED
  BY <1>1, <1>2, <1>3

\* How far a is ahead of b.
Distance(B, a, b) == IF a >= b THEN a - b ELSE a + B - b

LEMMA ModuloDistance ==
    ASSUME NEW B \in Nat \ {0}, NEW a \in 0 .. B - 1, NEW b \in 0 .. B - 1
    PROVE  /\ (a + B - b) % B = Distance(B, a, b)
           /\ Distance(B, a, b) \in 0 .. B - 1
<1>1. CASE a >= b
  <2>1. a - b \in 0 .. B - 1 /\ a + B - b = (a - b) + B
    BY <1>1
  <2> QED
    BY <1>1, <2>1, Modulo DEF Distance
<1>2. CASE ~(a >= b)
  <2>1. a + B - b \in 0 .. B - 1
    BY <1>2
  <2> QED
    BY <1>2, <2>1, Modulo DEF Distance
<1> QED
  BY <1>1, <1>2

LEMMA ModuloNext ==
    ASSUME NEW B \in Nat \ {0}, NEW a \in 0 .. B - 1
    PROVE  /\ (a + 1) % B = IF a = B - 1 THEN 0 ELSE a + 1
           /\ (a + 1) % B \in 0 .. B - 1
<1>1. CASE a = B - 1
  <2>1. 0 \in 0 .. B - 1 /\ a + 1 = 0 + B
    BY <1>1
  <2>2. (0 + B) % B = 0
    BY <2>1, Modulo
  <2> QED
    BY <1>1, <2>1, <2>2
<1>2. CASE a # B - 1
  <2>1. a + 1 \in 0 .. B - 1
    BY <1>2
  <2> QED
    BY <1>2, <2>1, Modulo
<1> QED
  BY <1>1, <1>2

\* The place d behind b.
Place(B, b, d) == IF b + d < B THEN b + d ELSE b + d - B

LEMMA PlaceDistance ==
    ASSUME NEW B \in Nat \ {0}, NEW b \in 0 .. B - 1, NEW d \in 0 .. B - 1
    PROVE  /\ Place(B, b, d) \in 0 .. B - 1
           /\ Distance(B, Place(B, b, d), b) = d
           /\ \A a \in 0 .. B - 1 : Distance(B, a, b) = d => a = Place(B, b, d)
<1>1. CASE b + d < B
  BY <1>1 DEF Place, Distance
<1>2. CASE ~(b + d < B)
  BY <1>2 DEF Place, Distance
<1> QED
  BY <1>1, <1>2

LEMMA ModuloPlace ==
    ASSUME NEW B \in Nat \ {0}, NEW x \in 0 .. B, NEW d \in 0 .. B - 1
    PROVE  (x + d) % B = Place(B, IF x = B THEN 0 ELSE x, d)
<1>1. CASE x = B
  <2>1. x + d = d + B
    BY <1>1
  <2> QED
    BY <1>1, <2>1, Modulo DEF Place
<1>2. CASE x # B /\ x + d < B
  <2>1. x + d \in 0 .. B - 1
    BY <1>2
  <2> QED
    BY <1>2, <2>1, Modulo DEF Place
<1>3. CASE x # B /\ ~(x + d < B)
  <2>1. x + d - B \in 0 .. B - 1 /\ x + d = (x + d - B) + B
    BY <1>3
  <2>2. (x + d) % B = x + d - B
    BY <2>1, Modulo
  <2> QED
    BY <1>3, <2>2, Modulo DEF Place
<1> QED
  BY <1>1, <1>2, <1>3

-----------------------------------------------------------------------------
(* Positions in the ring *)

\* How far a is ahead of b in the ring.
Ahead(a, b) == IF a >= b THEN a - b ELSE a + BUFFER_SIZE - b

LEMMA Ring ==
    /\ \A a, b \in Slots : /\ (a + BUFFER_SIZE - b) % BUFFER_SIZE = Ahead(a, b)
                           /\ Ahead(a, b) \in Slots
    /\ \A a \in Slots : /\ Next1(a) = IF a = BUFFER_SIZE - 1 THEN 0 ELSE a + 1
                        /\ Next1(a) \in Slots
<1>1. BUFFER_SIZE \in Nat \ {0}
  BY SizeAssumption
<1>2. ASSUME NEW a \in Slots, NEW b \in Slots
      PROVE  /\ (a + BUFFER_SIZE - b) % BUFFER_SIZE = Ahead(a, b)
             /\ Ahead(a, b) \in Slots
  BY <1>1, ModuloDistance DEF Ahead, Distance, Slots
<1>3. ASSUME NEW a \in Slots
      PROVE  /\ Next1(a) = IF a = BUFFER_SIZE - 1 THEN 0 ELSE a + 1
             /\ Next1(a) \in Slots
  BY <1>1, ModuloNext DEF Next1, Slots
<1> QED
  BY <1>2, <1>3

-----------------------------------------------------------------------------
(* Counting threads *)

Labels == {"sleep", "woken", "check", "asleep", "advance", "signal", "unlock"}

LEMMA Counts ==
    ASSUME NEW T \in SUBSET Threads, NEW L
    PROVE  IsFiniteSet(At(T, L)) /\ Cardinality(At(T, L)) \in Nat
<1>1. At(T, L) \subseteq Producers \cup Consumers
  BY DEF At, Threads
<1>2. IsFiniteSet(At(T, L))
  BY <1>1, FS_Subset, ThreadAssumption
<1> QED
  BY <1>2, FS_CardinalityType

LEMMA CountSame ==
    ASSUME NEW T \in SUBSET Threads, NEW L,
           \A u \in T : pc'[u] \in L <=> pc[u] \in L
    PROVE  At(T, L)' = At(T, L)
  BY DEF At

LEMMA CountEnter ==
    ASSUME NEW T \in SUBSET Threads, NEW L, NEW t \in T,
           pc[t] \notin L, pc'[t] \in L,
           \A u \in T : u # t => (pc'[u] \in L <=> pc[u] \in L)
    PROVE  Cardinality(At(T, L)') = Cardinality(At(T, L)) + 1
<1>1. At(T, L)' = At(T, L) \cup {t} /\ t \notin At(T, L)
  BY DEF At
<1> QED
  BY <1>1, Counts, FS_AddElement

LEMMA CountLeave ==
    ASSUME NEW T \in SUBSET Threads, NEW L, NEW t \in T,
           pc[t] \in L, pc'[t] \notin L,
           \A u \in T : u # t => (pc'[u] \in L <=> pc[u] \in L)
    PROVE  Cardinality(At(T, L)') = Cardinality(At(T, L)) - 1
<1>1. At(T, L)' = At(T, L) \ {t} /\ t \in At(T, L)
  BY DEF At
<1> QED
  BY <1>1, Counts, FS_RemoveElement

-----------------------------------------------------------------------------
(* The steps, by what they do to the program counters *)

Section == {"check", "advance", "signal", "unlock"}

\* One thread moves on.
Moves(t, from, to) ==
    /\ pc[t] = from /\ pc'[t] = to
    /\ \A u \in Threads : u # t => pc'[u] = pc[u]

\* A thread at "signal" moves on and perhaps wakes another.
Wakes(t, waiting, rest) ==
    /\ pc[t] = "signal" /\ pc'[t] = "unlock"
    /\ \/ /\ waiting = {} /\ rest = {}
          /\ \A u \in Threads : u # t => pc'[u] = pc[u]
       \/ \E w \in waiting :
            /\ rest = waiting \ {w} /\ w # t
            /\ pc[w] = "asleep" /\ pc'[w] = "woken"
            /\ \A u \in Threads : u # t /\ u # w => pc'[u] = pc[u]

LEMMA Moving ==
    ASSUME TypeOK, NEW t \in Threads, NEW from, NEW to \in Labels, Goto(t, from, to)
    PROVE  Moves(t, from, to) /\ pc' \in [Threads -> Labels]
  BY DEF TypeOK, Goto, Moves, Labels

LEMMA Waking ==
    ASSUME TypeOK, NEW t \in Threads, pc[t] = "signal", NEW waiting, NEW rest,
           waiting = At(Producers, {"asleep"}) \/ waiting = At(Consumers, {"asleep"}),
           Signals(t, waiting, rest)
    PROVE  Wakes(t, waiting, rest) /\ pc' \in [Threads -> Labels]
<1>1. CASE waiting = {} /\ rest = {} /\ pc' = [pc EXCEPT ![t] = "unlock"]
  BY <1>1 DEF TypeOK, Wakes, Labels
<1>2. ASSUME NEW w \in waiting, rest = waiting \ {w},
             pc' = [pc EXCEPT ![t] = "unlock", ![w] = "woken"]
      PROVE  Wakes(t, waiting, rest) /\ pc' \in [Threads -> Labels]
  <2>1. w \in Threads /\ pc[w] = "asleep" /\ w # t
    BY <1>2 DEF At, Threads
  <2>2. /\ pc'[t] = "unlock" /\ pc'[w] = "woken"
        /\ \A u \in Threads : u # t /\ u # w => pc'[u] = pc[u]
    BY <1>2, <2>1 DEF TypeOK
  <2>3. pc' \in [Threads -> Labels]
    BY <1>2, <2>1 DEF TypeOK, Labels
  <2> QED
    BY <1>2, <2>1, <2>2, <2>3 DEF Wakes
<1> QED
  BY <1>1, <1>2 DEF Signals

-----------------------------------------------------------------------------
(* Types and mutual exclusion *)

LEMMA TypeInit == Init => TypeOK
<1> SUFFICES ASSUME Init PROVE TypeOK
  OBVIOUS
<1>1. \A t \in Threads : pc[t] = "sleep" /\ mutex # t
  BY FreeAssumption DEF Init
<1>2. At(Producers, {"asleep"}) = {} /\ At(Consumers, {"asleep"}) = {}
  BY <1>1 DEF At, Threads
<1>3. buffer \in [Slots -> {0, 1}] /\ in \in Slots /\ out \in Slots
  BY SizeAssumption DEF Init, Slots
<1> QED
  BY <1>1, <1>2, <1>3 DEF Init, TypeOK

\* What the mutex and the sleepers need of a step of one thread.
LEMMA TypeStep ==
    ASSUME TypeOK, NEW t \in Threads, NEW from, NEW to \in Labels, Goto(t, from, to),
           buffer' \in [Slots -> {0, 1}], in' \in Slots, out' \in Slots,
           from \in Section => (to \in Section <=> mutex' = t),
           from \notin Section => mutex' = IF to \in Section THEN t ELSE mutex,
           from \in Section /\ to \notin Section => mutex' = Free,
           to \in Section /\ from \notin Section => mutex = Free,
           empty' = IF t \in Producers /\ to = "asleep" THEN empty \cup {t}
                    ELSE IF t \in Producers /\ from = "asleep" THEN empty \ {t} ELSE empty,
           full' = IF t \in Consumers /\ to = "asleep" THEN full \cup {t}
                   ELSE IF t \in Consumers /\ from = "asleep" THEN full \ {t} ELSE full
    PROVE  TypeOK'
<1>1. Moves(t, from, to) /\ pc' \in [Threads -> Labels]
  BY Moving
<1>2. /\ \A u \in Threads : pc'[u] \in Section <=> mutex' = u
      /\ mutex' \in Threads \cup {Free}
  BY <1>1, FreeAssumption DEF TypeOK, Moves, Section
<1>3. empty' = At(Producers, {"asleep"})' /\ full' = At(Consumers, {"asleep"})'
  BY <1>1 DEF TypeOK, Moves, At, Threads
<1> QED
  BY <1>1, <1>2, <1>3 DEF TypeOK, Labels, Section

LEMMA TypeWake ==
    ASSUME TypeOK, NEW t \in Threads, pc[t] = "signal", UNCHANGED <<buffer, in, out, mutex>>,
           NEW waiting, NEW rest, Signals(t, waiting, rest),
           \/ waiting = empty /\ empty' = rest /\ UNCHANGED full
           \/ waiting = full /\ full' = rest /\ UNCHANGED empty
    PROVE  TypeOK'
<1>1. Wakes(t, waiting, rest) /\ pc' \in [Threads -> Labels]
  BY Waking DEF TypeOK
<1>2. \A u \in Threads : pc'[u] \in Section <=> mutex' = u
  BY <1>1 DEF TypeOK, Wakes, Section
<1>3. CASE waiting = {} /\ rest = {} /\ \A u \in Threads : u # t => pc'[u] = pc[u]
  <2>1. /\ At(Producers, {"asleep"})' = At(Producers, {"asleep"})
        /\ At(Consumers, {"asleep"})' = At(Consumers, {"asleep"})
    BY <1>1, <1>3 DEF At, Wakes, Threads
  <2> QED
    BY <1>1, <1>2, <1>3, <2>1 DEF TypeOK, Labels, Section
<1>4. ASSUME NEW w \in waiting, rest = waiting \ {w}, w # t,
             pc[w] = "asleep", pc'[w] = "woken",
             \A u \in Threads : u # t /\ u # w => pc'[u] = pc[u]
      PROVE  TypeOK'
  <2>1. \A u \in Threads : pc'[u] = "asleep" <=> pc[u] = "asleep" /\ u # w
    BY <1>1, <1>4 DEF Wakes
  <2>2. /\ At(Producers, {"asleep"})' = At(Producers, {"asleep"}) \ {w}
        /\ At(Consumers, {"asleep"})' = At(Consumers, {"asleep"}) \ {w}
    BY <2>1 DEF At, Threads
  <2>3. /\ empty' = At(Producers, {"asleep"})'
        /\ full' = At(Consumers, {"asleep"})'
    BY <2>2, <1>4, ThreadAssumption DEF TypeOK, At
  <2> QED
    BY <1>1, <1>2, <2>3 DEF TypeOK, Labels, Section
<1> QED
  BY <1>1, <1>3, <1>4 DEF Wakes

LEMMA TypeNext == TypeOK /\ [Next]_vars => TypeOK'
<1> SUFFICES ASSUME TypeOK, [Next]_vars PROVE TypeOK'
  OBVIOUS
<1>1. ASSUME NEW t \in Threads, Lock(t) PROVE TypeOK'
  <2>1. Goto(t, "sleep", "check") \/ Goto(t, "woken", "check")
    BY <1>1 DEF Lock, Goto
  <2> QED
    BY <1>1, <2>1, TypeStep DEF Lock, data, TypeOK, Labels, Section
<1>2. ASSUME NEW p \in Producers, WaitEmpty(p) PROVE TypeOK'
  <2>1. p \in Threads /\ p \notin Consumers
    BY ThreadAssumption DEF Threads
  <2> QED
    BY <1>2, <2>1, TypeStep, FreeAssumption DEF WaitEmpty, data, TypeOK, Labels, Section, Threads
<1>3. ASSUME NEW c \in Consumers, WaitFull(c) PROVE TypeOK'
  <2>1. c \in Threads /\ c \notin Producers
    BY ThreadAssumption DEF Threads
  <2> QED
    BY <1>3, <2>1, TypeStep, FreeAssumption DEF WaitFull, data, TypeOK, Labels, Section, Threads
<1>4. ASSUME NEW t \in Threads, Unlock(t) PROVE TypeOK'
  BY <1>4, TypeStep, FreeAssumption DEF Unlock, data, TypeOK, Labels, Section
<1>5. ASSUME NEW t \in Threads, SpuriousWakeup(t) PROVE TypeOK'
  <2>1. (t \notin Producers => empty \ {t} = empty) /\ (t \notin Consumers => full \ {t} = full)
    BY DEF TypeOK, At
  <2> QED
    BY <1>5, <2>1, TypeStep DEF SpuriousWakeup, data, TypeOK, Labels, Section
<1>6. ASSUME NEW p \in Producers, Fill(p) \/ AdvanceIn(p) PROVE TypeOK'
  <2>1. CASE Fill(p)
    <3>1. buffer' \in [Slots -> {0, 1}]
      BY <2>1 DEF Fill, TypeOK
    <3>2. p \in Threads /\ mutex = p /\ UNCHANGED <<mutex, empty, full>>
      BY <2>1 DEF Fill, Goto, TypeOK, Threads
    <3> QED
      BY <2>1, <3>1, <3>2, TypeStep DEF Fill, TypeOK, Labels, Section
  <2>2. CASE AdvanceIn(p)
    <3>1. in' \in Slots
      BY <2>2, Ring DEF AdvanceIn, TypeOK
    <3>2. p \in Threads /\ mutex = p /\ UNCHANGED <<mutex, empty, full>>
      BY <2>2 DEF AdvanceIn, Goto, TypeOK, Threads
    <3> QED
      BY <2>2, <3>1, <3>2, TypeStep DEF AdvanceIn, TypeOK, Labels, Section
  <2> QED
    BY <1>6, <2>1, <2>2
<1>7. ASSUME NEW c \in Consumers, Drain(c) \/ AdvanceOut(c) PROVE TypeOK'
  <2>1. CASE Drain(c)
    <3>1. buffer' \in [Slots -> {0, 1}]
      BY <2>1 DEF Drain, TypeOK
    <3>2. c \in Threads /\ mutex = c /\ UNCHANGED <<mutex, empty, full>>
      BY <2>1 DEF Drain, Goto, TypeOK, Threads
    <3> QED
      BY <2>1, <3>1, <3>2, TypeStep DEF Drain, TypeOK, Labels, Section
  <2>2. CASE AdvanceOut(c)
    <3>1. out' \in Slots
      BY <2>2, Ring DEF AdvanceOut, TypeOK
    <3>2. c \in Threads /\ mutex = c /\ UNCHANGED <<mutex, empty, full>>
      BY <2>2 DEF AdvanceOut, Goto, TypeOK, Threads
    <3> QED
      BY <2>2, <3>1, <3>2, TypeStep DEF AdvanceOut, TypeOK, Labels, Section
  <2> QED
    BY <1>7, <2>1, <2>2
<1>8. ASSUME NEW p \in Producers, SignalFull(p) PROVE TypeOK'
  BY <1>8, p \in Threads, TypeWake DEF SignalFull, data, Threads
<1>9. ASSUME NEW c \in Consumers, SignalEmpty(c) PROVE TypeOK'
  BY <1>9, c \in Threads, TypeWake DEF SignalEmpty, data, Threads
<1>10. CASE UNCHANGED vars
  BY <1>10 DEF vars, data, TypeOK, At
<1> QED
  BY <1>1, <1>2, <1>3, <1>4, <1>5, <1>6, <1>7, <1>8, <1>9, <1>10
     DEF Next, Producer, Consumer, Threads

\* The mutex is held by the one thread inside, and on a condition variable are
\* those who called wait on it.
THEOREM TypeCorrect == Spec => []TypeOK
  BY TypeInit, TypeNext, PTL DEF Spec

-----------------------------------------------------------------------------
(* The flags *)

Filling == \E p \in Producers : pc[p] = "advance"
Draining == \E c \in Consumers : pc[c] = "advance"

\* Whoever is between the flag and the pointer still has what it looked for.
Advancing == (Filling => ~IsFull) /\ (Draining => ~IsEmpty)

Marked ==
    \A s \in Slots :
        buffer[s] = IF \/ Ahead(s, out) < Ahead(in, out) /\ ~(s = out /\ Draining)
                       \/ s = in /\ Filling
                    THEN 1 ELSE 0

LEMMA Flags == TypeOK => (FlagsMatchPointers <=> Marked) /\ Held = Ahead(in, out)
<1> SUFFICES ASSUME TypeOK
             PROVE  (FlagsMatchPointers <=> Marked) /\ Held = Ahead(in, out)
  OBVIOUS
<1>1. Held = Ahead(in, out)
  BY Ring DEF Held, TypeOK
<1>2. /\ At(Producers, {"advance"}) # {} <=> Filling
      /\ At(Consumers, {"advance"}) # {} <=> Draining
  BY DEF At, Filling, Draining
<1>3. \A s \in Slots : (s + BUFFER_SIZE - out) % BUFFER_SIZE = Ahead(s, out)
  BY Ring DEF TypeOK
<1> QED
  BY <1>1, <1>2, <1>3 DEF FlagsMatchPointers, Marked

\* Moving in makes one more, moving out one less.
LEMMA Distances ==
    ASSUME in \in Slots, out \in Slots
    PROVE  /\ Ahead(in, out) \in Nat /\ Ahead(in, out) <= BUFFER_SIZE - 1
           /\ IsEmpty <=> Ahead(in, out) = 0
           /\ IsFull <=> Ahead(in, out) = BUFFER_SIZE - 1
           /\ ~IsFull => Ahead(Next1(in), out) = Ahead(in, out) + 1
           /\ ~IsEmpty => Ahead(in, Next1(out)) = Ahead(in, out) - 1
           /\ \A s \in Slots : /\ Ahead(s, out) \in Nat
                               /\ s = in <=> Ahead(s, out) = Ahead(in, out)
                               /\ s = out <=> Ahead(s, out) = 0
                               /\ s # out => Ahead(s, Next1(out)) = Ahead(s, out) - 1
                               /\ s = out => Ahead(s, Next1(out)) = BUFFER_SIZE - 1
<1>1. \A x \in Slots : x \in Nat /\ x <= BUFFER_SIZE - 1
  BY SizeAssumption DEF Slots
<1>2. BUFFER_SIZE \in Nat /\ BUFFER_SIZE > 1
  BY SizeAssumption
<1>3. /\ Next1(in) = IF in = BUFFER_SIZE - 1 THEN 0 ELSE in + 1
      /\ Next1(out) = IF out = BUFFER_SIZE - 1 THEN 0 ELSE out + 1
  BY Ring
<1>4. /\ Ahead(in, out) \in Nat /\ Ahead(in, out) <= BUFFER_SIZE - 1
      /\ IsEmpty <=> Ahead(in, out) = 0
      /\ IsFull <=> Ahead(in, out) = BUFFER_SIZE - 1
      /\ ~IsFull => Ahead(Next1(in), out) = Ahead(in, out) + 1
      /\ ~IsEmpty => Ahead(in, Next1(out)) = Ahead(in, out) - 1
  BY <1>1, <1>2, <1>3 DEF Ahead, IsEmpty, IsFull
<1>5. ASSUME NEW s \in Slots
      PROVE  /\ Ahead(s, out) \in Nat
             /\ s = in <=> Ahead(s, out) = Ahead(in, out)
             /\ s = out <=> Ahead(s, out) = 0
             /\ s # out => Ahead(s, Next1(out)) = Ahead(s, out) - 1
             /\ s = out => Ahead(s, Next1(out)) = BUFFER_SIZE - 1
  BY <1>1, <1>2, <1>3 DEF Ahead
<1> QED
  BY <1>4, <1>5

\* All actions but the four on the ring.
Quiet ==
    /\ UNCHANGED data
    /\ \A t \in Threads : pc'[t] = "advance" <=> pc[t] = "advance"

LEMMA QuietFlags == Quiet /\ Advancing /\ Marked => Advancing' /\ Marked'
<1> SUFFICES ASSUME Quiet, Advancing, Marked PROVE Advancing' /\ Marked'
  OBVIOUS
<1>1. (Filling' <=> Filling) /\ (Draining' <=> Draining)
  BY DEF Quiet, Filling, Draining, Threads
<1>2. UNCHANGED <<buffer, in, out>>
  BY DEF Quiet, data
<1> QED
  BY <1>1, <1>2 DEF Advancing, Marked, IsFull, IsEmpty, Ahead, Next1

\* The thread inside the mutex is the only one.
LEMMA Only ==
    ASSUME TypeOK, NEW t \in Threads, pc[t] \in Section, NEW u \in Threads, u # t
    PROVE  pc[u] \notin Section
  BY DEF TypeOK, Section

LEMMA FillFlags ==
    ASSUME TypeOK, Advancing, Marked, NEW p \in Producers, Fill(p)
    PROVE  Advancing' /\ Marked'
<1>1. /\ p \in Threads /\ Moves(p, "check", "advance")
      /\ ~IsFull /\ UNCHANGED <<in, out>> /\ buffer' = [buffer EXCEPT ![in] = 1]
  BY Moving DEF Fill, Threads, Labels
<1>2. ~Filling /\ ~Draining /\ ~Draining'
  BY <1>1, Only, ThreadAssumption DEF Filling, Draining, Moves, Section, Threads
<1>3. Filling'
  BY <1>1 DEF Filling, Moves
<1>4. Advancing'
  BY <1>1, <1>2 DEF Advancing, IsFull, Next1
<1>5. ASSUME NEW s \in Slots
      PROVE  buffer'[s] = IF Ahead(s, out) < Ahead(in, out) \/ s = in THEN 1 ELSE 0
  BY <1>1, <1>2 DEF Marked, TypeOK
<1> QED
  BY <1>1, <1>2, <1>3, <1>4, <1>5 DEF Marked, Ahead

LEMMA AdvanceInFlags ==
    ASSUME TypeOK, Advancing, Marked, NEW p \in Producers, AdvanceIn(p)
    PROVE  Advancing' /\ Marked'
<1>1. /\ p \in Threads /\ Moves(p, "advance", "signal")
      /\ in' = Next1(in) /\ UNCHANGED <<buffer, out>>
  BY Moving DEF AdvanceIn, Threads, Labels
<1>2. Filling /\ ~Draining /\ ~Filling' /\ ~Draining'
  BY <1>1, Only, ThreadAssumption DEF Filling, Draining, Moves, Section, Threads
<1>3. ~IsFull
  BY <1>2 DEF Advancing
<1>4. Ahead(in', out) = Ahead(in, out) + 1
  BY <1>1, <1>3, Distances DEF TypeOK
<1>5. ASSUME NEW s \in Slots
      PROVE  buffer'[s] = IF Ahead(s, out) < Ahead(in', out) THEN 1 ELSE 0
  <2>1. buffer'[s] = IF Ahead(s, out) < Ahead(in, out) \/ s = in THEN 1 ELSE 0
    BY <1>1, <1>2 DEF Marked
  <2> QED
    BY <2>1, <1>4, Distances DEF TypeOK
<1>6. Marked'
  BY <1>1, <1>2, <1>5 DEF Marked, Ahead
<1> QED
  BY <1>2, <1>6 DEF Advancing

LEMMA DrainFlags ==
    ASSUME TypeOK, Advancing, Marked, NEW c \in Consumers, Drain(c)
    PROVE  Advancing' /\ Marked'
<1>1. /\ c \in Threads /\ Moves(c, "check", "advance")
      /\ ~IsEmpty /\ UNCHANGED <<in, out>> /\ buffer' = [buffer EXCEPT ![out] = 0]
  BY Moving DEF Drain, Threads, Labels
<1>2. ~Filling /\ ~Draining /\ ~Filling'
  BY <1>1, Only, ThreadAssumption DEF Filling, Draining, Moves, Section, Threads
<1>3. Draining'
  BY <1>1 DEF Draining, Moves
<1>4. Advancing'
  BY <1>1, <1>2 DEF Advancing, IsEmpty
<1>5. ASSUME NEW s \in Slots
      PROVE  buffer'[s] = IF Ahead(s, out) < Ahead(in, out) /\ s # out THEN 1 ELSE 0
  BY <1>1, <1>2 DEF Marked, TypeOK
<1> QED
  BY <1>1, <1>2, <1>3, <1>4, <1>5 DEF Marked, Ahead

LEMMA AdvanceOutFlags ==
    ASSUME TypeOK, Advancing, Marked, NEW c \in Consumers, AdvanceOut(c)
    PROVE  Advancing' /\ Marked'
<1>1. /\ c \in Threads /\ Moves(c, "advance", "signal")
      /\ out' = Next1(out) /\ UNCHANGED <<buffer, in>>
  BY Moving DEF AdvanceOut, Threads, Labels
<1>2. Draining /\ ~Filling /\ ~Filling' /\ ~Draining'
  BY <1>1, Only, ThreadAssumption DEF Filling, Draining, Moves, Section, Threads
<1>3. ~IsEmpty
  BY <1>2 DEF Advancing
<1>4. Ahead(in, out') = Ahead(in, out) - 1
  BY <1>1, <1>3, Distances DEF TypeOK
<1>5. ASSUME NEW s \in Slots
      PROVE  buffer'[s] = IF Ahead(s, out') < Ahead(in, out') THEN 1 ELSE 0
  <2>1. buffer'[s] = IF Ahead(s, out) < Ahead(in, out) /\ s # out THEN 1 ELSE 0
    BY <1>1, <1>2 DEF Marked
  <2> QED
    BY <2>1, <1>1, <1>4, Distances, SizeAssumption DEF TypeOK
<1>6. Marked'
  BY <1>1, <1>2, <1>5 DEF Marked, Ahead
<1> QED
  BY <1>2, <1>6 DEF Advancing

\* What the quiet actions have in common.
LEMMA QuietSteps ==
    ASSUME TypeOK, [Next]_vars,
           ~\E p \in Producers : Fill(p) \/ AdvanceIn(p),
           ~\E c \in Consumers : Drain(c) \/ AdvanceOut(c)
    PROVE  Quiet
<1>1. ASSUME NEW t \in Threads, Lock(t) \/ Unlock(t) \/ SpuriousWakeup(t) PROVE Quiet
  <2>1. /\ UNCHANGED data
        /\ \E from \in Labels \ {"advance"}, to \in Labels \ {"advance"} : Goto(t, from, to)
    BY <1>1 DEF Lock, Unlock, SpuriousWakeup, Goto, Labels
  <2> QED
    BY <2>1, Moving DEF Quiet, Moves
<1>2. ASSUME NEW t \in Threads, WaitEmpty(t) \/ WaitFull(t) PROVE Quiet
  <2>1. UNCHANGED data /\ Moves(t, "check", "asleep")
    BY <1>2, Moving DEF WaitEmpty, WaitFull, Labels
  <2> QED
    BY <2>1 DEF Quiet, Moves
<1>3. ASSUME NEW t \in Threads, SignalFull(t) \/ SignalEmpty(t) PROVE Quiet
  <2>1. /\ UNCHANGED data
        /\ \E waiting \in {empty, full} : \E rest \in SUBSET waiting : Wakes(t, waiting, rest)
    BY <1>3, Waking DEF SignalFull, SignalEmpty, TypeOK
  <2> QED
    BY <2>1 DEF Quiet, Wakes
<1>4. CASE UNCHANGED vars
  BY <1>4 DEF Quiet, vars
<1> QED
  BY <1>1, <1>2, <1>3, <1>4 DEF Next, Producer, Consumer, Threads

\* No item is written over another, and none is taken twice: the flags say
\* which slots lie between out and in.
THEOREM FlagsRight == Spec => []FlagsMatchPointers
<1> DEFINE J == TypeOK /\ Advancing /\ Marked
<1>1. Init => J
  <2> SUFFICES ASSUME Init PROVE J
    OBVIOUS
  <2>1. TypeOK
    BY TypeInit
  <2>2. ~Filling /\ ~Draining
    BY DEF Init, Filling, Draining, Threads
  <2>3. Marked
    BY <2>1, <2>2, Distances DEF Marked, Init, TypeOK
  <2> QED
    BY <2>1, <2>2, <2>3 DEF Advancing
<1>2. J /\ [Next]_vars => J'
  <2> SUFFICES ASSUME J, [Next]_vars PROVE J'
    OBVIOUS
  <2>1. TypeOK'
    BY TypeNext
  <2>2. Advancing' /\ Marked'
    BY QuietSteps, QuietFlags, FillFlags, AdvanceInFlags, DrainFlags, AdvanceOutFlags
  <2> QED
    BY <2>1, <2>2
<1>3. J => FlagsMatchPointers
  BY Flags
<1> QED
  BY <1>1, <1>2, <1>3, PTL DEF Spec

-----------------------------------------------------------------------------
(* The wakeups *)

Lookers == {"woken", "check", "advance"}

\* The producers that will look for room, and the consumers about to announce
\* some; and the same for items.
ForRoom == Cardinality(At(Producers, Lookers)) + Cardinality(At(Consumers, {"signal"}))
ForItems == Cardinality(At(Consumers, Lookers)) + Cardinality(At(Producers, {"signal"}))

LEMMA Wakeups ==
    /\ NoLostWakeup <=> /\ empty # {} => Room <= ForRoom
                        /\ full # {} => Held <= ForItems
    /\ ForRoom \in Nat /\ ForItems \in Nat
<1>1. /\ Cardinality(At(Producers, Lookers)) \in Nat
      /\ Cardinality(At(Consumers, Lookers)) \in Nat
      /\ Cardinality(At(Producers, {"signal"})) \in Nat
      /\ Cardinality(At(Consumers, {"signal"})) \in Nat
  BY Counts DEF Threads
<1> QED
  BY <1>1 DEF NoLostWakeup, ForRoom, ForItems, Lookers

\* What a step of one thread does to the counts of its kind.
LEMMA CountMove ==
    ASSUME NEW T \in SUBSET Threads, NEW L, NEW t \in Threads, NEW from, NEW to,
           Moves(t, from, to)
    PROVE  Cardinality(At(T, L)') =
              Cardinality(At(T, L)) + (IF t \in T /\ to \in L THEN 1 ELSE 0)
                                    - (IF t \in T /\ from \in L THEN 1 ELSE 0)
<1>1. Cardinality(At(T, L)) \in Nat
  BY Counts
<1>2. CASE t \in T /\ to \in L /\ from \notin L
  BY <1>1, <1>2, CountEnter DEF Moves
<1>3. CASE t \in T /\ to \notin L /\ from \in L
  BY <1>1, <1>3, CountLeave DEF Moves
<1>4. CASE t \notin T \/ (to \in L <=> from \in L)
  <2>1. At(T, L)' = At(T, L)
    BY <1>4, CountSame DEF Moves
  <2> QED
    BY <1>1, <1>4, <2>1
<1> QED
  BY <1>2, <1>3, <1>4

\* The two kinds of threads are different ones.
LEMMA Kinds ==
    /\ Producers \in SUBSET Threads /\ Consumers \in SUBSET Threads
    /\ \A p \in Producers : p \in Threads /\ p \notin Consumers
    /\ \A c \in Consumers : c \in Threads /\ c \notin Producers
  BY ThreadAssumption DEF Threads

\* The counts after a step of one thread.
LEMMA ProducerMoves ==
    ASSUME NEW p \in Producers, NEW from, NEW to, Moves(p, from, to)
    PROVE  /\ ForRoom' = ForRoom + (IF to \in Lookers THEN 1 ELSE 0)
                                 - (IF from \in Lookers THEN 1 ELSE 0)
           /\ ForItems' = ForItems + (IF to = "signal" THEN 1 ELSE 0)
                                   - (IF from = "signal" THEN 1 ELSE 0)
<1>1. /\ Cardinality(At(Producers, Lookers)) \in Nat
      /\ Cardinality(At(Consumers, Lookers)) \in Nat
      /\ Cardinality(At(Producers, {"signal"})) \in Nat
      /\ Cardinality(At(Consumers, {"signal"})) \in Nat
  BY Counts, Kinds
<1>2. /\ Cardinality(At(Consumers, {"signal"})') = Cardinality(At(Consumers, {"signal"}))
      /\ Cardinality(At(Consumers, Lookers)') = Cardinality(At(Consumers, Lookers))
  BY <1>1, CountMove, Kinds
<1>3. /\ Cardinality(At(Producers, Lookers)') =
            Cardinality(At(Producers, Lookers)) + (IF to \in Lookers THEN 1 ELSE 0)
                                                - (IF from \in Lookers THEN 1 ELSE 0)
      /\ Cardinality(At(Producers, {"signal"})') =
            Cardinality(At(Producers, {"signal"})) + (IF to = "signal" THEN 1 ELSE 0)
                                                   - (IF from = "signal" THEN 1 ELSE 0)
  BY <1>1, CountMove, Kinds
<1> QED
  BY <1>1, <1>2, <1>3 DEF ForRoom, ForItems

LEMMA ConsumerMoves ==
    ASSUME NEW c \in Consumers, NEW from, NEW to, Moves(c, from, to)
    PROVE  /\ ForItems' = ForItems + (IF to \in Lookers THEN 1 ELSE 0)
                                   - (IF from \in Lookers THEN 1 ELSE 0)
           /\ ForRoom' = ForRoom + (IF to = "signal" THEN 1 ELSE 0)
                                 - (IF from = "signal" THEN 1 ELSE 0)
<1>1. /\ Cardinality(At(Producers, Lookers)) \in Nat
      /\ Cardinality(At(Consumers, Lookers)) \in Nat
      /\ Cardinality(At(Producers, {"signal"})) \in Nat
      /\ Cardinality(At(Consumers, {"signal"})) \in Nat
  BY Counts, Kinds
<1>2. /\ Cardinality(At(Producers, {"signal"})') = Cardinality(At(Producers, {"signal"}))
      /\ Cardinality(At(Producers, Lookers)') = Cardinality(At(Producers, Lookers))
  BY <1>1, CountMove, Kinds
<1>3. /\ Cardinality(At(Consumers, Lookers)') =
            Cardinality(At(Consumers, Lookers)) + (IF to \in Lookers THEN 1 ELSE 0)
                                                - (IF from \in Lookers THEN 1 ELSE 0)
      /\ Cardinality(At(Consumers, {"signal"})') =
            Cardinality(At(Consumers, {"signal"})) + (IF to = "signal" THEN 1 ELSE 0)
                                                   - (IF from = "signal" THEN 1 ELSE 0)
  BY <1>1, CountMove, Kinds
<1> QED
  BY <1>1, <1>2, <1>3 DEF ForRoom, ForItems

\* A signal is paid for by the thread it wakes, if there was one.
LEMMA SignalFullWakeup ==
    ASSUME TypeOK, NoLostWakeup, NEW p \in Producers, SignalFull(p)
    PROVE  NoLostWakeup'
<1>1. PICK rest \in SUBSET full :
          Wakes(p, full, rest) /\ full' = rest /\ UNCHANGED <<in, out, empty>>
  BY Waking, Kinds DEF SignalFull, data, TypeOK
<1>2. /\ Cardinality(At(Producers, Lookers)) \in Nat
      /\ Cardinality(At(Consumers, Lookers)) \in Nat
      /\ Cardinality(At(Producers, {"signal"})) \in Nat
      /\ Cardinality(At(Consumers, {"signal"})) \in Nat
  BY Counts, Kinds
<1>3. Held' = Held /\ Room' = Room /\ Held \in Nat
  BY <1>1, Flags, Distances DEF Held, Room, TypeOK
<1>4. \A c \in Consumers : pc'[c] = "signal" <=> pc[c] = "signal"
  BY <1>1, Kinds DEF Wakes
<1>5. \A u \in Producers : pc'[u] \in Lookers <=> pc[u] \in Lookers
  BY <1>1, Kinds DEF Wakes, TypeOK, At, Lookers
<1>6. ForRoom' = ForRoom
  <2>1. /\ At(Producers, Lookers)' = At(Producers, Lookers)
        /\ At(Consumers, {"signal"})' = At(Consumers, {"signal"})
    BY <1>4, <1>5, CountSame, Kinds
  <2> QED
    BY <2>1 DEF ForRoom
<1>7. Cardinality(At(Producers, {"signal"})') = Cardinality(At(Producers, {"signal"})) - 1
  <2>1. \A u \in Producers : u # p => (pc'[u] \in {"signal"} <=> pc[u] \in {"signal"})
    BY <1>1, Kinds DEF Wakes
  <2> QED
    BY <1>1, <2>1, CountLeave, Kinds DEF Wakes
<1>8. ASSUME full' # {}
      PROVE  Cardinality(At(Consumers, Lookers)') = Cardinality(At(Consumers, Lookers)) + 1
  <2>1. PICK w \in full : /\ pc[w] = "asleep" /\ pc'[w] = "woken" /\ w # p
                          /\ \A u \in Threads : u # p /\ u # w => pc'[u] = pc[u]
    BY <1>1, <1>8 DEF Wakes
  <2>2. w \in Consumers
    BY DEF TypeOK, At
  <2> QED
    BY <2>1, <2>2, CountEnter, Kinds DEF Lookers
<1>9. full' # {} => ForItems' = ForItems
  BY <1>2, <1>7, <1>8 DEF ForItems
<1> QED
  BY <1>1, <1>3, <1>6, <1>9, Wakeups DEF NoLostWakeup, ForRoom, ForItems, Lookers

LEMMA SignalEmptyWakeup ==
    ASSUME TypeOK, NoLostWakeup, NEW c \in Consumers, SignalEmpty(c)
    PROVE  NoLostWakeup'
<1>1. PICK rest \in SUBSET empty :
          Wakes(c, empty, rest) /\ empty' = rest /\ UNCHANGED <<in, out, full>>
  BY Waking, Kinds DEF SignalEmpty, data, TypeOK
<1>2. /\ Cardinality(At(Producers, Lookers)) \in Nat
      /\ Cardinality(At(Consumers, Lookers)) \in Nat
      /\ Cardinality(At(Producers, {"signal"})) \in Nat
      /\ Cardinality(At(Consumers, {"signal"})) \in Nat
  BY Counts, Kinds
<1>3. Held' = Held /\ Room' = Room /\ Held \in Nat
  BY <1>1, Flags, Distances DEF Held, Room, TypeOK
<1>4. \A p \in Producers : pc'[p] = "signal" <=> pc[p] = "signal"
  BY <1>1, Kinds DEF Wakes
<1>5. \A u \in Consumers : pc'[u] \in Lookers <=> pc[u] \in Lookers
  BY <1>1, Kinds DEF Wakes, TypeOK, At, Lookers
<1>6. ForItems' = ForItems
  <2>1. /\ At(Consumers, Lookers)' = At(Consumers, Lookers)
        /\ At(Producers, {"signal"})' = At(Producers, {"signal"})
    BY <1>4, <1>5, CountSame, Kinds
  <2> QED
    BY <2>1 DEF ForItems
<1>7. Cardinality(At(Consumers, {"signal"})') = Cardinality(At(Consumers, {"signal"})) - 1
  <2>1. \A u \in Consumers : u # c => (pc'[u] \in {"signal"} <=> pc[u] \in {"signal"})
    BY <1>1, Kinds DEF Wakes
  <2> QED
    BY <1>1, <2>1, CountLeave, Kinds DEF Wakes
<1>8. ASSUME empty' # {}
      PROVE  Cardinality(At(Producers, Lookers)') = Cardinality(At(Producers, Lookers)) + 1
  <2>1. PICK w \in empty : /\ pc[w] = "asleep" /\ pc'[w] = "woken" /\ w # c
                           /\ \A u \in Threads : u # c /\ u # w => pc'[u] = pc[u]
    BY <1>1, <1>8 DEF Wakes
  <2>2. w \in Producers
    BY DEF TypeOK, At
  <2> QED
    BY <2>1, <2>2, CountEnter, Kinds DEF Lookers
<1>9. empty' # {} => ForRoom' = ForRoom
  BY <1>2, <1>7, <1>8 DEF ForRoom
<1> QED
  BY <1>1, <1>3, <1>6, <1>9, Wakeups DEF NoLostWakeup, ForRoom, ForItems, Lookers

\* A step that leaves the ring alone, and neither sends to sleep nor takes away
\* somebody who looks or is about to signal.
LEMMA HarmlessWakeup ==
    ASSUME NoLostWakeup, Held' = Held, Room' = Room, Held \in Nat, Room \in Int,
           empty' \subseteq empty, full' \subseteq full,
           ForRoom' >= ForRoom, ForItems' >= ForItems,
           ForRoom' \in Nat, ForItems' \in Nat
    PROVE  NoLostWakeup'
<1>1. /\ empty # {} => Room <= ForRoom
      /\ full # {} => Held <= ForItems
      /\ ForRoom \in Nat /\ ForItems \in Nat
  BY Wakeups
<1>2. /\ empty' # {} => Room' <= ForRoom'
      /\ full' # {} => Held' <= ForItems'
  BY <1>1
<1> QED
  BY <1>2 DEF NoLostWakeup, ForRoom, ForItems, Lookers

LEMMA WakeupNext ==
    ASSUME TypeOK, Advancing, NoLostWakeup, [Next]_vars
    PROVE  NoLostWakeup'
<1>0. /\ ForRoom \in Nat /\ ForItems \in Nat
      /\ empty # {} => Room <= ForRoom
      /\ full # {} => Held <= ForItems
      /\ Held = Ahead(in, out) /\ Held \in Nat /\ Held <= BUFFER_SIZE - 1
      /\ Room = BUFFER_SIZE - 1 - Held
      /\ BUFFER_SIZE \in Nat
  BY Wakeups, Flags, Distances, SizeAssumption DEF TypeOK, Room
<1>1. UNCHANGED <<in, out>> => Held' = Held /\ Room' = Room
  BY DEF Held, Room
<1>2. ASSUME NEW t \in Threads, Lock(t) \/ Unlock(t) \/ SpuriousWakeup(t)
      PROVE  NoLostWakeup'
  <2>1. PICK from \in Labels, to \in Labels :
            /\ Moves(t, from, to)
            /\ from \in Lookers => to \in Lookers
            /\ from # "signal" /\ to # "signal"
    <3>1. CASE Lock(t)
      <4>1. Goto(t, "sleep", "check") \/ Goto(t, "woken", "check")
        BY <3>1 DEF Lock, Goto
      <4> QED
        BY <4>1, Moving DEF Labels, Lookers
    <3>2. CASE Unlock(t)
      BY <3>2, Moving DEF Unlock, Labels, Lookers
    <3>3. CASE SpuriousWakeup(t)
      BY <3>3, Moving DEF SpuriousWakeup, Labels, Lookers
    <3> QED
      BY <1>2, <3>1, <3>2, <3>3
  <2>2. UNCHANGED <<in, out>> /\ empty' \subseteq empty /\ full' \subseteq full
    BY <1>2 DEF Lock, Unlock, SpuriousWakeup, data
  <2>3. /\ ForRoom' >= ForRoom /\ ForItems' >= ForItems
        /\ ForRoom' \in Nat /\ ForItems' \in Nat
    BY <1>0, <2>1, ProducerMoves, ConsumerMoves DEF Threads
  <2> QED
    BY <1>0, <1>1, <2>2, <2>3, HarmlessWakeup
<1>3. ASSUME NEW p \in Producers, WaitEmpty(p) PROVE NoLostWakeup'
  <2>1. Moves(p, "check", "asleep") /\ IsFull /\ UNCHANGED <<in, out, full>>
    BY <1>3, Moving, Kinds DEF WaitEmpty, data, Labels
  <2>2. ForRoom' = ForRoom - 1 /\ ForItems' = ForItems
    BY <1>0, <2>1, ProducerMoves DEF Lookers
  <2>3. Room' = 0 /\ Held' = Held
    BY <1>0, <1>1, <2>1, Distances DEF TypeOK
  <2>4. p \in At(Producers, Lookers) /\ ForRoom >= 1
    <3>1. p \in At(Producers, Lookers)
      BY <2>1 DEF At, Moves, Lookers
    <3>2. Cardinality(At(Producers, Lookers)) # 0
      BY <3>1, Counts, Kinds, FS_EmptySet
    <3> QED
      BY <3>1, <3>2, Counts, Kinds DEF ForRoom
  <2>5. /\ empty' # {} => Room' <= ForRoom'
        /\ full' # {} => Held' <= ForItems'
    BY <1>0, <2>1, <2>2, <2>3, <2>4
  <2> QED
    BY <2>5 DEF NoLostWakeup, ForRoom, ForItems, Lookers
<1>4. ASSUME NEW c \in Consumers, WaitFull(c) PROVE NoLostWakeup'
  <2>1. Moves(c, "check", "asleep") /\ IsEmpty /\ UNCHANGED <<in, out, empty>>
    BY <1>4, Moving, Kinds DEF WaitFull, data, Labels
  <2>2. ForItems' = ForItems - 1 /\ ForRoom' = ForRoom
    BY <1>0, <2>1, ConsumerMoves DEF Lookers
  <2>3. Held' = 0 /\ Room' = Room
    BY <1>0, <1>1, <2>1, Distances DEF TypeOK
  <2>4. ForItems >= 1
    <3>1. c \in At(Consumers, Lookers)
      BY <2>1 DEF At, Moves, Lookers
    <3>2. Cardinality(At(Consumers, Lookers)) # 0
      BY <3>1, Counts, Kinds, FS_EmptySet
    <3> QED
      BY <3>1, <3>2, Counts, Kinds DEF ForItems
  <2>5. /\ empty' # {} => Room' <= ForRoom'
        /\ full' # {} => Held' <= ForItems'
    BY <1>0, <2>1, <2>2, <2>3, <2>4
  <2> QED
    BY <2>5 DEF NoLostWakeup, ForRoom, ForItems, Lookers
<1>5. ASSUME NEW p \in Producers, Fill(p) PROVE NoLostWakeup'
  <2>1. Moves(p, "check", "advance") /\ UNCHANGED <<in, out, empty, full>>
    BY <1>5, Moving, Kinds DEF Fill, Labels
  <2>2. ForRoom' = ForRoom /\ ForItems' = ForItems
    BY <1>0, <2>1, ProducerMoves DEF Lookers
  <2> QED
    BY <1>0, <1>1, <2>1, <2>2, HarmlessWakeup
<1>6. ASSUME NEW c \in Consumers, Drain(c) PROVE NoLostWakeup'
  <2>1. Moves(c, "check", "advance") /\ UNCHANGED <<in, out, empty, full>>
    BY <1>6, Moving, Kinds DEF Drain, Labels
  <2>2. ForItems' = ForItems /\ ForRoom' = ForRoom
    <3>1. /\ ForItems' = ForItems + (IF "advance" \in Lookers THEN 1 ELSE 0)
                                   - (IF "check" \in Lookers THEN 1 ELSE 0)
          /\ ForRoom' = ForRoom + (IF "advance" = "signal" THEN 1 ELSE 0)
                                 - (IF "check" = "signal" THEN 1 ELSE 0)
      BY <2>1, ConsumerMoves
    <3> QED
      BY <1>0, <3>1 DEF Lookers
  <2> QED
    BY <1>0, <1>1, <2>1, <2>2, HarmlessWakeup
<1>7. ASSUME NEW p \in Producers, AdvanceIn(p) PROVE NoLostWakeup'
  <2>1. /\ Moves(p, "advance", "signal")
        /\ in' = Next1(in) /\ UNCHANGED <<out, empty, full>>
    BY <1>7, Moving, Kinds DEF AdvanceIn, Labels
  <2>2. ForRoom' = ForRoom - 1 /\ ForItems' = ForItems + 1
    BY <1>0, <2>1, ProducerMoves DEF Lookers
  <2>3. ~IsFull
    BY <2>1 DEF Advancing, Filling, Moves
  <2>4. Held' = Held + 1
    <3>1. in' \in Slots /\ out' \in Slots
      BY <2>1, Ring DEF TypeOK
    <3>2. Held' = Ahead(in', out')
      BY <3>1, Ring DEF Held
    <3> QED
      BY <1>0, <2>1, <2>3, <3>2, Distances DEF TypeOK
  <2>5. Room' = Room - 1
    BY <1>0, <2>4 DEF Room
  <2>6. /\ empty' # {} => Room' <= ForRoom'
        /\ full' # {} => Held' <= ForItems'
    BY <1>0, <2>1, <2>2, <2>4, <2>5
  <2> QED
    BY <2>6 DEF NoLostWakeup, ForRoom, ForItems, Lookers
<1>8. ASSUME NEW c \in Consumers, AdvanceOut(c) PROVE NoLostWakeup'
  <2>1. /\ Moves(c, "advance", "signal")
        /\ out' = Next1(out) /\ UNCHANGED <<in, empty, full>>
    BY <1>8, Moving, Kinds DEF AdvanceOut, Labels
  <2>2. ForItems' = ForItems - 1 /\ ForRoom' = ForRoom + 1
    BY <1>0, <2>1, ConsumerMoves DEF Lookers
  <2>3. ~IsEmpty
    BY <2>1 DEF Advancing, Draining, Moves
  <2>4. Held' = Held - 1
    <3>1. in' \in Slots /\ out' \in Slots
      BY <2>1, Ring DEF TypeOK
    <3>2. Held' = Ahead(in', out')
      BY <3>1, Ring DEF Held
    <3> QED
      BY <1>0, <2>1, <2>3, <3>2, Distances DEF TypeOK
  <2>5. Room' = Room + 1
    BY <1>0, <2>4 DEF Room
  <2>6. /\ empty' # {} => Room' <= ForRoom'
        /\ full' # {} => Held' <= ForItems'
    BY <1>0, <2>1, <2>2, <2>4, <2>5
  <2> QED
    BY <2>6 DEF NoLostWakeup, ForRoom, ForItems, Lookers
<1>9. CASE UNCHANGED vars
  BY <1>9 DEF vars, data, NoLostWakeup, Room, Held, At
<1> QED
  BY <1>2, <1>3, <1>4, <1>5, <1>6, <1>7, <1>8, <1>9, SignalFullWakeup, SignalEmptyWakeup
     DEF Next, Producer, Consumer, Threads

\* Nobody sleeps while there is something to do that nobody awake will look for
\* and nobody is about to announce: one signal for each change is enough, however
\* many wait and whoever else wins the mutex.
THEOREM NoWakeupLost == Spec => []NoLostWakeup
<1> DEFINE J == TypeOK /\ Advancing /\ Marked /\ NoLostWakeup
<1>1. Init => J
  <2> SUFFICES ASSUME Init PROVE J
    OBVIOUS
  <2>1. TypeOK
    BY TypeInit
  <2>2. ~Filling /\ ~Draining
    BY DEF Init, Filling, Draining, Threads
  <2>3. Marked
    BY <2>1, <2>2, Distances DEF Marked, Init, TypeOK
  <2>4. NoLostWakeup
    BY DEF Init, NoLostWakeup
  <2> QED
    BY <2>1, <2>2, <2>3, <2>4 DEF Advancing
<1>2. J /\ [Next]_vars => J'
  <2> SUFFICES ASSUME J, [Next]_vars PROVE J'
    OBVIOUS
  <2>1. TypeOK'
    BY TypeNext
  <2>2. Advancing' /\ Marked'
    BY QuietSteps, QuietFlags, FillFlags, AdvanceInFlags, DrainFlags, AdvanceOutFlags
  <2>3. NoLostWakeup'
    BY WakeupNext
  <2> QED
    BY <2>1, <2>2, <2>3
<1> QED
  BY <1>1, <1>2, PTL DEF Spec

-----------------------------------------------------------------------------
(* Deadlock *)

\* The calls that may not return: pthread_mutex_lock, also the one with which a
\* wait ends, and pthread_cond_wait before anybody signals.
Blocked(t) ==
    \/ pc[t] \in {"sleep", "woken"} /\ mutex # Free
    \/ pc[t] = "asleep"

\* The threads never all wait for one another, even if no wakeup is spurious: who
\* holds the mutex can go on, and producers and consumers never sleep all at once.
THEOREM NeverAllBlocked ==
    ASSUME Producers # {}, Consumers # {}
    PROVE  Spec => [](\E t \in Threads : ~Blocked(t))
<1>1. ASSUME TypeOK, NoLostWakeup
      PROVE  \E t \in Threads : ~Blocked(t)
  <2>1. CASE mutex # Free
    <3>1. mutex \in Threads /\ pc[mutex] \in Section
      BY <1>1, <2>1 DEF TypeOK, Section
    <3> QED
      BY <3>1 DEF Blocked, Section
  <2>2. CASE \E t \in Threads : pc[t] # "asleep" /\ mutex = Free
    BY <2>2 DEF Blocked
  <2>3. CASE \A t \in Threads : pc[t] = "asleep"
    <3>1. empty # {} /\ full # {}
      BY <1>1, <2>3, Kinds DEF TypeOK, At
    <3>2. /\ At(Producers, Lookers) = {} /\ At(Consumers, {"signal"}) = {}
          /\ At(Consumers, Lookers) = {} /\ At(Producers, {"signal"}) = {}
      BY <2>3, Kinds DEF At, Lookers
    <3>3. ForRoom = 0 /\ ForItems = 0
      BY <3>2, FS_EmptySet DEF ForRoom, ForItems
    <3>4. Room <= 0 /\ Held <= 0
      BY <1>1, <3>1, <3>3 DEF NoLostWakeup, ForRoom, ForItems, Lookers
    <3>5. Held \in Int /\ Room = BUFFER_SIZE - 1 - Held
      BY <1>1, Flags, Distances DEF Room, TypeOK
    <3> QED
      BY <3>4, <3>5, SizeAssumption
  <2> QED
    BY <2>1, <2>2, <2>3
<1>2. TypeOK /\ NoLostWakeup => \E t \in Threads : ~Blocked(t)
  BY <1>1
<1> QED
  BY <1>2, TypeCorrect, NoWakeupLost, PTL

-----------------------------------------------------------------------------
(* The bounded buffer *)

Marking == TypeOK /\ Advancing /\ Marked

\* How many items a consumer can still find, and the queue they make.
Stored == IF Draining THEN Held - 1 ELSE Held
Stock == [k \in 1 .. Held - HasCleared |-> buffer[(out + HasCleared + k - 1) % BUFFER_SIZE]]

StockIs == /\ Stored \in 0 .. BUFFER_SIZE - 1
           /\ Held \in 0 .. BUFFER_SIZE - 1 /\ Held = Ahead(in, out)
           /\ Stock = [k \in 1 .. Stored |-> 1]

LEMMA StockRight == Marking => StockIs
<1> SUFFICES ASSUME Marking PROVE StockIs
  OBVIOUS
<1>1. /\ in \in 0 .. BUFFER_SIZE - 1 /\ out \in 0 .. BUFFER_SIZE - 1
      /\ BUFFER_SIZE \in Nat \ {0}
  BY SizeAssumption DEF Marking, TypeOK, Slots
<1>2. Held = Ahead(in, out) /\ Held \in 0 .. BUFFER_SIZE - 1 /\ (Draining => Held > 0)
  BY <1>1, Flags, Distances DEF Marking, Advancing, Slots
<1>3. HasCleared = IF Draining THEN 1 ELSE 0
  <2>1. CASE Draining
    <3>1. PICK c \in Consumers : pc[c] = "advance"
      BY <2>1 DEF Draining
    <3>2. At(Consumers, {"advance"}) = {c}
      BY <3>1, Only, Kinds DEF Marking, At, Section
    <3> QED
      BY <2>1, <3>2, FS_Singleton DEF HasCleared
  <2>2. CASE ~Draining
    <3>1. At(Consumers, {"advance"}) = {}
      BY <2>2 DEF At, Draining
    <3> QED
      BY <2>2, <3>1, FS_EmptySet DEF HasCleared
  <2> QED
    BY <2>1, <2>2
<1>4. Stored \in 0 .. BUFFER_SIZE - 1 /\ Held - HasCleared = Stored
  BY <1>1, <1>2, <1>3 DEF Stored
<1>5. ASSUME NEW k \in 1 .. Stored
      PROVE  buffer[(out + HasCleared + k - 1) % BUFFER_SIZE] = 1
  <2>1. PICK d \in 0 .. BUFFER_SIZE - 1 :
           d = HasCleared + k - 1 /\ d < Held /\ (Draining => d > 0)
    BY <1>1, <1>2, <1>3, <1>4 DEF Stored
  <2>2. (out + d) % BUFFER_SIZE = Place(BUFFER_SIZE, out, d)
    <3>1. (out + d) % BUFFER_SIZE = Place(BUFFER_SIZE, IF out = BUFFER_SIZE THEN 0 ELSE out, d)
      BY <1>1, ModuloPlace
    <3> QED
      BY <1>1, <3>1
  <2>3. /\ Place(BUFFER_SIZE, out, d) \in Slots
        /\ Ahead(Place(BUFFER_SIZE, out, d), out) = d
    BY <1>1, PlaceDistance DEF Slots, Ahead, Distance
  <2>4. Ahead(out, out) = 0
    BY <1>1 DEF Ahead
  <2>5. buffer[Place(BUFFER_SIZE, out, d)] = 1
    BY <1>2, <2>1, <2>3, <2>4 DEF Marking, Marked
  <2>6. out + HasCleared + k - 1 = out + d
    BY <1>1, <1>3, <1>4, <2>1
  <2> QED
    BY <2>2, <2>5, <2>6
<1> QED
  BY <1>2, <1>4, <1>5 DEF StockIs, Stock

\* A row of n ones.
Ones(n) == [k \in 1 .. n |-> 1]

LEMMA Row ==
    ASSUME NEW n \in Nat
    PROVE  /\ Ones(n) \in Seq({1}) /\ Len(Ones(n)) = n
           /\ Append(Ones(n), 1) = Ones(n + 1)
           /\ n > 0 => /\ Ones(n) # <<>> /\ Head(Ones(n)) = 1
                       /\ Tail(Ones(n)) = Ones(n - 1)
           /\ n = 0 => Ones(n) = <<>>
<1>1. \A m \in Nat : Ones(m) \in Seq({1}) /\ Len(Ones(m)) = m
  <2> TAKE m \in Nat
  <2>1. Ones(m) \in [1 .. m -> {1}]
    BY DEF Ones
  <2>2. Ones(m) \in Seq({1})
    BY <2>1, SeqDef
  <2>3. Len(Ones(m)) \in Nat /\ 1 .. Len(Ones(m)) = 1 .. m
    BY <2>1, <2>2, LenProperties
  <2> QED
    BY <2>2, <2>3
<1>2. Append(Ones(n), 1) = Ones(n + 1)
  <2>1. /\ Append(Ones(n), 1) \in Seq({1}) /\ Len(Append(Ones(n), 1)) = n + 1
        /\ \A i \in 1 .. n + 1 : Append(Ones(n), 1)[i] = IF i <= n THEN Ones(n)[i] ELSE 1
    BY <1>1, AppendProperties
  <2>2. \A i \in 1 .. n + 1 : Append(Ones(n), 1)[i] = Ones(n + 1)[i]
    BY <2>1 DEF Ones
  <2> QED
    BY <1>1, <2>1, <2>2, SeqEqual
<1>3. ASSUME n > 0
      PROVE  Ones(n) # <<>> /\ Head(Ones(n)) = 1 /\ Tail(Ones(n)) = Ones(n - 1)
  <2>1. Ones(n) # <<>>
    BY <1>1, <1>3, EmptySeq
  <2>2. Head(Ones(n)) = 1
    BY <1>1, <2>1, HeadTailProperties
  <2>3. /\ Tail(Ones(n)) \in Seq({1}) /\ Len(Tail(Ones(n))) = n - 1
    BY <1>1, <2>1, HeadTailProperties
  <2>4. n - 1 \in Nat
    BY <1>3
  <2>5. \A i \in 1 .. n - 1 : Tail(Ones(n))[i] = 1 /\ Ones(n - 1)[i] = 1
    BY <2>3, <2>4, ElementOfSeq DEF Ones
  <2> QED
    BY <1>1, <2>1, <2>2, <2>3, <2>4, <2>5, SeqEqual
<1>4. n = 0 => Ones(n) = <<>>
  BY <1>1, EmptySeq
<1> QED
  BY <1>1, <1>2, <1>3, <1>4

LEMMA StockStep ==
    ASSUME Marking, Marking', [Next]_vars
    PROVE  \/ Stored' = Stored
           \/ Stored' = Stored + 1 /\ Stored < BUFFER_SIZE - 1
           \/ Stored' = Stored - 1 /\ Stored > 0 /\ Consumers # {}
<1>0. StockIs /\ StockIs' /\ BUFFER_SIZE \in Nat
  BY StockRight, SizeAssumption, PTL
<1>1. /\ Held' = Ahead(in', out') /\ Held = Ahead(in, out)
      /\ Held \in Nat /\ Held <= BUFFER_SIZE - 1 /\ BUFFER_SIZE \in Nat
  BY <1>0 DEF StockIs, Ahead
<1>2. CASE Quiet
  <2>1. (Draining' <=> Draining) /\ UNCHANGED <<in, out>>
    BY <1>2, Kinds DEF Quiet, Draining, data
  <2>2. Held' = Held
    BY <1>1, <2>1
  <2> QED
    BY <2>1, <2>2 DEF Stored
<1>3. ASSUME NEW p \in Producers, Fill(p) PROVE Stored' = Stored
  <2>1. p \in Threads /\ Moves(p, "check", "advance") /\ UNCHANGED <<in, out>>
    BY <1>3, Moving, Kinds DEF Fill, Labels, Marking
  <2>2. Draining' <=> Draining
    BY <2>1, Kinds DEF Draining, Moves
  <2> QED
    BY <1>1, <2>1, <2>2 DEF Stored
<1>4. ASSUME NEW p \in Producers, AdvanceIn(p)
      PROVE  Stored' = Stored + 1 /\ Stored < BUFFER_SIZE - 1
  <2>1. /\ p \in Threads /\ Moves(p, "advance", "signal")
        /\ in' = Next1(in) /\ UNCHANGED out
    BY <1>4, Moving, Kinds DEF AdvanceIn, Labels, Marking
  <2>2. ~Draining /\ ~Draining' /\ ~IsFull
    BY <2>1, Only, Kinds DEF Draining, Moves, Section, Marking, Advancing, Filling
  <2>3. Ahead(in', out') = Ahead(in, out) + 1 /\ Ahead(in, out) # BUFFER_SIZE - 1
    BY <2>1, <2>2, Distances DEF Marking, TypeOK
  <2> QED
    BY <1>1, <2>2, <2>3 DEF Stored
<1>5. ASSUME NEW c \in Consumers, Drain(c) PROVE Stored' = Stored - 1 /\ Stored > 0
  <2>1. /\ c \in Threads /\ Moves(c, "check", "advance") /\ ~IsEmpty /\ UNCHANGED <<in, out>>
    BY <1>5, Moving, Kinds DEF Drain, Labels, Marking
  <2>2. ~Draining /\ Draining'
    BY <2>1, Only, Kinds DEF Draining, Moves, Section, Marking
  <2>3. Ahead(in, out) # 0
    BY <2>1, Distances DEF Marking, TypeOK
  <2>4. Held' = Held
    BY <1>1, <2>1
  <2> QED
    BY <1>1, <2>2, <2>3, <2>4 DEF Stored
<1>6. ASSUME NEW c \in Consumers, AdvanceOut(c) PROVE Stored' = Stored
  <2>1. /\ c \in Threads /\ Moves(c, "advance", "signal")
        /\ out' = Next1(out) /\ UNCHANGED in
    BY <1>6, Moving, Kinds DEF AdvanceOut, Labels, Marking
  <2>2. Draining /\ ~Draining' /\ ~IsEmpty
    BY <2>1, Only, Kinds DEF Draining, Moves, Section, Marking, Advancing
  <2>3. Ahead(in', out') = Ahead(in, out) - 1
    BY <2>1, <2>2, Distances DEF Marking, TypeOK
  <2> QED
    BY <1>1, <2>2, <2>3 DEF Stored
<1> QED
  BY <1>2, <1>3, <1>4, <1>5, <1>6, QuietSteps DEF Marking

\* The program implements the bounded buffer of one item less than its slots,
\* however many threads there are and however they are woken.
THEOREM Implementation == Spec => IsBoundedBuffer
<1>1. Init => Marking
  <2> SUFFICES ASSUME Init PROVE Marking
    OBVIOUS
  <2>1. TypeOK
    BY TypeInit
  <2>2. ~Filling /\ ~Draining
    BY DEF Init, Filling, Draining, Threads
  <2>3. Marked
    BY <2>1, <2>2, Distances DEF Marked, Init, TypeOK
  <2> QED
    BY <2>1, <2>2, <2>3 DEF Marking, Advancing
<1>2. Marking /\ [Next]_vars => Marking'
  BY TypeNext, QuietSteps, QuietFlags, FillFlags, AdvanceInFlags, DrainFlags, AdvanceOutFlags
     DEF Marking
<1>3. Init => Fifo!BufferInit
  <2> SUFFICES ASSUME Init PROVE Stock = <<>>
    BY DEF Fifo!BufferInit, Stock
  <2>1. StockIs /\ ~Draining
    BY <1>1, StockRight DEF Init, Draining, Threads
  <2>2. Stored = 0
    BY <2>1, Distances, SizeAssumption DEF Init, StockIs, Stored, Ahead
  <2> QED
    BY <2>1, <2>2, Row DEF StockIs, Ones
<1>4. Marking /\ [Next]_vars /\ Marking' => [Fifo!BufferNext]_Fifo!bufferVars
  <2> SUFFICES ASSUME Marking, [Next]_vars, Marking' PROVE [Fifo!BufferNext]_Fifo!bufferVars
    OBVIOUS
  <2>1. StockIs /\ StockIs'
    BY StockRight, PTL
  <2>2. Stock = Ones(Stored) /\ Stock' = Ones(Stored') /\ Stored \in Nat
    BY <2>1 DEF StockIs, Ones
  <2>3. CASE Stored' = Stored
    <3>1. Stock' = Stock
      BY <2>2, <2>3
    <3> QED
      BY <3>1 DEF Fifo!bufferVars, Stock
  <2>4. CASE Stored' = Stored + 1 /\ Stored < BUFFER_SIZE - 1
    <3>1. Stock' = Append(Stock, 1) /\ Len(Stock) < BUFFER_SIZE - 1
      BY <2>2, <2>4, Row
    <3>2. Fifo!Put(1)
      BY <3>1 DEF Fifo!Put, Stock
    <3> QED
      BY <3>2 DEF Fifo!BufferNext
  <2>5. CASE Stored' = Stored - 1 /\ Stored > 0 /\ Consumers # {}
    <3>1. Stock' = Tail(Stock) /\ Stock # <<>> /\ Head(Stock) = 1
      BY <2>2, <2>5, Row
    <3>2. PICK c \in Consumers : TRUE
      BY <2>5
    <3>3. Fifo!Take(c)
      BY <3>1, <3>2 DEF Fifo!Take, Stock
    <3> QED
      BY <3>2, <3>3 DEF Fifo!BufferNext
  <2> QED
    BY <2>3, <2>4, <2>5, StockStep
<1>5. Spec => Fifo!BufferInit /\ [][Fifo!BufferNext]_Fifo!bufferVars
  BY <1>1, <1>2, <1>3, <1>4, PTL DEF Spec
<1> QED
  BY <1>5 DEF IsBoundedBuffer, Fifo!BufferSpec
=============================================================================
