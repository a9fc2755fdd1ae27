-------------------------- MODULE MsgQueue_proofs --------------------------
(***************************************************************************)
(* For any threads and any size of the array: main returns when every      *)
(* thread has ended, and without a race the array is left at one place     *)
(* only, the one below it.                                                 *)
(***************************************************************************)
EXTENDS MsgQueue, TLAPS

-----------------------------------------------------------------------------
LEMMA InitTypeOK == Init => TypeOK
<1> SUFFICES ASSUME Init PROVE TypeOK
  OBVIOUS
<1>1. keep_running \in BOOLEAN /\ is_room \in BOOLEAN /\ met \in BOOLEAN
  BY Zenon DEF Init
<1>2. /\ pc \in [Threads -> {"none"}] /\ slot \in [Threads -> Int]
      /\ \A t \in Threads : pc[t] = "none"
  BY DEF Init
<1>3. /\ position \in Int /\ crew \in Crews /\ main = "create"
  BY DEF Init
<1> QED
  BY <1>1, <1>2, <1>3 DEF TypeOK, Threads, Inside

\* A thread moves within its own function, and is in the crew.
LEMMA MoveTypeOK ==
    ASSUME TypeOK, NEW t \in Threads, NEW from \in Inside \cup {"test", "room", "wait"},
           NEW to \in Inside \cup {"test", "room", "wait", "done"}, Goto(t, from, to),
           t \in Producers => to \notin {"wait", "take", "reopen"},
           t \in Consumers => to \notin {"room", "put", "check", "full"},
           keep_running' \in BOOLEAN, is_room' \in BOOLEAN, met' \in BOOLEAN,
           position' \in Int, slot' \in [Threads -> Int]
    PROVE  TypeOK'
<1>1. /\ pc[t] = from /\ from # "none" /\ from # "done" /\ to # "none"
      /\ UNCHANGED <<crew, main>>
      /\ pc' \in [Threads -> Inside \cup {"none", "test", "room", "wait", "done"}]
      /\ pc'[t] = to /\ \A u \in Threads : u # t => pc'[u] = pc[u]
  BY DEF TypeOK, Goto, Inside
<1>2. t \in crew /\ crew \subseteq Threads
  BY <1>1, ThreadsAssumption DEF TypeOK, Threads
<1>3. main # "returned"
  BY <1>1, <1>2 DEF TypeOK
<1>4. /\ \A u \in Producers : pc'[u] \notin {"wait", "take", "reopen"}
      /\ \A u \in Consumers : pc'[u] \notin {"room", "put", "check", "full"}
  BY <1>1 DEF TypeOK, Threads
<1>5. /\ \A u \in Threads : pc'[u] # "none" => u \in crew
      /\ main # "create" => \A u \in crew : pc'[u] # "none"
  BY <1>1, <1>2 DEF TypeOK
<1> QED
  BY <1>1, <1>3, <1>4, <1>5 DEF TypeOK

LEMMA NextTypeOK == TypeOK /\ [Next]_vars => TypeOK'
<1> SUFFICES ASSUME TypeOK, [Next]_vars PROVE TypeOK'
  OBVIOUS
<1>0. crew \subseteq Threads
  BY ThreadsAssumption DEF TypeOK, Threads
<1>1. ASSUME NEW t \in Threads, Create(t) PROVE TypeOK'
  <2>1. /\ main = "create" /\ t \in crew /\ pc[t] = "none"
        /\ UNCHANGED <<position, is_room, keep_running, crew, slot, met>>
        /\ pc' \in [Threads -> Inside \cup {"none", "test", "room", "wait", "done"}]
        /\ pc'[t] = "test" /\ \A u \in Threads : u # t => pc'[u] = pc[u]
    BY <1>1 DEF Create, mq, TypeOK, Inside
  <2>2. /\ main' \in {"create", "enter"}
        /\ main' = "enter" => \A u \in crew \ {t} : pc[u] # "none"
    BY <1>1 DEF Create
  <2>3. main' # "create" => \A u \in crew : pc'[u] # "none"
    BY <2>1, <2>2, <1>0
  <2>4. /\ \A u \in Producers : pc'[u] \notin {"wait", "take", "reopen"}
        /\ \A u \in Consumers : pc'[u] \notin {"room", "put", "check", "full"}
    BY <2>1 DEF TypeOK, Threads
  <2> QED
    BY <2>1, <2>2, <2>3, <2>4 DEF TypeOK
<1>2. CASE CreateNobody
  BY <1>2 DEF CreateNobody, mq, TypeOK
<1>3. CASE HitEnter
  <2>1. keep_running' \in BOOLEAN
    BY <1>3, Zenon DEF HitEnter
  <2> QED
    BY <1>3, <2>1 DEF HitEnter, TypeOK
<1>4. CASE Join
  BY <1>4 DEF Join, mq, TypeOK
<1>5. ASSUME NEW t \in Producers, Producer(t) PROVE TypeOK'
  <2>0. t \in Threads /\ t \notin Consumers /\ slot[t] \in Int
    BY ThreadsAssumption DEF Threads, TypeOK
  <2>1. CASE Test(t, "room")
    BY <2>0, <2>1, MoveTypeOK DEF Test, mq, TypeOK
  <2>2. CASE SeesRoom(t)
    BY <2>0, <2>2, MoveTypeOK DEF SeesRoom, LeaveWait, mq, TypeOK, Inside
  <2>3. CASE Load(t)
    BY <2>0, <2>3, MoveTypeOK DEF Load, mq, TypeOK, Inside
  <2>4. CASE Increment(t)
    BY <2>0, <2>4, MoveTypeOK DEF Increment, TypeOK, Inside
  <2>5. CASE Put(t)
    <3>1. keep_running' \in BOOLEAN /\ is_room' \in BOOLEAN /\ position' \in Int
      BY <2>5 DEF Put, TypeOK
    <3> QED
      BY <2>0, <2>5, <3>1, MoveTypeOK DEF Put, TypeOK, Inside
  <2>6. CASE Check(t)
    BY <2>0, <2>6, MoveTypeOK DEF Check, mq, TypeOK, Inside
  <2>7. CASE CloseRoom(t)
    <3>1. is_room' \in BOOLEAN
      BY <2>7, Zenon DEF CloseRoom
    <3> QED
      BY <2>0, <2>7, <3>1, MoveTypeOK DEF CloseRoom, TypeOK, Inside
  <2> QED
    BY <1>5, <2>1, <2>2, <2>3, <2>4, <2>5, <2>6, <2>7 DEF Producer
<1>6. ASSUME NEW t \in Consumers, Consumer(t) PROVE TypeOK'
  <2>0. t \in Threads /\ t \notin Producers /\ slot[t] \in Int
    BY ThreadsAssumption DEF Threads, TypeOK
  <2>1. CASE Test(t, "wait")
    BY <2>0, <2>1, MoveTypeOK DEF Test, mq, TypeOK
  <2>2. CASE SeesNothing(t)
    BY <2>0, <2>2, MoveTypeOK DEF SeesNothing, LeaveWait, mq, TypeOK, Inside
  <2>3. CASE Load(t)
    BY <2>0, <2>3, MoveTypeOK DEF Load, mq, TypeOK, Inside
  <2>4. CASE Decrement(t)
    BY <2>0, <2>4, MoveTypeOK DEF Decrement, TypeOK, Inside
  <2>5. CASE Take(t)
    BY <2>0, <2>5, MoveTypeOK DEF Take, mq, TypeOK, Inside
  <2>6. CASE OpenRoom(t)
    <3>1. is_room' \in BOOLEAN
      BY <2>6, Zenon DEF OpenRoom
    <3> QED
      BY <2>0, <2>6, <3>1, MoveTypeOK DEF OpenRoom, TypeOK, Inside
  <2> QED
    BY <1>6, <2>1, <2>2, <2>3, <2>4, <2>5, <2>6 DEF Consumer
<1>7. CASE UNCHANGED vars
  BY <1>7 DEF vars, mq, TypeOK
<1> QED
  BY <1>1, <1>2, <1>3, <1>4, <1>5, <1>6, <1>7 DEF Next

\* Each thread keeps to its own function, whatever the others do to the fields, and
\* main, on whose stack they are, returns when all it has started have ended.
THEOREM TypeCorrect == Spec => []TypeOK
BY InitTypeOK, NextTypeOK, PTL DEF Spec

-----------------------------------------------------------------------------
(* The strengthening *)

\* Without a race at most one thread is in the middle of a turn.
OneInside ==
    \A t, u \in Threads : pc[t] \in Inside /\ pc[u] \in Inside => t = u

\* What the array looks like between two turns.
Between == position \in -1 .. BUFFER_SIZE /\ (is_room <=> position # BUFFER_SIZE)

\* What it looks like in the middle of a producer's turn, and of a consumer's.
ProducersTurn(t) ==
    /\ pc[t] \in Inside => is_room
    /\ pc[t] \in {"load", "store"} => position \in -1 .. BUFFER_SIZE - 1
    /\ pc[t] = "store" => slot[t] = position
    /\ pc[t] = "put" => position \in 0 .. BUFFER_SIZE /\ slot[t] = position - 1
    /\ pc[t] = "check" => position \in 0 .. BUFFER_SIZE
    /\ pc[t] = "full" => position = BUFFER_SIZE

ConsumersTurn(t) ==
    /\ pc[t] \in Inside => is_room
    /\ pc[t] \in {"load", "store"} => position = 0
    /\ pc[t] = "store" => slot[t] = 0
    /\ pc[t] \in {"take", "reopen"} => position = -1
    /\ pc[t] = "reopen" => slot[t] = -1

Alone ==
    /\ OneInside
    /\ (\A t \in Threads : pc[t] \notin Inside) => Between
    /\ \A t \in Producers : ProducersTurn(t)
    /\ \A t \in Consumers : ConsumersTurn(t)

IInv == TypeOK /\ (~met => Alone)

-----------------------------------------------------------------------------
LEMMA InitIInv == Init => IInv
<1> SUFFICES ASSUME Init PROVE IInv
  OBVIOUS
<1>1. \A t \in Threads : pc[t] = "none"
  BY DEF Init
<1>2. TypeOK
  BY InitTypeOK
<1>3. Alone
  BY <1>1, SizeAssumption
     DEF Init, Alone, OneInside, Between, ProducersTurn, ConsumersTurn, Inside, Threads
<1> QED
  BY <1>2, <1>3 DEF IInv

\* The steps of main, and the tests at the top of the loops, touch no field that
\* matters here and nobody in the middle of a turn.
LEMMA Outside ==
    ASSUME IInv, TypeOK', UNCHANGED <<position, is_room, slot, met>>,
           \A t \in Threads : pc'[t] = pc[t] \/ (pc[t] \notin Inside /\ pc'[t] \notin Inside)
    PROVE  IInv'
<1>1. ASSUME ~met PROVE Alone'
  <2>1. Alone
    BY <1>1 DEF IInv
  <2>2. OneInside'
    BY <2>1 DEF Alone, OneInside
  <2>3. (\A t \in Threads : pc'[t] \notin Inside) => Between'
    BY <2>1 DEF Alone, Between
  <2>4. ASSUME NEW t \in Producers PROVE ProducersTurn(t)'
    BY <2>1, t \in Threads DEF Alone, ProducersTurn, Inside, Threads
  <2>5. ASSUME NEW t \in Consumers PROVE ConsumersTurn(t)'
    BY <2>1, t \in Threads DEF Alone, ConsumersTurn, Inside, Threads
  <2> QED
    BY <2>2, <2>3, <2>4, <2>5 DEF Alone
<1> QED
  BY <1>1 DEF IInv

\* A step in the middle of a turn: only what it does to its own thread is to be shown.
LEMMA Within ==
    ASSUME IInv, NEW t \in Threads, NEW to,
           ~met' => pc[t] \in Inside \/ (\A u \in Threads : pc[u] \notin Inside),
           met => met',
           TypeOK', pc' = [pc EXCEPT ![t] = to],
           ~met' => (to \notin Inside => Between'),
           ~met' => (t \in Producers => ProducersTurn(t)'),
           ~met' => (t \in Consumers => ConsumersTurn(t)')
    PROVE  IInv'
<1>1. ASSUME ~met' PROVE Alone'
  <2>1. Alone /\ ~met
    BY <1>1 DEF IInv, TypeOK
  <2>2. pc'[t] = to /\ \A u \in Threads : u # t => pc'[u] = pc[u] /\ pc[u] \notin Inside
    BY <2>1, <1>1 DEF IInv, TypeOK, Alone, OneInside
  <2>3. OneInside'
    BY <2>2 DEF OneInside
  <2>4. (\A u \in Threads : pc'[u] \notin Inside) => Between'
    BY <2>2, <1>1
  <2>5. ASSUME NEW u \in Producers PROVE ProducersTurn(u)'
    <3>1. CASE u = t
      BY <3>1, <1>1
    <3>2. CASE u # t
      BY <3>2, <2>2, u \in Threads DEF ProducersTurn, Inside, Threads
    <3> QED
      BY <3>1, <3>2
  <2>6. ASSUME NEW u \in Consumers PROVE ConsumersTurn(u)'
    <3>1. CASE u = t
      BY <3>1, <1>1
    <3>2. CASE u # t
      BY <3>2, <2>2, u \in Threads DEF ConsumersTurn, Inside, Threads
    <3> QED
      BY <3>1, <3>2
  <2> QED
    BY <2>3, <2>4, <2>5, <2>6 DEF Alone
<1> QED
  BY <1>1 DEF IInv

-----------------------------------------------------------------------------
LEMMA MainIInv ==
    IInv /\ TypeOK' /\ ((\E t \in Threads : Create(t)) \/ CreateNobody \/ HitEnter \/ Join) => IInv'
<1> SUFFICES ASSUME IInv, TypeOK',
                    (\E t \in Threads : Create(t)) \/ CreateNobody \/ HitEnter \/ Join
             PROVE  IInv'
  OBVIOUS
<1>1. ASSUME NEW t \in Threads, Create(t) PROVE IInv'
  <2>1. /\ pc[t] = "none" /\ pc' = [pc EXCEPT ![t] = "test"]
        /\ UNCHANGED <<position, is_room, keep_running, slot, met>>
    BY <1>1 DEF Create, mq
  <2> QED
    BY <2>1, Outside DEF IInv, TypeOK, Inside, Threads
<1>2. CASE CreateNobody \/ HitEnter \/ Join
  <2>1. UNCHANGED <<position, is_room, slot, met, pc>> /\ keep_running' \in BOOLEAN
    BY <1>2 DEF CreateNobody, HitEnter, Join, mq, IInv, TypeOK
  <2> QED
    BY <2>1, Outside DEF IInv, TypeOK, Inside, Threads
<1> QED
  BY <1>1, <1>2

LEMMA ProducerIInv ==
    ASSUME IInv, TypeOK', NEW t \in Producers, Producer(t)
    PROVE  IInv'
<1> USE DEF IInv
<1>0. t \in Threads /\ t \notin Consumers
  BY ThreadsAssumption DEF Threads
<1>1. CASE Test(t, "room")
  <2>1. /\ pc[t] = "test" /\ UNCHANGED <<position, is_room, keep_running, slot, met>>
        /\ \E to \in {"room", "done"} : pc' = [pc EXCEPT ![t] = to]
    BY <1>1 DEF Test, Goto, mq
  <2> QED
    BY <1>0, <2>1, Outside DEF TypeOK, Inside, Threads
<1>2. CASE SeesRoom(t)
  <2>1. /\ is_room /\ pc[t] = "room" /\ pc' = [pc EXCEPT ![t] = "load"]
        /\ met' = (met \/ \E u \in Threads \ {t} : pc[u] \in Inside)
        /\ UNCHANGED <<position, is_room, keep_running, slot>>
    BY <1>2 DEF SeesRoom, LeaveWait, Goto, mq
  <2>2. pc'[t] = "load" /\ pc[t] \notin Inside
    BY <2>1, <1>0 DEF TypeOK, Inside
  <2>3. ~met' => ~met /\ \A u \in Threads : pc[u] \notin Inside
    BY <2>1, <2>2
  <2>4. ~met' => ProducersTurn(t)'
    BY <2>1, <2>2, <2>3, SizeAssumption DEF Alone, Between, ProducersTurn, TypeOK
  <2> QED
    BY <1>0, <2>1, <2>3, <2>4, Within DEF Inside
<1>3. CASE Load(t)
  <2>1. /\ pc[t] = "load" /\ pc' = [pc EXCEPT ![t] = "store"]
        /\ slot' = [slot EXCEPT ![t] = position]
        /\ UNCHANGED <<position, is_room, keep_running, met>>
    BY <1>3 DEF Load, Goto, mq
  <2>2. pc'[t] = "store" /\ slot'[t] = position
    BY <2>1, <1>0 DEF TypeOK, Inside
  <2>3. ~met' => ProducersTurn(t)'
    BY <2>1, <2>2 DEF Alone, ProducersTurn, Inside
  <2> QED
    BY <1>0, <2>1, <2>2, <2>3, Within DEF Inside
<1>4. CASE Increment(t)
  <2>1. /\ pc[t] = "store" /\ pc' = [pc EXCEPT ![t] = "put"]
        /\ position' = slot[t] + 1
        /\ UNCHANGED <<slot, is_room, keep_running, met>>
    BY <1>4 DEF Increment, Goto
  <2>2. pc'[t] = "put" /\ slot[t] \in Int
    BY <2>1, <1>0 DEF TypeOK, Inside
  <2>3. ~met' => ProducersTurn(t)'
    BY <2>1, <2>2, SizeAssumption DEF Alone, ProducersTurn, Inside
  <2> QED
    BY <1>0, <2>1, <2>2, <2>3, Within DEF Inside
<1>5. CASE Put(t)
  <2>1. /\ pc[t] = "put" /\ pc' = [pc EXCEPT ![t] = "check"] /\ UNCHANGED <<slot, met>>
        /\ keep_running' \in BOOLEAN /\ is_room' \in BOOLEAN /\ position' \in {0, position}
        /\ slot[t] < BUFFER_SIZE => UNCHANGED <<position, is_room>>
    BY <1>5, <1>0, SizeAssumption DEF Put, Goto, TypeOK
  <2>2. pc'[t] = "check" /\ slot[t] \in Int
    BY <2>1, <1>0 DEF TypeOK, Inside
  <2>3. ~met' => ProducersTurn(t)'
    BY <2>1, <2>2, SizeAssumption DEF Alone, ProducersTurn, Inside
  <2> QED
    BY <1>0, <2>1, <2>2, <2>3, Within DEF Inside
<1>6. CASE Check(t)
  <2> DEFINE to == IF position = BUFFER_SIZE THEN "full" ELSE "test"
  <2>1. /\ pc[t] = "check" /\ pc' = [pc EXCEPT ![t] = to]
        /\ UNCHANGED <<position, is_room, keep_running, slot, met>>
    BY <1>6 DEF Check, Goto, mq
  <2>2. pc'[t] = to
    BY <2>1, <1>0 DEF TypeOK, Inside
  <2>3. ~met => is_room /\ position \in 0 .. BUFFER_SIZE
    BY <2>1 DEF Alone, ProducersTurn, Inside
  <2>4. ~met' => ProducersTurn(t)'
    BY <2>1, <2>2, <2>3 DEF ProducersTurn, Inside
  <2>5. ~met' => (to \notin Inside => Between')
    BY <2>1, <2>3, SizeAssumption DEF Inside, Between
  <2> QED
    BY <1>0, <2>1, <2>2, <2>4, <2>5, Within DEF Inside
<1>7. CASE CloseRoom(t)
  <2>1. /\ pc[t] = "full" /\ pc' = [pc EXCEPT ![t] = "test"] /\ is_room' = FALSE
        /\ UNCHANGED <<position, keep_running, slot, met>>
    BY <1>7 DEF CloseRoom, Goto
  <2>2. pc'[t] = "test"
    BY <2>1, <1>0 DEF TypeOK, Inside
  <2>3. ~met' => ProducersTurn(t)' /\ Between'
    BY <2>1, <2>2, SizeAssumption DEF Alone, ProducersTurn, Inside, Between
  <2> QED
    BY <1>0, <2>1, <2>2, <2>3, Within DEF Inside
<1> QED
  BY <1>1, <1>2, <1>3, <1>4, <1>5, <1>6, <1>7 DEF Producer

LEMMA ConsumerIInv ==
    ASSUME IInv, TypeOK', NEW t \in Consumers, Consumer(t)
    PROVE  IInv'
<1> USE DEF IInv
<1>0. t \in Threads /\ t \notin Producers
  BY ThreadsAssumption DEF Threads
<1>1. CASE Test(t, "wait")
  <2>1. /\ pc[t] = "test" /\ UNCHANGED <<position, is_room, keep_running, slot, met>>
        /\ \E to \in {"wait", "done"} : pc' = [pc EXCEPT ![t] = to]
    BY <1>1 DEF Test, Goto, mq
  <2> QED
    BY <1>0, <2>1, Outside DEF TypeOK, Inside, Threads
<1>2. CASE SeesNothing(t)
  <2>1. /\ position = 0 /\ pc[t] = "wait" /\ pc' = [pc EXCEPT ![t] = "load"]
        /\ met' = (met \/ \E u \in Threads \ {t} : pc[u] \in Inside)
        /\ UNCHANGED <<position, is_room, keep_running, slot>>
    BY <1>2 DEF SeesNothing, LeaveWait, Goto, mq
  <2>2. pc'[t] = "load" /\ pc[t] \notin Inside
    BY <2>1, <1>0 DEF TypeOK, Inside
  <2>3. ~met' => ~met /\ \A u \in Threads : pc[u] \notin Inside
    BY <2>1, <2>2
  <2>4. ~met' => ConsumersTurn(t)'
    BY <2>1, <2>2, <2>3, SizeAssumption DEF Alone, Between, ConsumersTurn, TypeOK
  <2> QED
    BY <1>0, <2>1, <2>3, <2>4, Within DEF Inside
<1>3. CASE Load(t)
  <2>1. /\ pc[t] = "load" /\ pc' = [pc EXCEPT ![t] = "store"]
        /\ slot' = [slot EXCEPT ![t] = position]
        /\ UNCHANGED <<position, is_room, keep_running, met>>
    BY <1>3 DEF Load, Goto, mq
  <2>2. pc'[t] = "store" /\ slot'[t] = position
    BY <2>1, <1>0 DEF TypeOK, Inside
  <2>3. ~met' => ConsumersTurn(t)'
    BY <2>1, <2>2 DEF Alone, ConsumersTurn, Inside
  <2> QED
    BY <1>0, <2>1, <2>2, <2>3, Within DEF Inside
<1>4. CASE Decrement(t)
  <2>1. /\ pc[t] = "store" /\ pc' = [pc EXCEPT ![t] = "take"]
        /\ position' = slot[t] - 1
        /\ UNCHANGED <<slot, is_room, keep_running, met>>
    BY <1>4 DEF Decrement, Goto
  <2>2. pc'[t] = "take" /\ slot[t] \in Int
    BY <2>1, <1>0 DEF TypeOK, Inside
  <2>3. ~met' => ConsumersTurn(t)'
    BY <2>1, <2>2 DEF Alone, ConsumersTurn, Inside
  <2> QED
    BY <1>0, <2>1, <2>2, <2>3, Within DEF Inside
<1>5. CASE Take(t)
  <2>1. /\ pc[t] = "take" /\ pc' = [pc EXCEPT ![t] = "reopen"]
        /\ slot' = [slot EXCEPT ![t] = position]
        /\ UNCHANGED <<position, is_room, keep_running, met>>
    BY <1>5 DEF Take, Goto, mq
  <2>2. pc'[t] = "reopen" /\ slot'[t] = position
    BY <2>1, <1>0 DEF TypeOK, Inside
  <2>3. ~met' => ConsumersTurn(t)'
    BY <2>1, <2>2 DEF Alone, ConsumersTurn, Inside
  <2> QED
    BY <1>0, <2>1, <2>2, <2>3, Within DEF Inside
<1>6. CASE OpenRoom(t)
  <2>1. /\ pc[t] = "reopen" /\ pc' = [pc EXCEPT ![t] = "test"] /\ is_room' = TRUE
        /\ UNCHANGED <<position, keep_running, slot, met>>
    BY <1>6 DEF OpenRoom, Goto
  <2>2. pc'[t] = "test"
    BY <2>1, <1>0 DEF TypeOK, Inside
  <2>3. ~met' => ConsumersTurn(t)' /\ Between'
    BY <2>1, <2>2, SizeAssumption DEF Alone, ConsumersTurn, Inside, Between
  <2> QED
    BY <1>0, <2>1, <2>2, <2>3, Within DEF Inside
<1> QED
  BY <1>1, <1>2, <1>3, <1>4, <1>5, <1>6 DEF Consumer

-----------------------------------------------------------------------------
\* Without a race, nothing outside the array is used but the place below it, and
\* is_room says whether it is full.
THEOREM AloneIsSafe == Spec => []AloneKeepsBounds
<1>1. IInv /\ [Next]_vars => IInv'
  <2> SUFFICES ASSUME IInv, [Next]_vars PROVE IInv'
    OBVIOUS
  <2>0. TypeOK'
    BY NextTypeOK DEF IInv
  <2>1. CASE UNCHANGED vars
    <3>1. UNCHANGED <<position, is_room, pc, slot, met>>
      BY <2>1 DEF vars, mq
    <3> QED
      BY <2>0, <3>1, Outside DEF IInv, TypeOK, Inside, Threads
  <2> QED
    BY <2>0, <2>1, MainIInv, ProducerIInv, ConsumerIInv DEF Next
<1>2. IInv => AloneKeepsBounds
  <2> SUFFICES ASSUME IInv, ~met PROVE AloneKeepsBounds
    BY DEF AloneKeepsBounds
  <2>1. Alone /\ TypeOK
    BY DEF IInv
  <2>2. position \in -1 .. BUFFER_SIZE
    <3>1. CASE \A t \in Threads : pc[t] \notin Inside
      BY <2>1, <3>1 DEF Alone, Between
    <3>2. CASE \E t \in Threads : pc[t] \in Inside
      <4>1. PICK t \in Threads : pc[t] \in Inside
        BY <3>2
      <4>2. CASE t \in Producers
        BY <2>1, <4>1, <4>2, SizeAssumption DEF Alone, ProducersTurn, Inside, TypeOK
      <4>3. CASE t \in Consumers
        BY <2>1, <4>1, <4>3, SizeAssumption DEF Alone, ConsumersTurn, Inside, TypeOK
      <4> QED
        BY <4>2, <4>3 DEF Threads
    <3> QED
      BY <3>1, <3>2
  <2>3. (\A t \in Threads : pc[t] \notin Inside) => (is_room <=> position # BUFFER_SIZE)
    BY <2>1 DEF Alone, Between
  <2>4. \A t \in Producers : pc[t] = "put" => slot[t] \in -1 .. BUFFER_SIZE - 1
    BY <2>1, SizeAssumption DEF Alone, ProducersTurn, TypeOK
  <2>5. \A t \in Consumers : pc[t] = "reopen" => slot[t] = -1
    BY <2>1 DEF Alone, ConsumersTurn
  <2> QED
    BY <2>2, <2>3, <2>4, <2>5 DEF AloneKeepsBounds
<1> QED
  BY InitIInv, <1>1, <1>2, PTL DEF Spec
=============================================================================
