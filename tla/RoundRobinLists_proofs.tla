----------------------- MODULE RoundRobinLists_proofs -----------------------
(***************************************************************************)
(* For any number of processes, any quantum and any burst times: the       *)
(* linked lists, stale pointers and all, hold the queue of a round robin   *)
(* schedule, which is fair and loses no time.                              *)
(***************************************************************************)
EXTENDS RoundRobinLists, FiniteSetTheorems, SequenceTheorems, WellFoundedInduction, TLAPS

-----------------------------------------------------------------------------
(* Induction, over a set of naturals *)

LEMMA Least ==
    ASSUME NEW S, S \subseteq Nat, S # {}
    PROVE  \E m \in S : \A k \in S : ~(k < m)
<1> DEFINE R == OpToRel(<, Nat)
<1>1. \E x \in S : \A y \in S : ~(<<y, x>> \in R)
  <2>1. IsWellFoundedOn(R, Nat)
    BY NatLessThanWellFounded
  <2> HIDE DEF R
  <2> QED
    BY <2>1, WFMin
<1>2. ASSUME NEW x \in S, NEW y \in S PROVE y < x => <<y, x>> \in R
  BY DEF OpToRel
<1> QED
  BY <1>1, <1>2

LEMMA Induct ==
    ASSUME NEW S, 0 \in S, \A n \in Nat : n \in S => n + 1 \in S
    PROVE  Nat \subseteq S
<1> SUFFICES ASSUME ~(Nat \subseteq S) PROVE FALSE
  OBVIOUS
<1>1. PICK m \in Nat \ S : \A k \in Nat \ S : ~(k < m)
  BY Least
<1>2. m - 1 \in Nat /\ m - 1 < m
  OBVIOUS
<1>3. m - 1 \in S
  BY <1>1, <1>2
<1> QED
  BY <1>2, <1>3

-----------------------------------------------------------------------------
(* The walk along a queue *)

\* The step to the k-th node, after the walk g.
Step(q, g, k) == IF k = 1 THEN q.head
                 ELSE IF g[k - 1] = NULL THEN NULL ELSE q.nextNode[g[k - 1]]

LEMMA WalkExists ==
    ASSUME NEW q, NEW n \in Nat
    PROVE  \E g : g = [k \in 1 .. n |-> Step(q, g, k)]
<1> DEFINE S == {m \in Nat : \E g : g = [k \in 1 .. m |-> Step(q, g, k)]}
<1>1. 0 \in S
  <2> DEFINE g == [k \in 1 .. 0 |-> NULL]
  <2>1. g = [k \in 1 .. 0 |-> Step(q, g, k)]
    <3>1. 1 .. 0 = {}
      OBVIOUS
    <3> QED
      BY <3>1
  <2> HIDE DEF g
  <2> QED
    BY <2>1
<1>2. ASSUME NEW m \in Nat, m \in S PROVE m + 1 \in S
  <2>1. PICK g : g = [k \in 1 .. m |-> Step(q, g, k)]
    BY <1>2
  <2> DEFINE h == [k \in 1 .. m + 1 |-> IF k \in 1 .. m THEN g[k] ELSE Step(q, g, k)]
  <2>2. ASSUME NEW k \in 1 .. m + 1 PROVE h[k] = Step(q, h, k)
    <3>1. h[k] = Step(q, g, k)
      BY <2>1
    <3>2. k # 1 => k - 1 \in 1 .. m /\ h[k - 1] = g[k - 1]
      OBVIOUS
    <3> HIDE DEF h
    <3> QED
      BY <3>1, <3>2 DEF Step
  <2>3. h = [k \in 1 .. m + 1 |-> Step(q, h, k)]
    <3>1. h = [k \in 1 .. m + 1 |-> h[k]]
      OBVIOUS
    <3> HIDE DEF h
    <3> QED
      BY <2>2, <3>1
  <2> HIDE DEF h
  <2> QED
    BY <2>3
<1> HIDE DEF S
<1>3. n \in S
  BY <1>1, <1>2, Induct
<1> QED
  BY <1>3 DEF S

\* Nth is the walk that its recursion says.
LEMMA NthDef ==
    ASSUME NEW q
    PROVE  Nth(q) = [k \in 1 .. NumProcesses |-> Step(q, Nth(q), k)]
<1> DEFINE Walk(g) == g = [k \in 1 .. NumProcesses |-> Step(q, g, k)]
<1>1. Nth(q) = CHOOSE g : Walk(g)
  BY DEF Nth, Step
<1>2. \E g : Walk(g)
  BY WalkExists, ProcessesAssumption
<1>3. Walk(CHOOSE g : Walk(g))
  <2> HIDE DEF Walk
  <2> QED
    BY <1>2
<1> QED
  BY <1>1, <1>3

JobQueues == [head : Processes \cup {NULL}, tail : Processes \cup {NULL},
              nextNode : [Processes -> Processes \cup {NULL}]]

\* The nodes of q are those of the sequence s.  Nothing is said of where the
\* nextNode of a node that is not in the queue points, nor that of its tail.
IsList(q, s) ==
    /\ Len(s) <= NumProcesses
    /\ \A k, l \in 1 .. Len(s) : s[k] = s[l] => k = l
    /\ Len(s) = 0 => q.head = NULL /\ q.tail = NULL
    /\ Len(s) > 0 => q.head = s[1] /\ q.tail = s[Len(s)]
    /\ \A k \in 1 .. Len(s) - 1 : q.nextNode[s[k]] = s[k + 1]

LEMMA NthIs ==
    ASSUME NEW q, NEW s \in Seq(Processes), IsList(q, s)
    PROVE  \A k \in 1 .. Len(s) : k \in 1 .. NumProcesses /\ Nth(q)[k] = s[k]
<1> DEFINE S == {m \in Nat : m + 1 \in 1 .. Len(s) => Nth(q)[m + 1] = s[m + 1]}
<1>0. \A k \in 1 .. Len(s) : k \in 1 .. NumProcesses
  BY ProcessesAssumption DEF IsList
<1>1. 0 \in S
  <2> SUFFICES ASSUME 1 \in 1 .. Len(s) PROVE Nth(q)[1] = s[1]
    OBVIOUS
  <2>1. Nth(q)[1] = Step(q, Nth(q), 1)
    BY <1>0, NthDef
  <2> QED
    BY <2>1 DEF Step, IsList
<1>2. ASSUME NEW m \in Nat, m \in S PROVE m + 1 \in S
  <2> SUFFICES ASSUME m + 2 \in 1 .. Len(s) PROVE Nth(q)[m + 2] = s[m + 2]
    OBVIOUS
  <2>1. Nth(q)[m + 1] = s[m + 1] /\ m + 1 \in 1 .. Len(s) - 1 /\ m + 1 \in 1 .. Len(s)
    BY <1>2
  <2>2. s[m + 1] \in Processes
    BY <2>1
  <2>3. Nth(q)[m + 2] = Step(q, Nth(q), m + 2)
    BY <1>0, NthDef
  <2>4. Step(q, Nth(q), m + 2) = q.nextNode[s[m + 1]]
    BY <2>1, <2>2 DEF Step, Processes, NULL
  <2> QED
    BY <2>1, <2>3, <2>4 DEF IsList
<1> HIDE DEF S
<1>3. Nat \subseteq S
  BY <1>1, <1>2, Induct
<1>4. ASSUME NEW k \in 1 .. Len(s) PROVE Nth(q)[k] = s[k]
  <2>1. k - 1 \in S /\ (k - 1) + 1 = k
    BY <1>3
  <2> QED
    BY <2>1 DEF S
<1> QED
  BY <1>0, <1>4

\* The walk stops at the tail.
LEMMA NodesIs ==
    ASSUME NEW q, NEW s \in Seq(Processes), IsList(q, s)
    PROVE  Nodes(q) = s
<1>1. CASE Len(s) = 0
  BY <1>1 DEF Nodes, IsList
<1>2. CASE Len(s) # 0
  <2> DEFINE ends == {k \in 1 .. NumProcesses : Nth(q)[k] = q.tail}
  <2>1. \A k \in 1 .. Len(s) : k \in 1 .. NumProcesses /\ Nth(q)[k] = s[k]
    BY NthIs
  <2>2. /\ Len(s) \in 1 .. Len(s) /\ q.head = s[1] /\ q.tail = s[Len(s)]
        /\ \A k \in 1 .. Len(s) : s[k] \in Processes
    BY <1>2 DEF IsList
  <2>3. Len(s) \in ends /\ \A k \in ends : Len(s) <= k
    <3>1. Len(s) \in ends
      BY <2>1, <2>2
    <3>2. ASSUME NEW k \in ends, k < Len(s) PROVE FALSE
      <4>1. k \in 1 .. Len(s) /\ s[k] = s[Len(s)]
        BY <3>2, <2>1, <2>2
      <4> QED
        BY <4>1, <2>2, <3>2 DEF IsList
    <3> QED
      BY <3>1, <3>2
  <2>4. ends \subseteq Nat
    BY ProcessesAssumption
  <2>5. q.head # NULL
    BY <2>2 DEF Processes, NULL
  <2> DEFINE length == IF ends = {} THEN NumProcesses
                       ELSE CHOOSE k \in ends : \A l \in ends : k <= l
  <2>6. Nodes(q) = [k \in 1 .. length |-> Nth(q)[k]]
    BY <2>5 DEF Nodes
  <2> HIDE DEF ends
  <2>7. length = Len(s)
    <3>1. length \in ends /\ \A l \in ends : length <= l
      BY <2>3
    <3> HIDE DEF length
    <3> QED
      BY <2>3, <2>4, <3>1
  <2> HIDE DEF length
  <2>8. Nodes(q) = [k \in 1 .. Len(s) |-> s[k]]
    BY <2>1, <2>6, <2>7
  <2> QED
    BY <2>8
<1> QED
  BY <1>1, <1>2

-----------------------------------------------------------------------------
(* The functions on the job queue *)

\* A node that is not in the queue is its last when it has been inserted.
LEMMA Inserting ==
    ASSUME NEW q \in JobQueues, NEW s \in Seq(Processes), IsList(q, s),
           NEW p \in Processes, \A k \in 1 .. Len(s) : s[k] # p, Len(s) < NumProcesses
    PROVE  /\ insertNodeToJobQueue(q, p) \in JobQueues
           /\ IsList(insertNodeToJobQueue(q, p), Append(s, p))
<1> DEFINE r == insertNodeToJobQueue(q, p)
           t == Append(s, p)
<1>1. /\ t \in Seq(Processes) /\ Len(t) = Len(s) + 1 /\ t[Len(s) + 1] = p
      /\ \A k \in 1 .. Len(s) : t[k] = s[k]
  OBVIOUS
<1>2. \A k \in 1 .. Len(s) : s[k] \in Processes
  OBVIOUS
<1>3. CASE Len(s) = 0
  <2>1. r = [q EXCEPT !.head = p, !.tail = p]
    BY <1>3 DEF IsList, insertNodeToJobQueue
  <2>2. r \in JobQueues /\ r.head = p /\ r.tail = p
    BY <2>1 DEF JobQueues
  <2>3. Len(t) = 1 /\ Len(t) <= NumProcesses /\ t[1] = p /\ t[Len(t)] = p
    BY <1>1, <1>3, ProcessesAssumption
  <2> HIDE DEF r, t
  <2>4. IsList(r, t)
    BY <2>2, <2>3 DEF IsList
  <2> QED
    BY <2>2, <2>4 DEF r, t
<1>4. CASE Len(s) # 0
  <2>1. Len(s) \in 1 .. Len(s) /\ q.tail = s[Len(s)] /\ q.tail \in Processes /\ q.head = s[1]
    BY <1>4 DEF IsList
  <2>2. r = [q EXCEPT !.nextNode[q.tail] = p, !.tail = p]
    BY <2>1 DEF insertNodeToJobQueue, Processes, NULL
  <2>3. /\ r \in JobQueues /\ r.head = q.head /\ r.tail = p
        /\ r.nextNode = [q.nextNode EXCEPT ![q.tail] = p]
    BY <2>1, <2>2 DEF JobQueues
  <2>4. ASSUME NEW k \in 1 .. Len(t) - 1 PROVE r.nextNode[t[k]] = t[k + 1]
    <3>1. k \in 1 .. Len(s) /\ t[k] = s[k]
      BY <1>1
    <3>2. CASE k = Len(s)
      BY <3>1, <3>2, <2>1, <2>3, <1>1 DEF JobQueues
    <3>3. CASE k # Len(s)
      <4>1. s[k] # q.tail /\ k \in 1 .. Len(s) - 1 /\ k + 1 \in 1 .. Len(s)
        BY <3>1, <3>3, <2>1 DEF IsList
      <4>2. q.nextNode[s[k]] = s[k + 1]
        BY <4>1 DEF IsList
      <4> QED
        BY <3>1, <4>1, <4>2, <2>1, <2>3, <1>1, <1>2 DEF JobQueues
    <3> QED
      BY <3>2, <3>3
  <2>5. \A k, l \in 1 .. Len(t) : t[k] = t[l] => k = l
    BY <1>1 DEF IsList
  <2>6. Len(t) <= NumProcesses /\ Len(t) > 0 /\ t[1] = s[1]
    BY <1>1, <2>1, ProcessesAssumption
  <2> QED
    BY <2>1, <2>3, <2>4, <2>5, <2>6, <1>1 DEF IsList
<1> QED
  BY <1>3, <1>4

\* The head is taken and the others remain.
LEMMA Removing ==
    ASSUME NEW q \in JobQueues, NEW s \in Seq(Processes), IsList(q, s), Len(s) > 0
    PROVE  /\ removeJobQueueHeadNode(q) \in JobQueues
           /\ IsList(removeJobQueueHeadNode(q), Tail(s))
<1> DEFINE r == removeJobQueueHeadNode(q)
           t == Tail(s)
<1>1. /\ t \in Seq(Processes) /\ Len(t) = Len(s) - 1
      /\ \A k \in 1 .. Len(t) : t[k] = s[k + 1]
  OBVIOUS
<1>2. /\ \A k \in 1 .. Len(s) : s[k] \in Processes
      /\ 1 \in 1 .. Len(s) /\ Len(s) \in 1 .. Len(s)
      /\ q.head = s[1] /\ q.tail = s[Len(s)]
  BY DEF IsList
<1>3. q.head = q.tail <=> Len(s) = 1
  BY <1>2 DEF IsList
<1>4. Len(t) <= NumProcesses /\ \A k, l \in 1 .. Len(t) : t[k] = t[l] => k = l
  BY <1>1, ProcessesAssumption DEF IsList
<1>5. CASE Len(s) = 1
  <2>1. r \in JobQueues /\ r.head = NULL /\ r.tail = NULL
    BY <1>3, <1>5 DEF removeJobQueueHeadNode, JobQueues
  <2>2. Len(t) = 0
    BY <1>1, <1>5
  <2> HIDE DEF r, t
  <2>3. IsList(r, t)
    BY <2>1, <2>2, <1>4 DEF IsList
  <2> QED
    BY <2>1, <2>3 DEF r, t
<1>6. CASE Len(s) # 1
  <2>1. q.nextNode[s[1]] = s[2] /\ s[2] \in Processes
    <3>1. 1 \in 1 .. Len(s) - 1 /\ 2 \in 1 .. Len(s) /\ 1 + 1 = 2
      <4> DEFINE n == Len(s)
      <4>1. n \in Nat /\ n > 0 /\ n # 1
        BY <1>6, LenProperties
      <4> HIDE DEF n
      <4>2. 1 \in 1 .. n - 1 /\ 2 \in 1 .. n
        BY <4>1
      <4> QED
        BY <4>2 DEF n
    <3>2. q.nextNode[s[1]] = s[1 + 1]
      BY <3>1 DEF IsList
    <3> QED
      BY <1>2, <3>1, <3>2
  <2>2. /\ r \in JobQueues /\ r.head = s[2] /\ r.tail = s[Len(s)]
        /\ r.nextNode = q.nextNode
    BY <1>2, <1>3, <1>6, <2>1 DEF removeJobQueueHeadNode, JobQueues
  <2>3. ASSUME NEW k \in 1 .. Len(t) - 1 PROVE r.nextNode[t[k]] = t[k + 1]
    <3>1. k + 1 \in 1 .. Len(s) - 1 /\ t[k] = s[k + 1] /\ t[k + 1] = s[k + 1 + 1]
      BY <1>1
    <3> QED
      BY <3>1, <2>2 DEF IsList
  <2>4. Len(t) > 0 /\ t[1] = s[2] /\ t[Len(t)] = s[Len(s)]
    BY <1>1, <1>6, <1>2
  <2> QED
    BY <2>2, <2>3, <2>4, <1>4 DEF IsList
<1> QED
  BY <1>5, <1>6

-----------------------------------------------------------------------------
(* Turns and time *)

\* The turns and the time of a process in the schedule s.
TurnsIn(s, p) == Cardinality({k \in DOMAIN s : s[k][1] = p})
TimeIn(s, p) == Cardinality({unit \in (DOMAIN s) \X (1 .. quantum) :
                                 s[unit[1]][1] = p /\ unit[2] <= s[unit[1]][2]})

\* A process has one turn more when its turn is appended.
LEMMA TurnsAppend ==
    ASSUME NEW r \in Seq(Processes \X (0 .. quantum)),
           NEW turn \in Processes \X (0 .. quantum), NEW p
    PROVE  /\ TurnsIn(r, p) \in Nat
           /\ TurnsIn(Append(r, turn), p) = TurnsIn(r, p) + IF turn[1] = p THEN 1 ELSE 0
<1> DEFINE A(s) == {k \in DOMAIN s : s[k][1] = p}
           n == Len(r) + 1
           r1 == Append(r, turn)
<1>1. /\ DOMAIN r = 1 .. Len(r) /\ Len(r) \in Nat /\ DOMAIN r1 = DOMAIN r \cup {n}
      /\ r1[n] = turn /\ n \notin DOMAIN r /\ \A k \in DOMAIN r : r1[k] = r[k]
  OBVIOUS
<1>2. IsFiniteSet(A(r))
  <2>1. IsFiniteSet(1 .. Len(r)) /\ A(r) \subseteq 1 .. Len(r)
    BY <1>1, FS_Interval
  <2> QED
    BY <2>1, FS_Subset
<1>3. Cardinality(A(r)) \in Nat
  BY <1>2, FS_CardinalityType
<1> HIDE DEF r1, n
<1>4. CASE turn[1] = p
  <2>1. A(r1) = A(r) \cup {n} /\ n \notin A(r)
    BY <1>1, <1>4
  <2> HIDE DEF A
  <2>2. Cardinality(A(r1)) = Cardinality(A(r)) + 1
    BY <2>1, <1>2, FS_AddElement
  <2>3. Cardinality(A(r1)) = Cardinality(A(r)) + IF turn[1] = p THEN 1 ELSE 0
    BY <1>4, <2>2
  <2> QED
    BY <1>3, <2>3 DEF A, r1, TurnsIn
<1>5. CASE turn[1] # p
  <2>1. A(r1) = A(r)
    BY <1>1, <1>5
  <2> HIDE DEF A
  <2>2. Cardinality(A(r1)) = Cardinality(A(r)) + IF turn[1] = p THEN 1 ELSE 0
    BY <1>3, <1>5, <2>1
  <2> QED
    BY <1>3, <2>2 DEF A, r1, TurnsIn
<1> QED
  BY <1>4, <1>5

\* And its time is longer by that of the turn.
LEMMA TimeAppend ==
    ASSUME NEW r \in Seq(Processes \X (0 .. quantum)),
           NEW turn \in Processes \X (0 .. quantum), NEW p
    PROVE  /\ TimeIn(r, p) \in Nat
           /\ TimeIn(Append(r, turn), p) = TimeIn(r, p) + IF turn[1] = p THEN turn[2] ELSE 0
<1> DEFINE A(s) == {unit \in (DOMAIN s) \X (1 .. quantum) :
                        s[unit[1]][1] = p /\ unit[2] <= s[unit[1]][2]}
           n == Len(r) + 1
           r1 == Append(r, turn)
<1>1. /\ DOMAIN r = 1 .. Len(r) /\ Len(r) \in Nat /\ DOMAIN r1 = DOMAIN r \cup {n}
      /\ r1[n] = turn /\ n \notin DOMAIN r /\ \A k \in DOMAIN r : r1[k] = r[k]
  OBVIOUS
<1>2. IsFiniteSet(A(r))
  <2>1. IsFiniteSet(1 .. Len(r)) /\ IsFiniteSet(1 .. quantum)
    BY <1>1, FS_Interval, QuantumAssumption
  <2>2. IsFiniteSet((1 .. Len(r)) \X (1 .. quantum)) /\ A(r) \subseteq (1 .. Len(r)) \X (1 .. quantum)
    BY <2>1, <1>1, FS_Product
  <2> QED
    BY <2>2, FS_Subset
<1>3. Cardinality(A(r)) \in Nat
  BY <1>2, FS_CardinalityType
<1>4. turn[2] \in Nat /\ turn[2] <= quantum
  BY QuantumAssumption
<1> HIDE DEF r1, n
<1>5. CASE turn[1] = p
  <2> DEFINE new == {n} \X (1 .. turn[2])
  <2>1. A(r1) = A(r) \cup new /\ A(r) \cap new = {}
    <3>1. ASSUME NEW unit \in (DOMAIN r1) \X (1 .. quantum)
          PROVE  unit \in A(r1) <=> unit \in A(r) \/ unit \in new
      <4>1. CASE unit[1] = n
        BY <4>1, <1>1, <1>4, <1>5, QuantumAssumption
      <4>2. CASE unit[1] # n
        BY <4>2, <1>1
      <4> QED
        BY <4>1, <4>2
    <3>2. new \subseteq (DOMAIN r1) \X (1 .. quantum)
      BY <1>1, <1>4, QuantumAssumption
    <3>3. A(r) \subseteq (DOMAIN r1) \X (1 .. quantum)
      BY <1>1
    <3>4. A(r1) \subseteq (DOMAIN r1) \X (1 .. quantum)
      OBVIOUS
    <3>5. A(r) \cap new = {}
      BY <1>1
    <3> QED
      BY <3>1, <3>2, <3>3, <3>4, <3>5
  <2>2. IsFiniteSet(new) /\ Cardinality(new) = turn[2]
    <3>1. IsFiniteSet(1 .. turn[2]) /\ Cardinality(1 .. turn[2]) = turn[2]
      BY <1>4, FS_Interval
    <3>2. IsFiniteSet({n}) /\ Cardinality({n}) = 1
      BY FS_Singleton
    <3>3. IsFiniteSet(new) /\ Cardinality(new) = 1 * turn[2]
      BY <3>1, <3>2, FS_Product
    <3> QED
      BY <3>3, <1>4
  <2> HIDE DEF A, new
  <2>3. Cardinality(A(r1)) = Cardinality(A(r)) + Cardinality(new) - Cardinality({})
    <3>1. Cardinality(A(r) \cup new)
              = Cardinality(A(r)) + Cardinality(new) - Cardinality(A(r) \cap new)
      BY <2>2, <1>2, FS_Union
    <3> QED
      BY <3>1, <2>1
  <2>4. Cardinality(A(r1)) = Cardinality(A(r)) + IF turn[1] = p THEN turn[2] ELSE 0
    BY <1>3, <1>4, <1>5, <2>2, <2>3, FS_EmptySet
  <2> QED
    BY <1>3, <2>4 DEF A, r1, TimeIn
<1>6. CASE turn[1] # p
  <2>1. A(r1) = A(r)
    BY <1>1, <1>6
  <2> HIDE DEF A
  <2>2. Cardinality(A(r1)) = Cardinality(A(r)) + IF turn[1] = p THEN turn[2] ELSE 0
    BY <1>3, <1>6, <2>1
  <2> QED
    BY <1>3, <2>2 DEF A, r1, TimeIn
<1> QED
  BY <1>5, <1>6

-----------------------------------------------------------------------------
(* The strengthening *)

\* Who is further ahead in the queue has had as many turns, or one less.
InTurn(s) ==
    \A k, l \in 1 .. Len(s) : k < l => Turns(s[l]) - Turns(s[k]) \in {0, 1}

\* The linked nodes are those of a sequence without repetitions; while main makes
\* them, just those it has made; the ones in the queue want no negative time.
IInv ==
    /\ TypeOK
    /\ Queue \in Seq(Processes) /\ IsList(jobs, Queue)
    /\ pc = "make" => /\ ready = <<>> /\ made < NumProcesses /\ Len(Queue) = made
                      /\ \A k \in 1 .. Len(Queue) : Queue[k] <= made
    /\ \A k \in 1 .. Len(Queue) : burst[Queue[k]] >= 0
    /\ InTurn(Queue)

LEMMA InitIInv == Init => IInv /\ Queue = <<>>
<1> SUFFICES ASSUME Init PROVE IInv /\ Queue = <<>>
  OBVIOUS
<1>1. TypeOK
  BY ProcessesAssumption, QuantumAssumption DEF Init, TypeOK, NULL
<1>2. Queue = <<>>
  BY DEF Init, Queue, Nodes
<1>3. IsList(jobs, <<>>)
  BY ProcessesAssumption DEF Init, IsList
<1>4. \A k : ~(k \in 1 .. Len(<<>>))
  OBVIOUS
<1> QED
  BY <1>1, <1>2, <1>3, <1>4, ProcessesAssumption DEF IInv, Init, InTurn

\* The new process is last.
LEMMA MakeQueue ==
    ASSUME IInv, MakeProcess
    PROVE  /\ made + 1 \in Processes /\ jobs' \in JobQueues
           /\ \A k \in 1 .. Len(Queue) : Queue[k] # made + 1
           /\ Queue' = Append(Queue, made + 1) /\ IsList(jobs', Queue')
<1>1. /\ pc = "make" /\ made < NumProcesses /\ Len(Queue) = made
      /\ \A k \in 1 .. Len(Queue) : Queue[k] <= made
      /\ Queue \in Seq(Processes) /\ IsList(jobs, Queue) /\ jobs \in JobQueues
      /\ made \in Nat /\ jobs' = insertNodeToJobQueue(jobs, made + 1)
  BY DEF IInv, MakeProcess, TypeOK, JobQueues
<1>2. made + 1 \in Processes
  BY <1>1, ProcessesAssumption DEF Processes
<1>3. \A k \in 1 .. Len(Queue) : Queue[k] # made + 1
  <2>1. \A k \in 1 .. Len(Queue) : Queue[k] \in Processes
    BY <1>1
  <2>2. \A k \in 1 .. Len(Queue) : Queue[k] \in Int
    BY <2>1 DEF Processes
  <2> QED
    BY <1>1, <2>2
<1>4. jobs' \in JobQueues /\ IsList(jobs', Append(Queue, made + 1))
  BY <1>1, <1>2, <1>3, Inserting
<1>5. Nodes(jobs') = Append(Queue, made + 1)
  <2>1. Append(Queue, made + 1) \in Seq(Processes)
    BY <1>1, <1>2
  <2> QED
    BY <2>1, <1>4, NodesIs
<1> QED
  BY <1>2, <1>3, <1>4, <1>5 DEF Queue

\* The head is taken, and is last if it wants more.
LEMMA ScheduleQueue ==
    ASSUME IInv, Schedule, NEW p, p = jobs.head
    PROVE  /\ p \in Processes /\ Len(Queue) > 0 /\ Queue[1] = p /\ burst[p] \in Nat
           /\ jobs' \in JobQueues
           /\ Queue' = IF burst[p] > quantum THEN Append(Tail(Queue), p) ELSE Tail(Queue)
           /\ IsList(jobs', Queue')
           /\ burst' = [burst EXCEPT ![p] = burst[p] - quantum]
           /\ ready' = Append(ready, <<p, IF burst[p] > quantum THEN quantum ELSE burst[p]>>)
           /\ <<p, IF burst[p] > quantum THEN quantum ELSE burst[p]>>
                  \in Processes \X (0 .. quantum)
<1> DEFINE others == removeJobQueueHeadNode(jobs)
<1>1. /\ pc = "schedule" /\ p # NULL /\ jobs \in JobQueues
      /\ Queue \in Seq(Processes) /\ IsList(jobs, Queue)
      /\ \A k \in 1 .. Len(Queue) : burst[Queue[k]] >= 0
  BY DEF IInv, Schedule, TypeOK, JobQueues
<1>2. Len(Queue) > 0 /\ Queue[1] = p /\ p \in Processes
  BY <1>1 DEF IsList
<1>3. burst \in [Processes -> Int] /\ burst[p] \in Nat
  <2>1. burst \in [Processes -> Int]
    BY DEF IInv, TypeOK
  <2>2. 1 \in 1 .. Len(Queue)
    BY <1>1, <1>2
  <2> QED
    BY <2>1, <2>2, <1>1, <1>2
<1>4. /\ ready' = Append(ready, <<p, Slice(burst[p])>>)
      /\ burst' = [burst EXCEPT ![p] = burst[p] - quantum]
      /\ jobs' = IF burst[p] - quantum > 0 THEN insertNodeToJobQueue(others, p) ELSE others
  BY DEF Schedule, Rest, insertNodeToReadyQueue
<1>5. Slice(burst[p]) = IF burst[p] > quantum THEN quantum ELSE burst[p]
  BY <1>3, QuantumAssumption DEF Slice
<1>6. burst[p] - quantum > 0 <=> burst[p] > quantum
  BY <1>3, QuantumAssumption
<1>7. others \in JobQueues /\ IsList(others, Tail(Queue))
  BY <1>1, <1>2, Removing
<1>8. /\ Tail(Queue) \in Seq(Processes) /\ Len(Tail(Queue)) = Len(Queue) - 1
      /\ \A k \in 1 .. Len(Tail(Queue)) : k + 1 \in 1 .. Len(Queue) /\ Tail(Queue)[k] = Queue[k + 1]
  BY <1>1, <1>2
<1> HIDE DEF others
<1>9. \A k \in 1 .. Len(Tail(Queue)) : Tail(Queue)[k] # p
  BY <1>1, <1>2, <1>8 DEF IsList
<1>10. Len(Tail(Queue)) < NumProcesses
  BY <1>1, <1>2, <1>8, ProcessesAssumption DEF IsList
<1>11. /\ jobs' \in JobQueues
       /\ IsList(jobs', IF burst[p] > quantum THEN Append(Tail(Queue), p) ELSE Tail(Queue))
  BY <1>2, <1>4, <1>6, <1>7, <1>8, <1>9, <1>10, Inserting
<1>12. Nodes(jobs') = IF burst[p] > quantum THEN Append(Tail(Queue), p) ELSE Tail(Queue)
  <2>1. (IF burst[p] > quantum THEN Append(Tail(Queue), p) ELSE Tail(Queue)) \in Seq(Processes)
    BY <1>2, <1>8
  <2> QED
    BY <2>1, <1>11, NodesIs
<1>13. <<p, Slice(burst[p])>> \in Processes \X (0 .. quantum)
  BY <1>2, <1>3, <1>5, QuantumAssumption
<1> QED
  BY <1>2, <1>3, <1>4, <1>5, <1>11, <1>12, <1>13 DEF Queue

LEMMA HeadAndTail ==
    ASSUME NEW q, NEW s \in Seq(Processes), IsList(q, s)
    PROVE  /\ q.head = NULL <=> q.tail = NULL
           /\ q.head = NULL <=> Len(s) = 0
<1>1. CASE Len(s) = 0
  BY <1>1 DEF IsList
<1>2. CASE Len(s) # 0
  <2>1. Len(s) > 0 /\ s[1] \in Processes /\ s[Len(s)] \in Processes
    BY <1>2
  <2> QED
    BY <1>2, <2>1 DEF IsList, Processes, NULL
<1> QED
  BY <1>1, <1>2

LEMMA MakeIInv == IInv /\ MakeProcess => IInv'
<1> SUFFICES ASSUME IInv, MakeProcess PROVE IInv'
  OBVIOUS
<1>1. /\ made + 1 \in Processes /\ jobs' \in JobQueues
      /\ \A k \in 1 .. Len(Queue) : Queue[k] # made + 1
      /\ Queue' = Append(Queue, made + 1) /\ IsList(jobs', Queue')
  BY MakeQueue
<1>2. /\ pc = "make" /\ made' = made + 1 /\ ready' = ready /\ ready = <<>>
      /\ pc' = IF made + 1 = NumProcesses THEN "schedule" ELSE "make"
      /\ made \in Nat /\ made < NumProcesses /\ Len(Queue) = made
      /\ Queue \in Seq(Processes) /\ \A k \in 1 .. Len(Queue) : Queue[k] <= made
  BY DEF MakeProcess, IInv, TypeOK
<1>3. PICK b \in Bursts : burst' = [burst EXCEPT ![made + 1] = b]
  BY DEF MakeProcess
<1>4. /\ Queue' \in Seq(Processes) /\ Len(Queue') = Len(Queue) + 1
      /\ Queue'[Len(Queue) + 1] = made + 1
      /\ \A k \in 1 .. Len(Queue) : Queue'[k] = Queue[k] /\ Queue[k] \in Processes
  BY <1>1, <1>2
<1>5. TypeOK'
  <2>1. burst' \in [Processes -> Int]
    BY <1>1, <1>3, BurstsAssumption DEF IInv, TypeOK
  <2>2. jobs'.head = NULL <=> jobs'.tail = NULL
    BY <1>1, <1>4, HeadAndTail
  <2>3. made' \in 0 .. NumProcesses
    BY <1>2, ProcessesAssumption
  <2>4. ready' \in Seq(Processes \X (0 .. quantum))
    BY <1>2 DEF IInv, TypeOK
  <2>5. pc' \in {"make", "schedule", "done"}
    BY <1>2
  <2> QED
    BY <1>1, <2>1, <2>2, <2>3, <2>4, <2>5 DEF TypeOK, JobQueues
<1>6. pc' = "make" => /\ ready' = <<>> /\ made' < NumProcesses /\ Len(Queue') = made'
                      /\ \A k \in 1 .. Len(Queue') : Queue'[k] <= made'
  <2>1. pc' = "make" => made' < NumProcesses
    BY <1>2, ProcessesAssumption
  <2>2. \A k \in 1 .. Len(Queue) : Queue[k] \in Int
    BY <1>4 DEF Processes
  <2>3. \A k \in 1 .. Len(Queue') : Queue'[k] <= made'
    BY <2>2, <1>2, <1>4
  <2> QED
    BY <2>1, <2>3, <1>2, <1>4
<1>7. \A k \in 1 .. Len(Queue') : burst'[Queue'[k]] >= 0
  <2> SUFFICES ASSUME NEW k \in 1 .. Len(Queue') PROVE burst'[Queue'[k]] >= 0
    OBVIOUS
  <2>0. burst \in [Processes -> Int] /\ b >= 0
    BY BurstsAssumption DEF IInv, TypeOK
  <2>1. CASE k = Len(Queue) + 1
    BY <2>0, <2>1, <1>1, <1>3, <1>4
  <2>2. CASE k # Len(Queue) + 1
    <3>1. k \in 1 .. Len(Queue)
      BY <2>2, <1>2, <1>4
    <3>2. burst'[Queue[k]] = burst[Queue[k]]
      BY <3>1, <2>0, <1>1, <1>3, <1>4
    <3> QED
      BY <3>1, <3>2, <1>4 DEF IInv
  <2> QED
    BY <2>1, <2>2
<1>8. InTurn(Queue)'
  <2>1. \A p : Turns(p)' = 0
    <3>1. \A p : {k \in DOMAIN ready' : ready'[k][1] = p} = {}
      BY <1>2
    <3> QED
      BY <3>1, FS_EmptySet DEF Turns
  <2> QED
    BY <2>1 DEF InTurn
<1> QED
  BY <1>1, <1>4, <1>5, <1>6, <1>7, <1>8 DEF IInv

LEMMA ScheduleIInv == IInv /\ Schedule => IInv'
<1> SUFFICES ASSUME IInv, Schedule PROVE IInv'
  OBVIOUS
<1> DEFINE p == jobs.head
           t == Tail(Queue)
           slice == IF burst[p] > quantum THEN quantum ELSE burst[p]
<1>1. /\ p \in Processes /\ Len(Queue) > 0 /\ Queue[1] = p /\ burst[p] \in Nat
      /\ jobs' \in JobQueues
      /\ Queue' = IF burst[p] > quantum THEN Append(t, p) ELSE t
      /\ IsList(jobs', Queue')
      /\ burst' = [burst EXCEPT ![p] = burst[p] - quantum]
      /\ ready' = Append(ready, <<p, slice>>)
      /\ <<p, slice>> \in Processes \X (0 .. quantum)
  BY ScheduleQueue
<1>2. /\ pc = "schedule" /\ UNCHANGED <<made, pc>>
      /\ Queue \in Seq(Processes) /\ IsList(jobs, Queue)
      /\ \A k \in 1 .. Len(Queue) : burst[Queue[k]] >= 0 /\ Queue[k] \in Processes
      /\ burst \in [Processes -> Int] /\ ready \in Seq(Processes \X (0 .. quantum))
  BY DEF Schedule, IInv, TypeOK
<1> HIDE DEF p, slice
<1>3. /\ t \in Seq(Processes) /\ Len(t) = Len(Queue) - 1
      /\ \A k \in 1 .. Len(t) : k + 1 \in 1 .. Len(Queue) /\ t[k] = Queue[k + 1]
  BY <1>1, <1>2
<1>4. 1 \in 1 .. Len(Queue) /\ \A k \in 1 .. Len(t) : t[k] # p /\ t[k] \in Processes
  <2>1. 1 \in 1 .. Len(Queue)
    BY <1>1, <1>2
  <2>2. \A k \in 1 .. Len(t) : t[k] # Queue[1] /\ t[k] \in Processes
    BY <2>1, <1>2, <1>3 DEF IsList
  <2> QED
    BY <2>1, <2>2, <1>1
<1> HIDE DEF t
\* A process in the queue is one of the others or the one that was the head.
<1>5. /\ Queue' \in Seq(Processes)
      /\ \A k \in 1 .. Len(Queue') :
            \/ k \in 1 .. Len(t) /\ Queue'[k] = t[k]
            \/ k = Len(t) + 1 /\ Queue'[k] = p /\ burst[p] > quantum
  BY <1>1, <1>3
<1>6. TypeOK'
  <2>1. burst' \in [Processes -> Int]
    BY <1>1, <1>2, QuantumAssumption
  <2>2. jobs'.head = NULL <=> jobs'.tail = NULL
    BY <1>1, <1>5, HeadAndTail
  <2>3. ready' \in Seq(Processes \X (0 .. quantum))
    BY <1>1, <1>2
  <2> QED
    BY <1>1, <1>2, <2>1, <2>2, <2>3 DEF TypeOK, JobQueues, IInv
<1>7. \A k \in 1 .. Len(Queue') : burst'[Queue'[k]] >= 0
  <2> SUFFICES ASSUME NEW k \in 1 .. Len(Queue') PROVE burst'[Queue'[k]] >= 0
    OBVIOUS
  <2>1. CASE k \in 1 .. Len(t) /\ Queue'[k] = t[k]
    <3>1. burst'[t[k]] = burst[t[k]]
      BY <2>1, <1>1, <1>2, <1>4
    <3> QED
      BY <2>1, <3>1, <1>2, <1>3
  <2>2. CASE Queue'[k] = p /\ burst[p] > quantum
    BY <2>2, <1>1, <1>2, QuantumAssumption
  <2> QED
    BY <2>1, <2>2, <1>5
<1>8. InTurn(Queue)'
  <2> DEFINE after(q) == TurnsIn(ready', q)
  <2>1. \A q : Turns(q) \in Nat /\ after(q) = Turns(q) + IF p = q THEN 1 ELSE 0
    <3> SUFFICES ASSUME NEW q
                 PROVE  Turns(q) \in Nat /\ after(q) = Turns(q) + IF p = q THEN 1 ELSE 0
      OBVIOUS
    <3> DEFINE turn == <<p, slice>>
    <3>1. turn[1] = p /\ turn \in Processes \X (0 .. quantum) /\ ready' = Append(ready, turn)
      BY <1>1
    <3> HIDE DEF turn
    <3>2. Turns(q) = TurnsIn(ready, q)
      BY DEF Turns, TurnsIn
    <3>3. /\ TurnsIn(ready, q) \in Nat
          /\ TurnsIn(Append(ready, turn), q)
                = TurnsIn(ready, q) + IF turn[1] = q THEN 1 ELSE 0
      BY <3>1, <1>2, TurnsAppend
    <3> DEFINE had == TurnsIn(ready, q)
    <3>4. Turns(q) = had /\ after(q) = TurnsIn(Append(ready, turn), q) /\ had \in Nat
      BY <3>1, <3>2, <3>3
    <3>5. TurnsIn(Append(ready, turn), q) = had + IF turn[1] = q THEN 1 ELSE 0
      BY <3>3
    <3> HIDE DEF had, after
    <3> QED
      BY <3>1, <3>4, <3>5
  <2>2. InTurn(Queue)' <=>
            \A k, l \in 1 .. Len(Queue') :
                k < l => after(Queue'[l]) - after(Queue'[k]) \in {0, 1}
    BY DEF InTurn, Turns, TurnsIn
  <2> HIDE DEF after
  <2> SUFFICES ASSUME NEW k \in 1 .. Len(Queue'), NEW l \in 1 .. Len(Queue'), k < l
               PROVE  after(Queue'[l]) - after(Queue'[k]) \in {0, 1}
    BY <2>2
  <2>3. k \in 1 .. Len(t) /\ Queue'[k] = t[k] /\ t[k] # p /\ t[k] = Queue[k + 1]
        /\ k + 1 \in 1 .. Len(Queue)
    <3>1. k # Len(t) + 1
      <4>1. l <= Len(t) + 1 /\ Len(t) \in Nat /\ k \in Nat /\ l \in Nat
        BY <1>3, <1>5
      <4> QED
        BY <4>1
    <3> QED
      BY <3>1, <1>3, <1>4, <1>5
  <2>4. after(Queue'[k]) = Turns(Queue[k + 1])
    BY <2>1, <2>3
  <2>5. CASE l \in 1 .. Len(t) /\ Queue'[l] = t[l]
    <3>1. t[l] # p /\ t[l] = Queue[l + 1] /\ l + 1 \in 1 .. Len(Queue) /\ k + 1 < l + 1
      BY <2>5, <1>3, <1>4
    <3>2. after(Queue'[l]) = Turns(Queue[l + 1])
      BY <2>1, <2>5, <3>1
    <3>3. Turns(Queue[l + 1]) - Turns(Queue[k + 1]) \in {0, 1}
      BY <2>3, <3>1 DEF IInv, InTurn
    <3> QED
      BY <2>4, <3>2, <3>3
  <2>6. CASE Queue'[l] = p
    <3>1. after(Queue'[l]) = Turns(Queue[1]) + 1
      BY <2>1, <2>6, <1>1
    <3>2. Turns(Queue[k + 1]) - Turns(Queue[1]) \in {0, 1}
      BY <2>3, <1>4 DEF IInv, InTurn
    <3>3. Turns(Queue[k + 1]) \in Nat /\ Turns(Queue[1]) \in Nat
      BY <2>1
    <3> QED
      BY <2>4, <3>1, <3>2, <3>3
  <2> QED
    BY <2>5, <2>6, <1>5
<1> QED
  BY <1>1, <1>2, <1>5, <1>6, <1>7, <1>8 DEF IInv

LEMMA NextIInv == IInv /\ [Next]_vars => IInv'
<1> SUFFICES ASSUME IInv, [Next]_vars PROVE IInv'
  OBVIOUS
<1>1. CASE Finish \/ UNCHANGED vars
  <2>1. UNCHANGED <<jobs, burst, made, ready>> /\ (pc' = pc \/ pc' = "done")
    BY <1>1 DEF Finish, vars
  <2>2. Queue' = Queue
    BY <2>1 DEF Queue
  <2>3. InTurn(Queue)' <=> InTurn(Queue)
    BY <2>1, <2>2 DEF InTurn, Turns
  <2> QED
    BY <2>1, <2>2, <2>3 DEF IInv, TypeOK
<1> QED
  BY <1>1, MakeIInv, ScheduleIInv DEF Next

LEMMA Strong == Spec => []IInv
  BY InitIInv, NextIInv, PTL DEF Spec

-----------------------------------------------------------------------------
\* The variables keep their types, and the queue has a head when it has a tail.
THEOREM TypeCorrect == Spec => []TypeOK
<1>1. IInv => TypeOK
  BY DEF IInv
<1> QED
  BY Strong, <1>1, PTL

\* No process that still wants the CPU is more than one turn ahead of another.
THEOREM Fair == Spec => []FairTurns
<1>1. IInv => FairTurns
  BY DEF IInv, InTurn, FairTurns
<1> QED
  BY Strong, <1>1, PTL

-----------------------------------------------------------------------------
(* The lists implement the round robin *)

\* What the nodes of s hold, with the burst times b.
Held(s, b) == [k \in 1 .. Len(s) |-> <<s[k], b[s[k]]>>]

LEMMA HeldType ==
    ASSUME NEW s \in Seq(Processes), NEW b \in [Processes -> Int]
    PROVE  /\ Held(s, b) \in Seq(Processes \X Int) /\ Len(Held(s, b)) = Len(s)
           /\ \A k \in 1 .. Len(s) : Held(s, b)[k] = <<s[k], b[s[k]]>>
           /\ Held(s, b) = <<>> <=> s = <<>>
<1>1. /\ Len(s) \in Nat /\ \A k \in 1 .. Len(s) : <<s[k], b[s[k]]>> \in Processes \X Int
  OBVIOUS
<1>2. Held(s, b) \in [1 .. Len(s) -> Processes \X Int]
  BY <1>1 DEF Held
<1>3. Held(s, b) \in Seq(Processes \X Int) /\ Len(Held(s, b)) = Len(s)
  BY <1>1, <1>2
<1>4. Held(s, b) = <<>> <=> s = <<>>
  <2>1. Held(s, b) = <<>> <=> Len(Held(s, b)) = 0
    BY <1>3
  <2> QED
    BY <2>1, <1>3
<1> QED
  BY <1>3, <1>4 DEF Held

LEMMA HeldAppend ==
    ASSUME NEW s \in Seq(Processes), NEW b \in [Processes -> Int],
           NEW c \in [Processes -> Int], NEW p \in Processes,
           \A k \in 1 .. Len(s) : c[s[k]] = b[s[k]]
    PROVE  Held(Append(s, p), c) = Append(Held(s, b), <<p, c[p]>>)
<1> DEFINE t == Append(s, p)
           h == Append(Held(s, b), <<p, c[p]>>)
<1>1. /\ t \in Seq(Processes) /\ Len(t) = Len(s) + 1 /\ t[Len(s) + 1] = p /\ Len(s) \in Nat
      /\ \A k \in 1 .. Len(s) : t[k] = s[k]
  OBVIOUS
<1>2. /\ Held(t, c) \in Seq(Processes \X Int) /\ Len(Held(t, c)) = Len(s) + 1
      /\ \A k \in 1 .. Len(s) + 1 : Held(t, c)[k] = <<t[k], c[t[k]]>>
  <2>1. /\ Held(t, c) \in Seq(Processes \X Int) /\ Len(Held(t, c)) = Len(t)
        /\ \A k \in 1 .. Len(t) : Held(t, c)[k] = <<t[k], c[t[k]]>>
    BY <1>1, HeldType
  <2> HIDE DEF t
  <2> QED
    BY <1>1, <2>1
<1>3. /\ Held(s, b) \in Seq(Processes \X Int) /\ Len(Held(s, b)) = Len(s)
      /\ \A k \in 1 .. Len(s) : Held(s, b)[k] = <<s[k], b[s[k]]>>
  BY HeldType
<1>4. <<p, c[p]>> \in Processes \X Int
  OBVIOUS
<1>5. /\ h \in Seq(Processes \X Int) /\ Len(h) = Len(s) + 1 /\ h[Len(s) + 1] = <<p, c[p]>>
      /\ \A k \in 1 .. Len(s) : h[k] = Held(s, b)[k]
  BY <1>3, <1>4
<1> HIDE DEF t, h
<1>6. \A k \in 1 .. Len(s) + 1 : Held(t, c)[k] = h[k]
  <2> SUFFICES ASSUME NEW k \in 1 .. Len(s) + 1 PROVE Held(t, c)[k] = h[k]
    OBVIOUS
  <2>1. CASE k = Len(s) + 1
    BY <2>1, <1>1, <1>2, <1>5
  <2>2. CASE k # Len(s) + 1
    <3>1. k \in 1 .. Len(s)
      BY <2>2, <1>1
    <3>2. t[k] = s[k] /\ c[s[k]] = b[s[k]]
      BY <3>1, <1>1
    <3>3. Held(t, c)[k] = <<s[k], b[s[k]]>>
      BY <3>2, <1>2
    <3> QED
      BY <3>1, <3>3, <1>3, <1>5
  <2> QED
    BY <2>1, <2>2
<1>7. Held(t, c) = h
  BY <1>2, <1>5, <1>6, SeqEqual
<1> QED
  BY <1>7 DEF t, h

LEMMA HeldTail ==
    ASSUME NEW s \in Seq(Processes), s # <<>>, NEW b \in [Processes -> Int]
    PROVE  Held(Tail(s), b) = Tail(Held(s, b)) /\ Head(Held(s, b)) = <<s[1], b[s[1]]>>
<1> DEFINE t == Tail(s)
           h == Tail(Held(s, b))
<1>1. /\ t \in Seq(Processes) /\ Len(t) = Len(s) - 1 /\ Len(s) \in Nat /\ Len(s) >= 1
      /\ \A k \in 1 .. Len(t) : t[k] = s[k + 1] /\ k + 1 \in 1 .. Len(s)
  OBVIOUS
<1>2. /\ Held(t, b) \in Seq(Processes \X Int) /\ Len(Held(t, b)) = Len(t)
      /\ \A k \in 1 .. Len(t) : Held(t, b)[k] = <<t[k], b[t[k]]>>
  BY <1>1, HeldType
<1>3. /\ Held(s, b) \in Seq(Processes \X Int) /\ Len(Held(s, b)) = Len(s)
      /\ \A k \in 1 .. Len(s) : Held(s, b)[k] = <<s[k], b[s[k]]>>
      /\ Held(s, b) # <<>>
  BY HeldType
<1>4. /\ h \in Seq(Processes \X Int) /\ Len(h) = Len(s) - 1
      /\ \A k \in 1 .. Len(t) : h[k] = Held(s, b)[k + 1]
  BY <1>1, <1>3, HeadTailProperties
<1>5. Head(Held(s, b)) = <<s[1], b[s[1]]>>
  BY <1>1, <1>3
<1> HIDE DEF t, h
<1>6. \A k \in 1 .. Len(t) : Held(t, b)[k] = h[k]
  BY <1>1, <1>2, <1>3, <1>4
<1>7. Held(t, b) = h
  <2>1. Len(Held(t, b)) = Len(h) /\ \A k \in 1 .. Len(Held(t, b)) : Held(t, b)[k] = h[k]
    BY <1>1, <1>2, <1>4, <1>6
  <2> QED
    BY <2>1, <1>2, <1>4, SeqEqual
<1> QED
  BY <1>5, <1>7 DEF t, h

LEMMA MakeArrives ==
    ASSUME IInv, MakeProcess
    PROVE  \E b \in Bursts : RR!RRArrive(made + 1, b)
<1>1. /\ made + 1 \in Processes
      /\ \A k \in 1 .. Len(Queue) : Queue[k] # made + 1
      /\ Queue' = Append(Queue, made + 1)
  BY MakeQueue
<1>2. /\ ready' = ready /\ ready = <<>> /\ Queue \in Seq(Processes)
      /\ burst \in [Processes -> Int]
  BY DEF MakeProcess, IInv, TypeOK
<1>3. PICK b \in Bursts : burst' = [burst EXCEPT ![made + 1] = b]
  BY DEF MakeProcess
<1>4. burst' \in [Processes -> Int] /\ burst'[made + 1] = b
  BY <1>1, <1>2, <1>3, BurstsAssumption
<1>5. \A k \in 1 .. Len(Queue) : burst'[Queue[k]] = burst[Queue[k]]
  BY <1>1, <1>2, <1>3
<1>6. Held(Queue', burst') = Append(Held(Queue, burst), <<made + 1, b>>)
  BY <1>1, <1>2, <1>4, <1>5, HeldAppend
<1> QED
  BY <1>2, <1>6 DEF RR!RRArrive, Held

LEMMA ScheduleSlices ==
    ASSUME IInv, Schedule
    PROVE  RR!RRSlice
<1> DEFINE p == jobs.head
           t == Tail(Queue)
           slice == IF burst[p] > quantum THEN quantum ELSE burst[p]
<1>1. /\ p \in Processes /\ Len(Queue) > 0 /\ Queue[1] = p /\ burst[p] \in Nat
      /\ Queue' = IF burst[p] > quantum THEN Append(t, p) ELSE t
      /\ burst' = [burst EXCEPT ![p] = burst[p] - quantum]
      /\ ready' = Append(ready, <<p, slice>>)
  BY ScheduleQueue
<1>2. /\ Queue \in Seq(Processes) /\ IsList(jobs, Queue) /\ burst \in [Processes -> Int]
  BY DEF IInv, TypeOK
<1> HIDE DEF p, slice
<1>3. /\ t \in Seq(Processes) /\ Len(t) = Len(Queue) - 1 /\ Queue # <<>>
      /\ \A k \in 1 .. Len(t) : k + 1 \in 1 .. Len(Queue) /\ t[k] = Queue[k + 1]
  BY <1>1, <1>2
<1>4. 1 \in 1 .. Len(Queue)
  BY <1>1, <1>2
<1>5. \A k \in 1 .. Len(t) : t[k] # Queue[1]
  BY <1>2, <1>3, <1>4 DEF IsList
<1> HIDE DEF t
<1>6. burst' \in [Processes -> Int] /\ burst'[p] = burst[p] - quantum
  BY <1>1, <1>2, QuantumAssumption
<1>7. \A k \in 1 .. Len(t) : burst'[t[k]] = burst[t[k]]
  BY <1>1, <1>2, <1>3, <1>5
<1> DEFINE q == Held(Queue, burst)
<1>8. q # <<>> /\ Head(q) = <<p, burst[p]>> /\ Tail(q) = Held(t, burst)
      /\ Tail(q) \in Seq(Processes \X Int)
  BY <1>1, <1>2, <1>3, HeldType, HeldTail DEF t
<1>9. ASSUME burst[p] > quantum
      PROVE  Held(Queue', burst') = Tail(q) \o << <<p, burst[p] - quantum>> >>
  <2>1. Held(Queue', burst') = Append(Tail(q), <<p, burst[p] - quantum>>)
    <3> DEFINE c == burst'
    <3>0. /\ t \in Seq(Processes) /\ c \in [Processes -> Int] /\ p \in Processes
          /\ \A k \in 1 .. Len(t) : c[t[k]] = burst[t[k]]
      BY <1>1, <1>3, <1>6, <1>7
    <3> HIDE DEF c
    <3>1. Held(Append(t, p), c) = Append(Held(t, burst), <<p, c[p]>>)
      BY <3>0, <1>2, HeldAppend
    <3> USE DEF c
    <3> QED
      BY <3>1, <1>1, <1>6, <1>8, <1>9
  <2>2. \A s \in Seq(Processes \X Int), e \in Processes \X Int : Append(s, e) = s \o <<e>>
    OBVIOUS
  <2>3. <<p, burst[p] - quantum>> \in Processes \X Int
    BY <1>1, QuantumAssumption
  <2> QED
    BY <2>1, <2>2, <2>3, <1>8
<1>10. ASSUME ~(burst[p] > quantum)
       PROVE  Held(Queue', burst') = Tail(q) \o <<>>
  <2>1. Held(Queue', burst') = Tail(q)
    <3>1. Queue' = t
      BY <1>1, <1>10
    <3>2. Held(t, burst') = Held(t, burst)
      BY <1>7 DEF Held
    <3> QED
      BY <3>1, <3>2, <1>8
  <2>2. Tail(q) \o <<>> = Tail(q)
    BY <1>8
  <2> QED
    BY <2>1, <2>2
<1> HIDE DEF q
<1> DEFINE b == Head(q)[2]
<1>11. Head(q)[1] = p /\ b = burst[p]
  BY <1>8
<1>12. Held(Queue', burst')
          = Tail(q) \o IF b > quantum THEN << <<Head(q)[1], b - quantum>> >> ELSE <<>>
  BY <1>9, <1>10, <1>11
<1>13. ready' = Append(ready, <<Head(q)[1], IF b > quantum THEN quantum ELSE b>>)
  BY <1>1, <1>11 DEF slice
<1>14. q # <<>>
  BY <1>8
<1> QED
  BY <1>12, <1>13, <1>14 DEF RR!RRSlice, Held, q

\* The program schedules as its comment describes: whatever the stale pointers
\* say, the head gets the slice and goes to the tail if it wants more.
THEOREM Implementation == Spec => IsRoundRobin
<1>1. Init => RR!RRInit
  <2> SUFFICES ASSUME Init PROVE RR!RRInit
    OBVIOUS
  <2>1. Queue = <<>> /\ ready = <<>>
    BY InitIInv DEF Init
  <2> QED
    BY <2>1 DEF RR!RRInit
<1>2. IInv /\ [Next]_vars => [RR!RRNext]_<<[k \in 1 .. Len(Queue) |-> <<Queue[k], burst[Queue[k]]>>], ready>>
  <2> SUFFICES ASSUME IInv, [Next]_vars
               PROVE  RR!RRNext \/ UNCHANGED <<[k \in 1 .. Len(Queue) |-> <<Queue[k], burst[Queue[k]]>>], ready>>
    OBVIOUS
  <2>1. CASE MakeProcess
    <3>1. made + 1 \in Processes
      BY <2>1, MakeQueue
    <3> QED
      BY <2>1, <3>1, MakeArrives DEF RR!RRNext
  <2>2. CASE Schedule
    BY <2>2, ScheduleSlices DEF RR!RRNext
  <2>3. CASE Finish \/ UNCHANGED vars
    <3>1. UNCHANGED <<jobs, burst, ready>>
      BY <2>3 DEF Finish, vars
    <3> QED
      BY <3>1 DEF Queue
  <2> QED
    BY <2>1, <2>2, <2>3 DEF Next
<1> QED
  BY Strong, <1>1, <1>2, PTL DEF Spec, IsRoundRobin, RR!RRSpec

-----------------------------------------------------------------------------
\* What a process has had and what it still wants add up to what it came with.
THEOREM NoTimeLost == Spec => TimeIsKept
<1>1. ASSUME IInv, Schedule, NEW q \in Processes
      PROVE  TimeOf(q)' + Wanted(q)' = TimeOf(q) + Wanted(q)
  <2> DEFINE p == jobs.head
             slice == IF burst[p] > quantum THEN quantum ELSE burst[p]
  <2>1. /\ p \in Processes /\ burst[p] \in Nat
        /\ burst' = [burst EXCEPT ![p] = burst[p] - quantum]
        /\ ready' = Append(ready, <<p, slice>>)
        /\ <<p, slice>> \in Processes \X (0 .. quantum)
    BY <1>1, ScheduleQueue
  <2>2. burst \in [Processes -> Int] /\ ready \in Seq(Processes \X (0 .. quantum))
    BY <1>1 DEF IInv, TypeOK
  <2>3. slice \in Int /\ Wanted(p) = burst[p]
        /\ slice + (IF burst[p] - quantum > 0 THEN burst[p] - quantum ELSE 0) = burst[p]
    BY <2>1, QuantumAssumption DEF Wanted
  <2> HIDE DEF p, slice
  <2>4. TimeOf(q) \in Nat /\ TimeOf(q)' = TimeOf(q) + IF p = q THEN slice ELSE 0
    <3> DEFINE turn == <<p, slice>>
    <3>1. /\ turn[1] = p /\ turn[2] = slice /\ turn \in Processes \X (0 .. quantum)
          /\ ready' = Append(ready, turn)
      BY <2>1
    <3> HIDE DEF turn
    <3>2. TimeOf(q) = TimeIn(ready, q) /\ TimeOf(q)' = TimeIn(ready', q)
      BY DEF TimeOf, TimeIn
    <3>3. /\ TimeIn(ready, q) \in Nat
          /\ TimeIn(Append(ready, turn), q)
                = TimeIn(ready, q) + IF turn[1] = q THEN turn[2] ELSE 0
      BY <3>1, <2>2, TimeAppend
    <3> DEFINE had == TimeIn(ready, q)
               has == TimeIn(ready', q)
    <3>4. has = TimeIn(Append(ready, turn), q)
      BY <3>1
    <3>5. had \in Nat /\ has = had + IF turn[1] = q THEN turn[2] ELSE 0
      BY <3>3, <3>4
    <3>6. TimeOf(q) = had /\ TimeOf(q)' = has
      BY <3>2
    <3> HIDE DEF had, has
    <3> QED
      BY <3>1, <3>5, <3>6
  <2> HIDE DEF TimeOf
  <2>5. CASE q = p
    <3>1. Wanted(q)' = IF burst[p] - quantum > 0 THEN burst[p] - quantum ELSE 0
      BY <2>1, <2>2, <2>5 DEF Wanted
    <3> DEFINE rest == IF burst[p] - quantum > 0 THEN burst[p] - quantum ELSE 0
    <3>2. rest \in Int
      BY <2>1, QuantumAssumption
    <3>3. TimeOf(q)' = TimeOf(q) + slice /\ Wanted(q)' = rest /\ Wanted(q) = slice + rest
      BY <3>1, <2>3, <2>4, <2>5
    <3> HIDE DEF rest
    <3> QED
      BY <3>2, <3>3, <2>3, <2>4
  <2>6. CASE q # p
    <3>1. burst'[q] = burst[q]
      BY <2>1, <2>2, <2>6
    <3>2. Wanted(q)' = Wanted(q) /\ Wanted(q) \in Int
      BY <3>1, <2>2 DEF Wanted
    <3> QED
      BY <3>2, <2>4, <2>6
  <2> QED
    BY <2>5, <2>6
<1>2. IInv /\ [Next]_vars => [pc = "schedule" => \A p \in Processes :
          TimeOf(p)' + Wanted(p)' = TimeOf(p) + Wanted(p)]_vars
  <2> SUFFICES ASSUME IInv, Next, pc = "schedule", NEW p \in Processes
               PROVE  TimeOf(p)' + Wanted(p)' = TimeOf(p) + Wanted(p)
    OBVIOUS
  <2>1. CASE Schedule
    BY <2>1, <1>1
  <2>2. CASE Finish
    BY <2>2 DEF Finish, TimeOf, Wanted
  <2> QED
    BY <2>1, <2>2 DEF Next, MakeProcess
<1> QED
  BY Strong, <1>2, PTL DEF Spec, TimeIsKept

-----------------------------------------------------------------------------
(* The end *)

\* Who wants time is in the queue.
Waiting ==
    /\ \A p \in Processes : burst[p] > 0 => \E k \in 1 .. Len(Queue) : Queue[k] = p
    /\ pc = "done" => jobs.head = NULL

LEMMA MakeWaiting == IInv /\ Waiting /\ MakeProcess => Waiting'
<1> SUFFICES ASSUME IInv, Waiting, MakeProcess PROVE Waiting'
  OBVIOUS
<1>1. made + 1 \in Processes /\ Queue' = Append(Queue, made + 1)
  BY MakeQueue
<1>2. PICK b \in Bursts : burst' = [burst EXCEPT ![made + 1] = b]
  BY DEF MakeProcess
<1>3. burst \in [Processes -> Int] /\ Queue \in Seq(Processes) /\ pc' # "done"
  BY DEF IInv, TypeOK, MakeProcess
<1>4. /\ Len(Queue) \in Nat /\ Len(Queue') = Len(Queue) + 1
      /\ Queue'[Len(Queue) + 1] = made + 1
      /\ \A k \in 1 .. Len(Queue) : Queue'[k] = Queue[k]
  BY <1>1, <1>3
<1>5. ASSUME NEW q \in Processes, burst'[q] > 0
      PROVE  \E k \in 1 .. Len(Queue') : Queue'[k] = q
  <2>1. CASE q = made + 1
    <3>1. Len(Queue) + 1 \in 1 .. Len(Queue')
      BY <1>4
    <3> QED
      BY <2>1, <3>1, <1>4
  <2>2. CASE q # made + 1
    <3>1. burst[q] > 0
      BY <2>2, <1>2, <1>3, <1>5
    <3>2. PICK k \in 1 .. Len(Queue) : Queue[k] = q
      BY <3>1 DEF Waiting
    <3>3. k \in 1 .. Len(Queue')
      BY <1>4
    <3> QED
      BY <3>2, <3>3, <1>4
  <2> QED
    BY <2>1, <2>2
<1> QED
  BY <1>3, <1>5 DEF Waiting

LEMMA ScheduleWaiting == IInv /\ Waiting /\ Schedule => Waiting'
<1> SUFFICES ASSUME IInv, Waiting, Schedule PROVE Waiting'
  OBVIOUS
<1> DEFINE p == jobs.head
           t == Tail(Queue)
<1>1. /\ p \in Processes /\ Len(Queue) > 0 /\ Queue[1] = p /\ burst[p] \in Nat
      /\ Queue' = IF burst[p] > quantum THEN Append(t, p) ELSE t
      /\ burst' = [burst EXCEPT ![p] = burst[p] - quantum]
  BY ScheduleQueue
<1>2. burst \in [Processes -> Int] /\ Queue \in Seq(Processes) /\ pc' # "done"
  BY DEF IInv, TypeOK, Schedule
<1> HIDE DEF p
<1>3. /\ t \in Seq(Processes) /\ Len(t) = Len(Queue) - 1 /\ Len(t) \in Nat
      /\ \A k \in 1 .. Len(t) : t[k] = Queue[k + 1]
  BY <1>1, <1>2
<1> HIDE DEF t
<1>4. /\ Len(Queue') \in Nat /\ Len(Queue') >= Len(t)
      /\ \A k \in 1 .. Len(t) : Queue'[k] = t[k]
      /\ burst[p] > quantum => Len(Queue') = Len(t) + 1 /\ Queue'[Len(t) + 1] = p
  BY <1>1, <1>3
<1>5. ASSUME NEW q \in Processes, burst'[q] > 0
      PROVE  \E k \in 1 .. Len(Queue') : Queue'[k] = q
  <2>1. CASE q = p
    <3>1. burst[p] > quantum
      BY <2>1, <1>1, <1>2, <1>5, QuantumAssumption
    <3>2. Len(t) + 1 \in 1 .. Len(Queue')
      BY <3>1, <1>3, <1>4
    <3> QED
      BY <2>1, <3>1, <3>2, <1>4
  <2>2. CASE q # p
    <3>1. burst[q] > 0
      BY <2>2, <1>1, <1>2, <1>5
    <3>2. PICK k \in 1 .. Len(Queue) : Queue[k] = q
      BY <3>1 DEF Waiting
    <3>3. k # 1 /\ k \in Int /\ k >= 1 /\ k <= Len(t) + 1
      BY <3>2, <2>2, <1>1, <1>3
    <3>4. k - 1 \in 1 .. Len(t) /\ (k - 1) + 1 = k
      BY <3>3, <1>3
    <3>5. Queue'[k - 1] = q /\ k - 1 \in 1 .. Len(Queue')
      <4>1. Queue'[k - 1] = Queue[(k - 1) + 1]
        BY <3>4, <1>3, <1>4
      <4>2. k - 1 \in 1 .. Len(Queue')
        BY <3>4, <1>3, <1>4
      <4> QED
        BY <4>1, <4>2, <3>2, <3>4
    <3> QED
      BY <3>5
  <2> QED
    BY <2>1, <2>2
<1> QED
  BY <1>2, <1>5 DEF Waiting

\* When the scheduler is done everybody has had all the time it wanted.
THEOREM NobodyLeftOut == Spec => [](pc = "done" => \A p \in Processes : burst[p] <= 0)
<1>1. Init => Waiting
  BY DEF Init, Waiting
<1>2. IInv /\ Waiting /\ [Next]_vars => Waiting'
  <2> SUFFICES ASSUME IInv, Waiting, Finish \/ UNCHANGED vars PROVE Waiting'
    BY MakeWaiting, ScheduleWaiting DEF Next
  <2>1. UNCHANGED <<jobs, burst>> /\ (pc' = "done" => jobs.head = NULL)
    BY DEF Finish, vars, Waiting
  <2>2. Queue' = Queue
    BY <2>1 DEF Queue
  <2> QED
    BY <2>1, <2>2 DEF Waiting
<1>3. IInv /\ Waiting => (pc = "done" => \A p \in Processes : burst[p] <= 0)
  <2> SUFFICES ASSUME IInv, Waiting, pc = "done", NEW p \in Processes
               PROVE  burst[p] <= 0
    OBVIOUS
  <2>1. burst[p] \in Int /\ jobs.head = NULL /\ Queue \in Seq(Processes) /\ IsList(jobs, Queue)
    BY DEF IInv, TypeOK, Waiting
  <2>2. Len(Queue) = 0
    BY <2>1, HeadAndTail
  <2>3. ~(burst[p] > 0)
    BY <2>2 DEF Waiting
  <2> QED
    BY <2>1, <2>3
<1> QED
  BY <1>1, <1>2, <1>3, Strong, PTL DEF Spec
=============================================================================
