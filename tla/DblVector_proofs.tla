-------------------------- MODULE DblVector_proofs --------------------------
(***************************************************************************)
(* Proofs about DblVector, for any vectors, items, initial capacity and    *)
(* sizes.  TypeOK and ElementsWritten are inductive together: an array     *)
(* never has fewer slots than its vector has elements, and every call      *)
(* fills the slots below the new size from slots below the old one.        *)
(***************************************************************************)
EXTENDS DblVector, SequenceTheorems, TLAPS

\* A quarter more is a natural number and no less than what there was.
LEMMA QuarterGrows == ASSUME NEW c \in Nat PROVE Quarter(c) \in Nat /\ Quarter(c) >= c
  BY DEF Quarter

\* dv_ensure_capacity provides what it is asked for and never shrinks.
LEMMA GrownCapacitySuffices ==
  ASSUME NEW c \in Nat, NEW n \in Nat
  PROVE /\ GrownCapacity(c, n) \in Nat
        /\ GrownCapacity(c, n) >= n
        /\ GrownCapacity(c, n) >= c
        /\ GrownCapacity(c, n) # c => GrownCapacity(c, n) >= Quarter(c)
  BY QuarterGrows DEF GrownCapacity

\* realloc keeps what both arrays have in common.
LEMMA ReallocKeeps ==
  ASSUME NEW c \in Nat, NEW d \in Nat, c <= d,
         NEW array \in [0 .. c - 1 -> Items \cup {Garbage}]
  PROVE /\ Realloc(array, d) \in [0 .. d - 1 -> Items \cup {Garbage}]
        /\ \A i \in 0 .. c - 1 : Realloc(array, d)[i] = array[i]
  BY DEF Realloc

-----------------------------------------------------------------------------
IInv == TypeOK /\ ElementsWritten

\* A call that gives one vector a new size, capacity and array keeps the
\* invariant when the new elements have been written.
LEMMA OneVector ==
  ASSUME IInv, NEW v \in Vectors,
         NEW n \in Nat, NEW c \in Nat, n <= c,
         NEW array \in [0 .. c - 1 -> Items \cup {Garbage}],
         \A i \in 0 .. n - 1 : array[i] \in Items,
         size' = [size EXCEPT ![v] = n],
         capacity' = [capacity EXCEPT ![v] = c],
         data' = [data EXCEPT ![v] = array],
         phase' \in [Vectors -> {"raw", "live", "dead"}],
         \A u \in Vectors \ {v} : phase'[u] = phase[u],
         phase'[v] # "live" => n = 0,
         overrun' \in BOOLEAN
  PROVE  IInv'
<1>1. TypeOK'
  BY DEF IInv, TypeOK
<1>2. ASSUME NEW u \in Vectors
      PROVE /\ size'[u] <= capacity'[u]
            /\ \A i \in 0 .. size'[u] - 1 : data'[u][i] \in Items
  <2>1. CASE u = v
    BY <2>1 DEF IInv, TypeOK
  <2>2. CASE u # v
    BY <2>2 DEF IInv, TypeOK, ElementsWritten
  <2>3. QED
    BY <2>1, <2>2
<1>3. ASSUME NEW u \in Vectors PROVE dv_last(u)' \in Items \cup {NaN}
  BY <1>1, <1>2 DEF dv_last, TypeOK
<1>4. QED
  BY <1>1, <1>2, <1>3 DEF IInv, ElementsWritten

\* An empty array is an array of capacity zero.
LEMMA Empty == NoArray \in [0 .. 0 - 1 -> Items \cup {Garbage}]
<1>1. 0 .. 0 - 1 = {}
  OBVIOUS
<1>2. QED
  BY <1>1 DEF NoArray

LEMMA Start == ASSUME Init PROVE IInv
<1>1. TypeOK
  BY Empty DEF Init, TypeOK
<1>2. ASSUME NEW v \in Vectors PROVE size[v] = 0 /\ capacity[v] = 0
  BY DEF Init
<1>3. \A i \in 0 .. 0 - 1 : FALSE
  OBVIOUS
<1>4. ASSUME NEW v \in Vectors
      PROVE /\ size[v] <= capacity[v]
            /\ \A i \in 0 .. size[v] - 1 : data[v][i] \in Items
            /\ dv_last(v) \in Items \cup {NaN}
  BY <1>2, <1>3 DEF dv_last
<1>5. QED
  BY <1>1, <1>4 DEF IInv, ElementsWritten

\* What dv_ensure_capacity gives a vector: room, and the elements it had.
LEMMA Enlarges ==
  ASSUME IInv, NEW v \in Vectors, NEW n \in Nat
  PROVE  /\ Room(v, n) \in Nat /\ n <= Room(v, n) /\ size[v] <= Room(v, n)
         /\ Enlarged(v, n) \in [0 .. Room(v, n) - 1 -> Items \cup {Garbage}]
         /\ \A i \in 0 .. size[v] - 1 : Enlarged(v, n)[i] \in Items
<1>1. /\ size[v] \in Nat /\ capacity[v] \in Nat /\ size[v] <= capacity[v]
      /\ data[v] \in [0 .. capacity[v] - 1 -> Items \cup {Garbage}]
      /\ \A i \in 0 .. size[v] - 1 : data[v][i] \in Items
  BY DEF IInv, TypeOK, ElementsWritten
<1>2. /\ Room(v, n) \in Nat /\ n <= Room(v, n) /\ capacity[v] <= Room(v, n)
  BY <1>1, GrownCapacitySuffices DEF Room
<1>3. /\ Enlarged(v, n) \in [0 .. Room(v, n) - 1 -> Items \cup {Garbage}]
      /\ \A i \in 0 .. capacity[v] - 1 : Enlarged(v, n)[i] = data[v][i]
  BY <1>1, <1>2, ReallocKeeps DEF Enlarged
<1>4. ASSUME NEW i \in 0 .. size[v] - 1 PROVE Enlarged(v, n)[i] \in Items
  <2>1. i \in 0 .. capacity[v] - 1
    BY <1>1
  <2>2. QED
    BY <1>1, <1>3, <2>1
<1>5. QED
  BY <1>1, <1>2, <1>3, <1>4

LEMMA Init1 == ASSUME IInv, NEW v \in Vectors, dv_init(v) PROVE IInv'
<1> DEFINE fresh == Realloc(NoArray, DV_INITIAL_CAPACITY)
<1>1. fresh \in [0 .. DV_INITIAL_CAPACITY - 1 -> Items \cup {Garbage}]
  BY CapacityAssumption DEF Realloc, NoArray
<1>2. /\ size' = [size EXCEPT ![v] = 0]
      /\ capacity' = [capacity EXCEPT ![v] = DV_INITIAL_CAPACITY]
      /\ data' = [data EXCEPT ![v] = fresh]
      /\ phase' = [phase EXCEPT ![v] = "live"] /\ overrun' = overrun
  BY DEF dv_init
<1>3. /\ phase' \in [Vectors -> {"raw", "live", "dead"}] /\ overrun' \in BOOLEAN
      /\ \A u \in Vectors \ {v} : phase'[u] = phase[u]
  BY <1>2 DEF IInv, TypeOK
<1>4. /\ 0 \in Nat /\ DV_INITIAL_CAPACITY \in Nat /\ 0 <= DV_INITIAL_CAPACITY
      /\ \A i \in 0 .. 0 - 1 : fresh[i] \in Items
  BY CapacityAssumption
<1> HIDE DEF fresh
<1>5. QED
  BY <1>1, <1>2, <1>3, <1>4, OneVector

LEMMA Destroy == ASSUME IInv, NEW v \in Vectors, dv_destroy(v) PROVE IInv'
<1>1. /\ size' = [size EXCEPT ![v] = 0]
      /\ capacity' = [capacity EXCEPT ![v] = 0]
      /\ data' = [data EXCEPT ![v] = NoArray]
      /\ phase' = [phase EXCEPT ![v] = "dead"] /\ overrun' = overrun
  BY DEF dv_destroy
<1>2. /\ phase' \in [Vectors -> {"raw", "live", "dead"}] /\ overrun' \in BOOLEAN
      /\ \A u \in Vectors \ {v} : phase'[u] = phase[u]
  BY <1>1 DEF IInv, TypeOK
<1>3. 0 \in Nat /\ 0 <= 0 /\ \A i \in 0 .. 0 - 1 : NoArray[i] \in Items
  OBVIOUS
<1>4. QED
  BY <1>1, <1>2, <1>3, Empty, OneVector

\* A vector with fewer elements keeps its array.
LEMMA Shrink ==
  ASSUME IInv, NEW v \in Vectors, dv_clear(v) \/ dv_pop(v) PROVE IInv'
<1> DEFINE n == IF dv_clear(v) \/ size[v] = 0 THEN 0 ELSE size[v] - 1
<1>1. /\ size \in [Vectors -> Nat] /\ capacity \in [Vectors -> Nat]
      /\ \A u \in Vectors : /\ size[u] <= capacity[u]
                           /\ \A i \in 0 .. size[u] - 1 : data[u][i] \in Items
  BY DEF IInv, TypeOK, ElementsWritten
<1>2. n \in Nat /\ n <= size[v]
  BY <1>1
<1>3. size' = [size EXCEPT ![v] = n]
  BY <1>1 DEF dv_clear, dv_pop
<1>4. UNCHANGED <<phase, capacity, data, overrun>> /\ phase[v] = "live"
  BY DEF dv_clear, dv_pop, Live
<1> HIDE DEF n
<1>5. TypeOK'
  BY <1>1, <1>2, <1>3, <1>4 DEF IInv, TypeOK
<1>6. ASSUME NEW u \in Vectors
      PROVE /\ size'[u] <= capacity'[u]
            /\ \A i \in 0 .. size'[u] - 1 : data'[u][i] \in Items
  <2>1. size'[u] \in Nat /\ size'[u] <= size[u]
    BY <1>1, <1>2, <1>3
  <2>2. QED
    BY <1>1, <1>4, <2>1
<1>7. ASSUME NEW u \in Vectors PROVE dv_last(u)' \in Items \cup {NaN}
  BY <1>5, <1>6 DEF dv_last, TypeOK
<1>8. QED
  BY <1>5, <1>6, <1>7 DEF IInv, ElementsWritten

LEMMA EnsureCapacity ==
  ASSUME IInv, NEW v \in Vectors, NEW n \in Nat, dv_ensure_capacity(v, n)
  PROVE  IInv'
<1>1. size' = [size EXCEPT ![v] = size[v]] /\ size[v] \in Nat
  BY DEF dv_ensure_capacity, IInv, TypeOK
<1>2. /\ capacity' = [capacity EXCEPT ![v] = Room(v, n)]
      /\ data' = [data EXCEPT ![v] = Enlarged(v, n)]
      /\ phase' = phase /\ overrun' = overrun /\ phase[v] = "live"
  BY DEF dv_ensure_capacity, Live
<1>3. phase \in [Vectors -> {"raw", "live", "dead"}] /\ overrun \in BOOLEAN
  BY DEF IInv, TypeOK
<1>4. /\ Room(v, n) \in Nat /\ size[v] <= Room(v, n)
      /\ Enlarged(v, n) \in [0 .. Room(v, n) - 1 -> Items \cup {Garbage}]
      /\ \A i \in 0 .. size[v] - 1 : Enlarged(v, n)[i] \in Items
  BY Enlarges
<1>5. QED
  BY <1>1, <1>2, <1>3, <1>4, OneVector

\* Resize with an array whose elements have been written keeps the invariant.
LEMMA Resized ==
  ASSUME IInv, NEW v \in Vectors, NEW n \in Nat, NEW array,
         array \in [0 .. Room(v, n) - 1 -> Items \cup {Garbage}],
         \A i \in 0 .. n - 1 : array[i] \in Items,
         Resize(v, n, array), Live(v), phase' = phase, overrun' \in BOOLEAN
  PROVE  IInv'
<1>1. Room(v, n) \in Nat /\ n <= Room(v, n)
  BY Enlarges
<1>2. /\ size' = [size EXCEPT ![v] = n]
      /\ capacity' = [capacity EXCEPT ![v] = Room(v, n)]
      /\ data' = [data EXCEPT ![v] = array]
  BY DEF Resize
<1>3. phase' \in [Vectors -> {"raw", "live", "dead"}] /\ phase'[v] = "live"
  BY DEF Live, IInv, TypeOK
<1>4. QED
  BY <1>1, <1>2, <1>3, OneVector

LEMMA Push == ASSUME IInv, NEW v \in Vectors, NEW x \in Items, dv_push(v, x)
              PROVE IInv'
<1> DEFINE n == size[v] + 1
           array == [Enlarged(v, n) EXCEPT ![size[v]] = x]
<1>1. n \in Nat /\ size[v] \in Nat /\ overrun \in BOOLEAN
  BY DEF IInv, TypeOK
<1>2. /\ Room(v, n) \in Nat /\ n <= Room(v, n)
      /\ Enlarged(v, n) \in [0 .. Room(v, n) - 1 -> Items \cup {Garbage}]
      /\ \A i \in 0 .. size[v] - 1 : Enlarged(v, n)[i] \in Items
  BY <1>1, Enlarges
<1>3. /\ array \in [0 .. Room(v, n) - 1 -> Items \cup {Garbage}]
      /\ \A i \in 0 .. n - 1 : array[i] \in Items
  BY <1>1, <1>2
<1>4. /\ Resize(v, n, array) /\ Live(v)
      /\ phase' = phase /\ overrun' = overrun
  BY DEF dv_push
<1>5. QED
  BY <1>1, <1>3, <1>4, Resized

LEMMA Insert ==
  ASSUME IInv, NEW v \in Vectors, NEW pos \in Nat, NEW x \in Items,
         dv_insert_at(v, pos, x)
  PROVE  IInv'
<1>1. CASE pos > size[v]
  BY <1>1, Push DEF dv_insert_at
<1>2. CASE ~ (pos > size[v])
  <2> DEFINE n == size[v] + 1
             longer == Enlarged(v, n)
             array == Shifted(longer, n, pos, x)
  <2>1. n \in Nat /\ size[v] \in Nat /\ pos <= size[v]
    BY <1>2 DEF IInv, TypeOK
  <2>2. /\ Room(v, n) \in Nat /\ n <= Room(v, n)
        /\ longer \in [0 .. Room(v, n) - 1 -> Items \cup {Garbage}]
        /\ \A i \in 0 .. size[v] - 1 : longer[i] \in Items
    BY <2>1, Enlarges
  <2>3. /\ Resize(v, n, array) /\ Live(v) /\ phase' = phase
        /\ overrun' \in BOOLEAN
    BY <1>2 DEF dv_insert_at, IInv, TypeOK
  <2> HIDE DEF longer
  <2>4. ASSUME NEW i \in 0 .. Room(v, n) - 1
        PROVE /\ array[i] \in Items \cup {Garbage}
              /\ i < n => array[i] \in Items
    BY <2>1, <2>2 DEF Shifted
  <2>5. DOMAIN array = 0 .. Room(v, n) - 1
    BY <2>2 DEF Shifted
  <2>6. array \in [0 .. Room(v, n) - 1 -> Items \cup {Garbage}]
    BY <2>4, <2>5 DEF Shifted
  <2>7. \A i \in 0 .. n - 1 : array[i] \in Items
    <3>1. \A i \in 0 .. n - 1 : i \in 0 .. Room(v, n) - 1 /\ i < n
      BY <2>1, <2>2
    <3> HIDE DEF array, n
    <3>2. QED
      BY <2>4, <3>1
  <2> HIDE DEF array
  <2>8. QED
    BY <2>1, <2>3, <2>6, <2>7, Resized
<1>3. QED
  BY <1>1, <1>2

LEMMA Remove ==
  ASSUME IInv, NEW v \in Vectors, NEW pos \in Nat, dv_remove_at(v, pos)
  PROVE  IInv'
<1>1. CASE pos < size[v]
  <2> DEFINE n == size[v] - 1
             array == Closed(data[v], n, pos)
  <2>1. /\ n \in Nat /\ capacity[v] \in Nat /\ n <= capacity[v]
        /\ n + 1 <= capacity[v]
        /\ data[v] \in [0 .. capacity[v] - 1 -> Items \cup {Garbage}]
        /\ \A i \in 0 .. n : data[v][i] \in Items
    BY <1>1 DEF IInv, TypeOK, ElementsWritten
  <2>2. /\ size' = [size EXCEPT ![v] = n]
        /\ capacity' = [capacity EXCEPT ![v] = capacity[v]]
        /\ data' = [data EXCEPT ![v] = array]
        /\ phase' = phase /\ overrun' = overrun /\ phase[v] = "live"
    BY <1>1 DEF dv_remove_at, Live, IInv, TypeOK
  <2>3. phase \in [Vectors -> {"raw", "live", "dead"}] /\ overrun \in BOOLEAN
    BY DEF IInv, TypeOK
  <2> HIDE DEF n
  <2>4. /\ array \in [0 .. capacity[v] - 1 -> Items \cup {Garbage}]
        /\ \A i \in 0 .. n - 1 : array[i] \in Items
    BY <2>1 DEF Closed
  <2> HIDE DEF array
  <2>5. QED
    BY <2>1, <2>2, <2>3, <2>4, OneVector
<1>2. CASE ~ (pos < size[v])
  BY <1>2 DEF IInv, TypeOK, ElementsWritten, dv_remove_at, dv_last
<1>3. QED
  BY <1>1, <1>2

LEMMA Copy ==
  ASSUME IInv, NEW v \in Vectors, NEW dest \in Vectors, dv_copy(v, dest)
  PROVE  IInv'
<1> DEFINE n == size[v]
           longer == Enlarged(dest, n)
           array == [i \in DOMAIN longer |-> IF i < n THEN data[v][i] ELSE longer[i]]
<1>1. /\ n \in Nat /\ overrun \in BOOLEAN
      /\ \A i \in 0 .. n - 1 : data[v][i] \in Items
  BY DEF IInv, TypeOK, ElementsWritten
<1>2. /\ Room(dest, n) \in Nat /\ n <= Room(dest, n)
      /\ longer \in [0 .. Room(dest, n) - 1 -> Items \cup {Garbage}]
  BY <1>1, Enlarges
<1>3. /\ Resize(dest, n, array) /\ Live(dest)
      /\ phase' = phase /\ overrun' = overrun
  BY DEF dv_copy
<1> HIDE DEF longer, n
<1>4. /\ array \in [0 .. Room(dest, n) - 1 -> Items \cup {Garbage}]
      /\ \A i \in 0 .. n - 1 : array[i] \in Items
  BY <1>1, <1>2
<1> HIDE DEF array
<1>5. QED
  BY <1>1, <1>3, <1>4, Resized

-----------------------------------------------------------------------------
LEMMA Step == ASSUME IInv, [Next]_vars PROVE IInv'
<1>1. ASSUME NEW v \in Vectors, Calls(v) PROVE IInv'
  BY <1>1, Init1, Destroy, Shrink, EnsureCapacity, Push, Insert, Remove, Copy,
     ReservedAssumption DEF Calls
<1>2. CASE UNCHANGED vars
  BY <1>2 DEF vars, IInv, TypeOK, ElementsWritten, dv_last
<1>3. QED
  BY <1>1, <1>2 DEF Next

\* A call either leaves the capacities alone, or gives one vector room for
\* some number of elements, or begins or ends a vector's life.
LEMMA OneGrows ==
  ASSUME IInv, NEW v \in Vectors, Calls(v)
  PROVE \E u \in Vectors :
          /\ \A w \in Vectors \ {u} : capacity'[w] = capacity[w]
          /\ \/ phase[u] # "live" \/ phase'[u] # "live"
             \/ \E n \in Nat : capacity'[u] = Room(u, n)
<1>1. /\ phase \in [Vectors -> {"raw", "live", "dead"}]
      /\ size \in [Vectors -> Nat] /\ capacity \in [Vectors -> Nat]
      /\ \A w \in Vectors : size[w] + 1 \in Nat
  BY DEF IInv, TypeOK
<1>2. CASE dv_init(v) \/ dv_destroy(v)
  BY <1>1, <1>2 DEF dv_init, dv_destroy
<1>3. CASE UNCHANGED capacity
  <2>1. capacity'[v] = Room(v, 0)
    BY <1>1, <1>3 DEF Room, GrownCapacity
  <2>2. QED
    BY <1>3, <2>1
<1>4. ASSUME NEW u \in Vectors, NEW n \in Nat,
             capacity' = [capacity EXCEPT ![u] = Room(u, n)]
      PROVE  /\ \A w \in Vectors \ {u} : capacity'[w] = capacity[w]
             /\ \E k \in Nat : capacity'[u] = Room(u, k)
  BY <1>1, <1>4
<1>5. CASE \E n \in Reserved : dv_ensure_capacity(v, n)
  BY <1>4, <1>5, ReservedAssumption DEF dv_ensure_capacity
<1>6. CASE \E dest \in Vectors : dv_copy(v, dest)
  BY <1>1, <1>4, <1>6 DEF dv_copy, Resize
<1>7. CASE \E x \in Items : dv_push(v, x)
  BY <1>1, <1>4, <1>7 DEF dv_push, Resize
<1>8. CASE \E pos \in 0 .. MaxSize, x \in Items : dv_insert_at(v, pos, x)
  BY <1>1, <1>4, <1>8 DEF dv_insert_at, dv_push, Resize
<1>9. QED
  BY <1>2, <1>3, <1>5, <1>6, <1>7, <1>8
     DEF Calls, dv_clear, dv_pop, dv_remove_at

LEMMA Growth ==
  ASSUME IInv, [Next]_vars
  PROVE  \A v \in Vectors :
           phase[v] = "live" /\ phase'[v] = "live" =>
               \/ capacity'[v] = capacity[v]
               \/ /\ capacity'[v] > capacity[v]
                  /\ capacity'[v] >= Quarter(capacity[v])
<1>1. capacity \in [Vectors -> Nat]
  BY DEF IInv, TypeOK
<1>2. ASSUME NEW v \in Vectors, NEW n \in Nat
      PROVE  \/ Room(v, n) = capacity[v]
             \/ /\ Room(v, n) > capacity[v]
                /\ Room(v, n) >= Quarter(capacity[v])
  <2> DEFINE c == capacity[v]
             d == Room(v, n)
  <2>1. c \in Nat /\ Quarter(c) \in Nat
    BY <1>1, QuarterGrows
  <2>2. d \in Nat /\ d >= c /\ (d # c => d >= Quarter(c))
    BY <2>1, GrownCapacitySuffices DEF Room
  <2> HIDE DEF c, d
  <2>3. d = c \/ (d > c /\ d >= Quarter(c))
    BY <2>1, <2>2
  <2>4. QED
    BY <2>3 DEF c, d
<1>3. CASE UNCHANGED vars
  BY <1>3 DEF vars
<1>4. CASE \E v \in Vectors : Calls(v)
  BY <1>2, <1>4, OneGrows
<1>5. QED
  BY <1>3, <1>4 DEF Next

-----------------------------------------------------------------------------
(* The refinement of Vec *)

Contents == [v \in Vectors |-> dv_foreach(v)]

\* A vector shows as many items as its size says, from the first slot on.
LEMMA Elements ==
  ASSUME IInv, NEW v \in Vectors
  PROVE  /\ Contents[v] \in Seq(Items)
         /\ Len(Contents[v]) = size[v] /\ size[v] \in Nat
         /\ \A k \in 1 .. size[v] : Contents[v][k] = data[v][k - 1]
<1>1. size[v] \in Nat /\ \A i \in 0 .. size[v] - 1 : data[v][i] \in Items
  BY DEF IInv, TypeOK, ElementsWritten
<1>2. Contents[v] = [k \in 1 .. size[v] |-> data[v][k - 1]]
  BY DEF Contents, dv_foreach
<1>3. ASSUME NEW k \in 1 .. size[v] PROVE k - 1 \in 0 .. size[v] - 1
  BY <1>1
<1>4. Contents[v] \in [1 .. size[v] -> Items]
  BY <1>1, <1>2, <1>3
<1>5. Contents[v] \in Seq(Items) /\ Len(Contents[v]) = size[v]
  BY <1>1, <1>4
<1>6. QED
  BY <1>1, <1>2, <1>5

\* A longer array begins with the elements of the old one.
LEMMA Keeps ==
  ASSUME IInv, NEW v \in Vectors, NEW n \in Nat
  PROVE  /\ \A i \in 0 .. size[v] - 1 : Enlarged(v, n)[i] = data[v][i]
         /\ DOMAIN Enlarged(v, n) = 0 .. Room(v, n) - 1
<1>1. /\ size[v] \in Nat /\ capacity[v] \in Nat /\ size[v] <= capacity[v]
      /\ data[v] \in [0 .. capacity[v] - 1 -> Items \cup {Garbage}]
  BY DEF IInv, TypeOK, ElementsWritten
<1>2. Room(v, n) \in Nat /\ capacity[v] <= Room(v, n)
  BY <1>1, GrownCapacitySuffices DEF Room
<1>3. /\ Enlarged(v, n) \in [0 .. Room(v, n) - 1 -> Items \cup {Garbage}]
      /\ \A i \in 0 .. capacity[v] - 1 : Enlarged(v, n)[i] = data[v][i]
  BY <1>1, <1>2, ReallocKeeps DEF Enlarged
<1>4. \A i \in 0 .. size[v] - 1 : i \in 0 .. capacity[v] - 1
  BY <1>1
<1>5. QED
  BY <1>3, <1>4

\* A call that leaves every other vector's elements alone, and after which
\* vector v holds the elements of s, assigns s to v.
LEMMA Assigns ==
  ASSUME IInv, IInv', NEW v \in Vectors, NEW s \in Seq(Items),
         size'[v] = Len(s), \A k \in 1 .. Len(s) : data'[v][k - 1] = s[k],
         \A u \in Vectors \ {v} : size'[u] = size[u] /\ data'[u] = data[u]
  PROVE  Contents' = [Contents EXCEPT ![v] = s]
<1>1. ASSUME NEW u \in Vectors \ {v} PROVE Contents'[u] = Contents[u]
  BY DEF Contents, dv_foreach
<1>2. Contents'[v] = s
  <2>1. Contents'[v] = [k \in 1 .. Len(s) |-> data'[v][k - 1]]
    BY DEF Contents, dv_foreach
  <2>2. s = [k \in 1 .. Len(s) |-> s[k]]
    OBVIOUS
  <2>3. QED
    BY <2>1, <2>2
<1>3. QED
  BY <1>1, <1>2 DEF Contents

\* A call after which every vector shows what it showed before is no step.
LEMMA Stutters ==
  ASSUME IInv, size' = size,
         \A u \in Vectors : \A k \in 1 .. size[u] : data'[u][k - 1] = data[u][k - 1]
  PROVE  Contents' = Contents
<1>1. ASSUME NEW u \in Vectors PROVE dv_foreach(u)' = dv_foreach(u)
  BY DEF dv_foreach
<1>2. QED
  BY <1>1 DEF Contents

\* The operations on sequences, element by element.
LEMMA Inserted ==
  ASSUME NEW S, NEW s \in Seq(S), NEW p \in 1 .. Len(s), NEW x \in S
  PROVE  /\ Seqs!InsertAt(s, p, x) \in Seq(S)
         /\ Len(Seqs!InsertAt(s, p, x)) = Len(s) + 1
         /\ \A k \in 1 .. Len(s) + 1 :
              Seqs!InsertAt(s, p, x)[k] = IF k < p THEN s[k]
                                          ELSE IF k = p THEN x ELSE s[k - 1]
<1> DEFINE a == SubSeq(s, 1, p - 1)
           b == SubSeq(s, p, Len(s))
           c == a \o <<x>>
<1>1. /\ a \in Seq(S) /\ Len(a) = p - 1
      /\ \A k \in 1 .. p - 1 : a[k] = s[k]
  OBVIOUS
<1>2. /\ b \in Seq(S) /\ Len(b) = Len(s) - p + 1
      /\ \A k \in 1 .. Len(s) - p + 1 : b[k] = s[p + k - 1]
  OBVIOUS
<1>3. Seqs!InsertAt(s, p, x) = c \o b
  BY DEF Seqs!InsertAt
<1> HIDE DEF a, b
<1>4. /\ c \in Seq(S) /\ Len(c) = p /\ c[p] = x
      /\ \A k \in 1 .. p - 1 : c[k] = s[k]
  BY <1>1
<1> HIDE DEF c
<1>5. /\ c \o b \in Seq(S) /\ Len(c \o b) = Len(s) + 1
      /\ \A k \in 1 .. Len(s) + 1 :
           (c \o b)[k] = IF k <= p THEN c[k] ELSE b[k - p]
  <2>1. /\ c \o b \in Seq(S) /\ Len(c \o b) = Len(c) + Len(b)
        /\ \A k \in 1 .. Len(c) + Len(b) :
             (c \o b)[k] = IF k <= Len(c) THEN c[k] ELSE b[k - Len(c)]
    BY <1>2, <1>4, ConcatProperties
  <2>2. Len(c) + Len(b) = Len(s) + 1
    BY <1>2, <1>4
  <2>3. QED
    BY <1>4, <2>1, <2>2
<1>6. ASSUME NEW k \in 1 .. Len(s) + 1
      PROVE  (c \o b)[k] = IF k < p THEN s[k] ELSE IF k = p THEN x ELSE s[k - 1]
  <2>1. CASE k <= p
    BY <1>4, <1>5, <2>1
  <2>2. CASE ~(k <= p)
    <3>1. k - p \in 1 .. Len(s) - p + 1 /\ p + (k - p) - 1 = k - 1
      BY <2>2
    <3>2. QED
      BY <1>2, <1>5, <2>2, <3>1
  <2>3. QED
    BY <2>1, <2>2
<1>7. QED
  BY <1>3, <1>5, <1>6

LEMMA Removed ==
  ASSUME NEW S, NEW s \in Seq(S), NEW p \in 1 .. Len(s)
  PROVE  /\ Seqs!RemoveAt(s, p) \in Seq(S)
         /\ Len(Seqs!RemoveAt(s, p)) = Len(s) - 1
         /\ \A k \in 1 .. Len(s) - 1 :
              Seqs!RemoveAt(s, p)[k] = IF k < p THEN s[k] ELSE s[k + 1]
<1> DEFINE a == SubSeq(s, 1, p - 1)
           b == SubSeq(s, p + 1, Len(s))
<1>1. /\ a \in Seq(S) /\ Len(a) = p - 1
      /\ \A k \in 1 .. p - 1 : a[k] = s[k]
  OBVIOUS
<1>2. /\ b \in Seq(S) /\ Len(b) = Len(s) - p
      /\ \A k \in 1 .. Len(s) - p : b[k] = s[p + k]
  OBVIOUS
<1>3. Seqs!RemoveAt(s, p) = a \o b
  BY DEF Seqs!RemoveAt
<1> HIDE DEF a, b
<1>4. /\ a \o b \in Seq(S) /\ Len(a \o b) = Len(s) - 1
      /\ \A k \in 1 .. Len(s) - 1 :
           (a \o b)[k] = IF k <= p - 1 THEN a[k] ELSE b[k - (p - 1)]
  <2>1. /\ a \o b \in Seq(S) /\ Len(a \o b) = Len(a) + Len(b)
        /\ \A k \in 1 .. Len(a) + Len(b) :
             (a \o b)[k] = IF k <= Len(a) THEN a[k] ELSE b[k - Len(a)]
    BY <1>1, <1>2, ConcatProperties
  <2>2. Len(a) + Len(b) = Len(s) - 1
    BY <1>1, <1>2
  <2>3. QED
    BY <1>1, <2>1, <2>2
<1>5. ASSUME NEW k \in 1 .. Len(s) - 1
      PROVE  (a \o b)[k] = IF k < p THEN s[k] ELSE s[k + 1]
  <2>1. CASE k < p
    BY <1>1, <1>4, <2>1
  <2>2. CASE ~(k < p)
    <3>1. k - (p - 1) \in 1 .. Len(s) - p /\ p + (k - (p - 1)) = k + 1
      BY <2>2
    <3>2. QED
      BY <1>2, <1>4, <2>2, <3>1
  <2>3. QED
    BY <2>1, <2>2
<1>6. QED
  BY <1>3, <1>4, <1>5

\* The calls, each as a step of Vec on the contents.

LEMMA PushRefines ==
  ASSUME IInv, IInv', NEW v \in Vectors, NEW x \in Items, dv_push(v, x)
  PROVE  Contents' = [Contents EXCEPT ![v] = Append(Contents[v], x)]
<1> DEFINE n == size[v] + 1
           s == Append(Contents[v], x)
<1>1. /\ Contents[v] \in Seq(Items) /\ Len(Contents[v]) = size[v] /\ size[v] \in Nat
      /\ \A k \in 1 .. size[v] : Contents[v][k] = data[v][k - 1]
  BY Elements
<1>2. /\ s \in Seq(Items) /\ Len(s) = n /\ s[n] = x
      /\ \A k \in 1 .. size[v] : s[k] = Contents[v][k]
  BY <1>1
<1>3. /\ size' = [size EXCEPT ![v] = n]
      /\ data' = [data EXCEPT ![v] = [Enlarged(v, n) EXCEPT ![size[v]] = x]]
      /\ DOMAIN size = Vectors /\ DOMAIN data = Vectors
  BY DEF dv_push, Resize, IInv, TypeOK
<1>4. /\ DOMAIN Enlarged(v, n) = 0 .. Room(v, n) - 1 /\ Room(v, n) \in Nat /\ n <= Room(v, n)
      /\ \A i \in 0 .. size[v] - 1 : Enlarged(v, n)[i] = data[v][i]
  BY <1>1, Enlarges, Keeps
<1>5. ASSUME NEW k \in 1 .. n PROVE data'[v][k - 1] = s[k]
  <2>1. data'[v] = [Enlarged(v, n) EXCEPT ![size[v]] = x] /\ k - 1 \in DOMAIN Enlarged(v, n)
    BY <1>1, <1>3, <1>4
  <2>2. CASE k = n
    BY <1>1, <1>2, <2>1, <2>2
  <2>3. CASE k # n
    <3>1. k \in 1 .. size[v] /\ k - 1 \in 0 .. size[v] - 1 /\ k - 1 # size[v]
      BY <1>1, <2>3
    <3>2. data'[v][k - 1] = Enlarged(v, n)[k - 1]
      BY <2>1, <3>1
    <3>3. QED
      BY <1>1, <1>2, <1>4, <3>1, <3>2
  <2>4. QED
    BY <2>2, <2>3
<1>6. size'[v] = Len(s) /\ \A u \in Vectors \ {v} : size'[u] = size[u] /\ data'[u] = data[u]
  BY <1>2, <1>3
<1> HIDE DEF n, s
<1>7. Contents' = [Contents EXCEPT ![v] = s]
  BY <1>2, <1>5, <1>6, Assigns
<1>8. QED
  BY <1>7 DEF s

LEMMA InsertRefines ==
  ASSUME IInv, IInv', NEW v \in Vectors, NEW pos \in Nat, NEW x \in Items,
         dv_insert_at(v, pos, x), pos < size[v]
  PROVE  Contents' = [Contents EXCEPT ![v] = Seqs!InsertAt(Contents[v], pos + 1, x)]
<1> DEFINE n == size[v] + 1
           old == Contents[v]
           s == Seqs!InsertAt(old, pos + 1, x)
           longer == Enlarged(v, n)
<1>1. /\ old \in Seq(Items) /\ Len(old) = size[v] /\ size[v] \in Nat
      /\ \A k \in 1 .. size[v] : old[k] = data[v][k - 1]
  BY Elements
<1>2. pos + 1 \in 1 .. Len(old)
  BY <1>1
<1> HIDE DEF old
<1>3. /\ s \in Seq(Items) /\ Len(s) = n
      /\ \A k \in 1 .. n : s[k] = IF k < pos + 1 THEN old[k]
                                  ELSE IF k = pos + 1 THEN x ELSE old[k - 1]
  BY <1>1, <1>2, Inserted
<1>4. /\ size' = [size EXCEPT ![v] = n]
      /\ data' = [data EXCEPT ![v] = Shifted(longer, n, pos, x)]
      /\ DOMAIN size = Vectors /\ DOMAIN data = Vectors
  <2>1. ~(pos > size[v])
    BY <1>1
  <2>2. QED
    BY <2>1 DEF dv_insert_at, Resize, IInv, TypeOK
<1>5. /\ DOMAIN longer = 0 .. Room(v, n) - 1 /\ Room(v, n) \in Nat /\ n <= Room(v, n)
      /\ \A i \in 0 .. size[v] - 1 : longer[i] = data[v][i]
  <2>1. n \in Nat
    BY <1>1
  <2> HIDE DEF n
  <2>2. Room(v, n) \in Nat /\ n <= Room(v, n)
    BY <2>1, Enlarges
  <2>3. QED
    BY <2>1, <2>2, Keeps
<1> HIDE DEF s, longer
<1>6. ASSUME NEW k \in 1 .. n PROVE data'[v][k - 1] = s[k]
  <2>1. /\ data'[v] = Shifted(longer, n, pos, x)
        /\ k - 1 \in DOMAIN longer /\ k - 1 \in Nat /\ k - 1 < n
    BY <1>1, <1>4, <1>5
  <2>2. data'[v][k - 1] = IF k - 1 = pos THEN x
                          ELSE IF pos < k - 1 THEN longer[(k - 1) - 1] ELSE longer[k - 1]
    BY <1>1, <2>1 DEF Shifted
  <2>3. CASE k - 1 = pos
    BY <1>3, <2>2, <2>3
  <2>4. CASE pos < k - 1
    <3>1. (k - 1) - 1 \in 0 .. size[v] - 1 /\ k - 1 \in 1 .. size[v]
      BY <1>1, <2>4
    <3>2. longer[(k - 1) - 1] = old[k - 1]
      BY <1>1, <1>5, <3>1
    <3>3. s[k] = old[k - 1]
      BY <1>3, <2>4
    <3>4. QED
      BY <2>2, <2>4, <3>2, <3>3
  <2>5. CASE k - 1 < pos
    <3>1. k - 1 \in 0 .. size[v] - 1 /\ k \in 1 .. size[v]
      BY <1>1, <2>5
    <3>2. longer[k - 1] = old[k]
      BY <1>1, <1>5, <3>1
    <3>3. s[k] = old[k]
      BY <1>3, <2>5
    <3>4. QED
      BY <2>2, <2>5, <3>2, <3>3
  <2>6. QED
    BY <2>1, <2>3, <2>4, <2>5
<1>7. size'[v] = Len(s) /\ \A u \in Vectors \ {v} : size'[u] = size[u] /\ data'[u] = data[u]
  BY <1>3, <1>4
<1> HIDE DEF n
<1>8. Contents' = [Contents EXCEPT ![v] = s]
  BY <1>3, <1>6, <1>7, Assigns
<1>9. QED
  BY <1>8 DEF s, old

LEMMA RemoveRefines ==
  ASSUME IInv, IInv', NEW v \in Vectors, NEW pos \in Nat,
         dv_remove_at(v, pos), pos < size[v]
  PROVE  Contents' = [Contents EXCEPT ![v] = Seqs!RemoveAt(Contents[v], pos + 1)]
<1> DEFINE n == size[v] - 1
           old == Contents[v]
           s == Seqs!RemoveAt(old, pos + 1)
<1>1. /\ old \in Seq(Items) /\ Len(old) = size[v] /\ size[v] \in Nat
      /\ \A k \in 1 .. size[v] : old[k] = data[v][k - 1]
  BY Elements
<1>2. pos + 1 \in 1 .. Len(old)
  BY <1>1
<1> HIDE DEF old
<1>3. /\ s \in Seq(Items) /\ Len(s) = n
      /\ \A k \in 1 .. n : s[k] = IF k < pos + 1 THEN old[k] ELSE old[k + 1]
  <2> DEFINE p == pos + 1
  <2>1. p \in 1 .. Len(old)
    BY <1>2
  <2> HIDE DEF p
  <2>2. /\ Seqs!RemoveAt(old, p) \in Seq(Items)
        /\ Len(Seqs!RemoveAt(old, p)) = Len(old) - 1
        /\ \A k \in 1 .. Len(old) - 1 :
              Seqs!RemoveAt(old, p)[k] = IF k < p THEN old[k] ELSE old[k + 1]
    BY <1>1, <2>1, Removed
  <2>3. QED
    BY <1>1, <2>2 DEF p
<1>4. /\ size' = [size EXCEPT ![v] = n]
      /\ data' = [data EXCEPT ![v] = Closed(data[v], n, pos)]
      /\ DOMAIN size = Vectors /\ DOMAIN data = Vectors
      /\ DOMAIN data[v] = 0 .. capacity[v] - 1 /\ capacity[v] \in Nat /\ size[v] <= capacity[v]
  BY DEF dv_remove_at, IInv, TypeOK, ElementsWritten
<1> HIDE DEF s
<1>5. ASSUME NEW k \in 1 .. n PROVE data'[v][k - 1] = s[k]
  <2>1. /\ data'[v] = Closed(data[v], n, pos)
        /\ k - 1 \in DOMAIN data[v] /\ k - 1 < n /\ k - 1 \in Nat
        /\ k \in 1 .. size[v] /\ k + 1 \in 1 .. size[v]
    BY <1>1, <1>4
  <2>2. data'[v][k - 1] = IF pos <= k - 1 THEN data[v][(k - 1) + 1] ELSE data[v][k - 1]
    BY <1>1, <2>1 DEF Closed
  <2>3. CASE pos <= k - 1
    <3>1. data[v][(k - 1) + 1] = old[k + 1]
      <4>1. (k - 1) + 1 = (k + 1) - 1
        OBVIOUS
      <4>2. QED
        BY <1>1, <2>1, <4>1
    <3>2. QED
      BY <1>3, <2>2, <2>3, <3>1
  <2>4. CASE ~(pos <= k - 1)
    <3>1. data[v][k - 1] = old[k]
      BY <1>1, <2>1
    <3>2. QED
      BY <1>3, <2>2, <2>4, <3>1
  <2>5. QED
    BY <2>3, <2>4
<1>6. size'[v] = Len(s) /\ \A u \in Vectors \ {v} : size'[u] = size[u] /\ data'[u] = data[u]
  BY <1>3, <1>4
<1> HIDE DEF n
<1>7. Contents' = [Contents EXCEPT ![v] = s]
  BY <1>3, <1>5, <1>6, Assigns
<1>8. QED
  BY <1>7 DEF s, old

LEMMA CopyRefines ==
  ASSUME IInv, IInv', NEW v \in Vectors, NEW dest \in Vectors, dv_copy(v, dest)
  PROVE  Contents' = [Contents EXCEPT ![dest] = Contents[v]]
<1> DEFINE n == size[v]
           s == Contents[v]
           longer == Enlarged(dest, n)
<1>1. /\ s \in Seq(Items) /\ Len(s) = n /\ n \in Nat
      /\ \A k \in 1 .. n : s[k] = data[v][k - 1]
  BY Elements
<1>2. /\ size' = [size EXCEPT ![dest] = n]
      /\ data' = [data EXCEPT ![dest] =
                     [i \in DOMAIN longer |-> IF i < n THEN data[v][i] ELSE longer[i]]]
      /\ DOMAIN size = Vectors /\ DOMAIN data = Vectors
  BY DEF dv_copy, Resize, IInv, TypeOK
<1>3. DOMAIN longer = 0 .. Room(dest, n) - 1 /\ Room(dest, n) \in Nat /\ n <= Room(dest, n)
  BY <1>1, Enlarges, Keeps
<1> HIDE DEF s, longer, n
<1>4. ASSUME NEW k \in 1 .. n PROVE data'[dest][k - 1] = s[k]
  <2>1. k - 1 \in DOMAIN longer /\ k - 1 < n
    BY <1>1, <1>3
  <2>2. QED
    BY <1>1, <1>2, <2>1
<1>5. size'[dest] = Len(s) /\ \A u \in Vectors \ {dest} : size'[u] = size[u] /\ data'[u] = data[u]
  BY <1>1, <1>2
<1>6. Contents' = [Contents EXCEPT ![dest] = s]
  BY <1>1, <1>4, <1>5, Assigns
<1>7. QED
  BY <1>6 DEF s

LEMMA PopRefines ==
  ASSUME IInv, IInv', NEW v \in Vectors, dv_pop(v), size[v] > 0
  PROVE  /\ Contents[v] # <<>>
         /\ Contents' = [Contents EXCEPT ![v] = Seqs!Front(Contents[v])]
<1> DEFINE old == Contents[v]
           s == SubSeq(old, 1, Len(old) - 1)
<1>1. /\ old \in Seq(Items) /\ Len(old) = size[v] /\ size[v] \in Nat
      /\ \A k \in 1 .. size[v] : old[k] = data[v][k - 1]
  BY Elements
<1> HIDE DEF old
<1>2. /\ s \in Seq(Items) /\ Len(s) = size[v] - 1
      /\ \A k \in 1 .. size[v] - 1 : s[k] = old[k]
  BY <1>1
<1>3. /\ size' = [size EXCEPT ![v] = size[v] - 1] /\ data' = data /\ DOMAIN size = Vectors
  BY DEF dv_pop, IInv, TypeOK
<1> HIDE DEF s
<1>4. /\ size'[v] = Len(s) /\ \A k \in 1 .. Len(s) : data'[v][k - 1] = s[k]
      /\ \A u \in Vectors \ {v} : size'[u] = size[u] /\ data'[u] = data[u]
  BY <1>1, <1>2, <1>3
<1>5. Contents' = [Contents EXCEPT ![v] = s]
  BY <1>2, <1>4, Assigns
<1>6. old # <<>>
  BY <1>1
<1>7. QED
  BY <1>5, <1>6 DEF s, old, Seqs!Front

\* A vector that is cleared or destroyed holds nothing.
LEMMA EmptyRefines ==
  ASSUME IInv, IInv', NEW v \in Vectors, dv_clear(v) \/ dv_destroy(v)
  PROVE  Contents' = [Contents EXCEPT ![v] = <<>>]
<1>1. /\ size'[v] = 0
      /\ \A u \in Vectors \ {v} : size'[u] = size[u] /\ data'[u] = data[u]
  BY DEF dv_clear, dv_destroy, IInv, TypeOK
<1>2. <<>> \in Seq(Items) /\ Len(<<>>) = 0
  OBVIOUS
<1>3. \A k \in 1 .. 0 : data'[v][k - 1] = <<>>[k]
  OBVIOUS
<1>4. QED
  BY <1>1, <1>2, <1>3, Assigns

LEMMA InsertAtEndRefines ==
  ASSUME IInv, IInv', NEW v \in Vectors, NEW x \in Items, dv_insert_at(v, size[v], x)
  PROVE  Contents' = [Contents EXCEPT ![v] = Append(Contents[v], x)]
<1> DEFINE n == size[v] + 1
           old == Contents[v]
           s == Append(old, x)
           longer == Enlarged(v, n)
<1>1. /\ old \in Seq(Items) /\ Len(old) = size[v] /\ size[v] \in Nat
      /\ \A k \in 1 .. size[v] : old[k] = data[v][k - 1]
  BY Elements
<1> HIDE DEF old
<1>2. /\ s \in Seq(Items) /\ Len(s) = n /\ s[n] = x
      /\ \A k \in 1 .. size[v] : s[k] = old[k]
  BY <1>1
<1>3. /\ size' = [size EXCEPT ![v] = n]
      /\ data' = [data EXCEPT ![v] = Shifted(longer, n, size[v], x)]
      /\ DOMAIN size = Vectors /\ DOMAIN data = Vectors
  <2>1. ~(size[v] > size[v])
    BY <1>1
  <2>2. QED
    BY <2>1 DEF dv_insert_at, Resize, IInv, TypeOK
<1>4. /\ DOMAIN longer = 0 .. Room(v, n) - 1 /\ Room(v, n) \in Nat /\ n <= Room(v, n)
      /\ \A i \in 0 .. size[v] - 1 : longer[i] = data[v][i]
  <2>1. n \in Nat
    BY <1>1
  <2> HIDE DEF n
  <2>2. Room(v, n) \in Nat /\ n <= Room(v, n)
    BY <2>1, Enlarges
  <2>3. QED
    BY <2>1, <2>2, Keeps
<1> HIDE DEF s, longer
<1>5. ASSUME NEW k \in 1 .. n PROVE data'[v][k - 1] = s[k]
  <2>1. /\ data'[v] = Shifted(longer, n, size[v], x)
        /\ k - 1 \in DOMAIN longer /\ k - 1 \in Nat /\ k - 1 <= size[v]
    BY <1>1, <1>3, <1>4
  <2>2. data'[v][k - 1] = IF k - 1 = size[v] THEN x ELSE longer[k - 1]
    BY <1>1, <2>1 DEF Shifted
  <2>3. CASE k - 1 = size[v]
    BY <1>1, <1>2, <2>2, <2>3
  <2>4. CASE k - 1 # size[v]
    <3>1. k - 1 \in 0 .. size[v] - 1 /\ k \in 1 .. size[v]
      BY <1>1, <2>1, <2>4
    <3>2. QED
      BY <1>1, <1>2, <1>4, <2>2, <2>4, <3>1
  <2>5. QED
    BY <2>3, <2>4
<1>6. size'[v] = Len(s) /\ \A u \in Vectors \ {v} : size'[u] = size[u] /\ data'[u] = data[u]
  BY <1>2, <1>3
<1> HIDE DEF n
<1>7. Contents' = [Contents EXCEPT ![v] = s]
  BY <1>2, <1>5, <1>6, Assigns
<1>8. QED
  BY <1>7 DEF s, old

LEMMA EnsureStutters ==
  ASSUME IInv, NEW v \in Vectors, NEW n \in Nat, dv_ensure_capacity(v, n)
  PROVE  Contents' = Contents
<1>1. /\ size' = size /\ data' = [data EXCEPT ![v] = Enlarged(v, n)]
      /\ DOMAIN data = Vectors /\ size \in [Vectors -> Nat]
  BY DEF dv_ensure_capacity, IInv, TypeOK
<1>2. ASSUME NEW u \in Vectors, NEW k \in 1 .. size[u]
      PROVE  data'[u][k - 1] = data[u][k - 1]
  <2>1. k - 1 \in 0 .. size[u] - 1
    BY <1>1
  <2>2. QED
    BY <1>1, <2>1, Keeps
<1>3. QED
  BY <1>1, <1>2, Stutters

LEMMA InitStutters ==
  ASSUME IInv, NEW v \in Vectors, dv_init(v)
  PROVE  Contents' = Contents
<1>1. /\ size \in [Vectors -> Nat] /\ DOMAIN data = Vectors /\ size[v] = 0
  BY DEF dv_init, IInv, TypeOK
<1>2. size' = size /\ \A u \in Vectors \ {v} : data'[u] = data[u]
  BY <1>1 DEF dv_init
<1>3. \A k \in 1 .. size[v] : FALSE
  BY <1>1
<1>4. QED
  BY <1>2, <1>3, Stutters

THEOREM Invariance == Spec => []IInv
<1>1. Init => IInv
  BY Start
<1>2. IInv /\ [Next]_vars => IInv'
  BY Step
<1>3. QED
  BY <1>1, <1>2, PTL DEF Spec

\* The array is always exactly as long as the capacity says.
THEOREM TypeCorrect == Spec => []TypeOK
<1>1. IInv => TypeOK
  BY DEF IInv
<1>2. QED
  BY <1>1, Invariance, PTL

\* No call ever shows its caller memory nobody has written.
THEOREM NothingUnwritten == Spec => []ElementsWritten
<1>1. IInv => ElementsWritten
  BY DEF IInv
<1>2. QED
  BY <1>1, Invariance, PTL
\* A living vector's array only ever grows, and then by a quarter at least.
THEOREM Growing == Spec => GrowsGeometrically
<1>1. IInv /\ [Next]_vars =>
        [\A v \in Vectors :
            phase[v] = "live" /\ phase'[v] = "live" =>
                \/ capacity'[v] = capacity[v]
                \/ /\ capacity'[v] > capacity[v]
                   /\ capacity'[v] >= Quarter(capacity[v])]_vars
  BY Growth
<1>2. QED
  BY <1>1, Invariance, PTL DEF Spec, GrowsGeometrically

\* The vectors are sequences: every call either does to the items of one vector
\* what the header says, or shows its caller no difference.
THEOREM Implementation == Spec => IsSequence
<1>1. Init => Seqs!VecInit
  <2> SUFFICES ASSUME Init PROVE Contents = [v \in Vectors |-> <<>>]
    BY DEF Seqs!VecInit, Contents
  <2>1. ASSUME NEW v \in Vectors PROVE dv_foreach(v) = <<>>
    <3>1. size[v] = 0
      BY DEF Init
    <3>2. dv_foreach(v) = [k \in 1 .. 0 |-> data[v][k - 1]]
      BY <3>1 DEF dv_foreach
    <3>3. QED
      BY <3>2
  <2>2. QED
    BY <2>1 DEF Contents
<1>2. IInv /\ [Next]_vars /\ IInv' => [Seqs!VecNext]_Contents
  <2> SUFFICES ASSUME IInv, IInv', [Next]_vars PROVE [Seqs!VecNext]_Contents
    OBVIOUS
  <2>1. ASSUME NEW v \in Vectors, NEW s, Contents' = [Contents EXCEPT ![v] = s]
        PROVE  Seqs!Becomes(v, s)
    BY <2>1 DEF Seqs!Becomes, Contents
  <2>2. ASSUME NEW v \in Vectors, NEW x \in Items, dv_push(v, x) PROVE Seqs!VecNext
    <3>1. Seqs!VecPush(v, x)
      BY <2>1, <2>2, PushRefines DEF Seqs!VecPush, Contents
    <3>2. QED
      BY <3>1 DEF Seqs!VecNext
  <2>3. ASSUME NEW v \in Vectors, NEW pos \in 0 .. MaxSize, NEW x \in Items,
               dv_insert_at(v, pos, x)
        PROVE  Seqs!VecNext
    <3> pos \in Nat /\ size[v] \in Nat
      BY ReservedAssumption DEF IInv, TypeOK
    <3>1. CASE pos > size[v]
      BY <2>2, <2>3, <3>1 DEF dv_insert_at
    <3>2. CASE pos = size[v]
      BY <2>1, <2>2, <2>3, <3>2, InsertAtEndRefines DEF Seqs!VecNext, Seqs!VecPush, Contents
    <3>3. CASE pos < size[v]
      <4>1. Contents' = [Contents EXCEPT ![v] = Seqs!InsertAt(Contents[v], pos + 1, x)]
        BY <2>3, <3>3, InsertRefines
      <4>2. Len(Contents[v]) = size[v] /\ pos \in 0 .. Len(Contents[v])
        BY <3>3, Elements
      <4>3. Seqs!VecInsert(v, pos, x)
        BY <2>1, <3>3, <4>1, <4>2 DEF Seqs!VecInsert, Contents
      <4>4. QED
        BY <4>2, <4>3 DEF Seqs!VecNext, Contents
    <3>4. QED
      BY <3>1, <3>2, <3>3
  <2>4. ASSUME NEW v \in Vectors, NEW pos \in 0 .. MaxSize, dv_remove_at(v, pos)
        PROVE  Seqs!VecNext \/ UNCHANGED Contents
    <3> pos \in Nat /\ size[v] \in Nat
      BY ReservedAssumption DEF IInv, TypeOK
    <3>1. CASE pos < size[v]
      <4>1. Contents' = [Contents EXCEPT ![v] = Seqs!RemoveAt(Contents[v], pos + 1)]
        BY <2>4, <3>1, RemoveRefines
      <4>2. Len(Contents[v]) = size[v] /\ pos \in 0 .. Len(Contents[v])
        BY <3>1, Elements
      <4>3. Seqs!VecRemove(v, pos)
        BY <2>1, <3>1, <4>1, <4>2 DEF Seqs!VecRemove, Contents
      <4>4. QED
        BY <4>2, <4>3 DEF Seqs!VecNext, Contents
    <3>2. CASE ~(pos < size[v])
      BY <2>4, <3>2, Stutters DEF dv_remove_at
    <3>3. QED
      BY <3>1, <3>2
  <2>5. ASSUME NEW v \in Vectors, dv_clear(v) \/ dv_destroy(v) PROVE Seqs!VecNext
    <3>1. Seqs!VecClear(v)
      BY <2>1, <2>5, EmptyRefines DEF Seqs!VecClear
    <3>2. QED
      BY <3>1 DEF Seqs!VecNext
  <2>6. ASSUME NEW v \in Vectors, dv_pop(v) PROVE Seqs!VecNext \/ UNCHANGED Contents
    <3>1. CASE size[v] > 0
      <4>1. Seqs!VecPop(v)
        BY <2>1, <2>6, <3>1, PopRefines DEF Seqs!VecPop, Contents
      <4>2. QED
        BY <4>1 DEF Seqs!VecNext
    <3>2. CASE ~(size[v] > 0)
      <4>1. size \in [Vectors -> Nat]
        BY DEF IInv, TypeOK
      <4>2. size' = size /\ data' = data
        BY <2>6, <3>2, <4>1 DEF dv_pop
      <4>3. QED
        BY <4>2, Stutters
    <3>3. QED
      BY <3>1, <3>2
  <2>7. ASSUME NEW v \in Vectors, NEW dest \in Vectors, dv_copy(v, dest) PROVE Seqs!VecNext
    <3>1. Seqs!VecCopy(v, dest)
      BY <2>1, <2>7, CopyRefines DEF Seqs!VecCopy, Contents
    <3>2. QED
      BY <3>1 DEF Seqs!VecNext
  <2>8. ASSUME NEW v \in Vectors, NEW n \in Reserved, dv_ensure_capacity(v, n)
        PROVE  UNCHANGED Contents
    BY <2>8, EnsureStutters, ReservedAssumption
  <2>9. ASSUME NEW v \in Vectors, dv_init(v) PROVE UNCHANGED Contents
    BY <2>9, InitStutters
  <2>10. ASSUME NEW v \in Vectors, Calls(v) PROVE [Seqs!VecNext]_Contents
    BY <2>2, <2>3, <2>4, <2>5, <2>6, <2>7, <2>8, <2>9, <2>10 DEF Calls
  <2>11. CASE UNCHANGED vars
    BY <2>11, Stutters DEF vars
  <2>12. QED
    BY <2>10, <2>11 DEF Next
<1>3. [Seqs!VecNext]_Contents => [Seqs!VecNext]_[v \in Vectors |-> dv_foreach(v)]
  BY DEF Contents
<1>4. QED
  BY <1>1, <1>2, <1>3, Invariance, PTL DEF Spec, IsSequence, Seqs!VecSpec
=============================================================================
