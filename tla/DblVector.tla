----------------------------- MODULE DblVector -----------------------------
(***************************************************************************)
(* A1/Vector/dbl_vector.c: vectors of doubles over an array that grows by  *)
(* a quarter.  One action is one call of the interface, with its loops;    *)
(* what a loop reads and writes, index by index, is kept, because the      *)
(* array is longer than the vector and one write leaves it.                *)
(*                                                                         *)
(* malloc and realloc are taken to succeed (their results are not looked   *)
(* at), and sizes to stay below INT_MAX (the loops count in an int).       *)
(***************************************************************************)
EXTENDS Naturals, Sequences

CONSTANTS Vectors,              \* the vectors a program uses
          Items, NaN,           \* doubles
          Garbage,              \* what fresh memory holds
          DV_INITIAL_CAPACITY,
          MaxSize,              \* a bound on the sizes callers ask for
          Reserved              \* the arguments of dv_ensure_capacity

ASSUME CapacityAssumption == DV_INITIAL_CAPACITY \in Nat \ {0}
ASSUME GarbageAssumption == Garbage \notin Items
ASSUME ReservedAssumption == MaxSize \in Nat /\ Reserved \subseteq Nat

VARIABLES phase,        \* "raw" before dv_init, "live", "dead" after dv_destroy
          size, capacity,
          data,         \* data[v]: the array, indexed 0 .. capacity[v] - 1
          overrun       \* a call has written behind an array; C leaves what
                        \* follows undefined, and the model goes on with the
                        \* runs in which the program does

vars == <<phase, size, capacity, data, overrun>>

NoArray == [i \in {} |-> Garbage]

Init == /\ phase = [v \in Vectors |-> "raw"]
        /\ size = [v \in Vectors |-> 0]
        /\ capacity = [v \in Vectors |-> 0]
        /\ data = [v \in Vectors |-> NoArray]
        /\ overrun = FALSE

-----------------------------------------------------------------------------
(* Helpers *)

Live(v) == phase[v] = "live"

\* capacity * DV_GROWTH_FACTOR, truncated: a quarter more.
Quarter(c) == (5 * c) \div 4

\* Mutation: the growth factor is forgotten.
GrownCapacityExact(c, n) == IF n > c THEN n ELSE c

\* The capacity after dv_ensure_capacity(vec, n).
GrownCapacity(c, n) ==
    IF n <= c THEN c ELSE IF Quarter(c) < n THEN n ELSE Quarter(c)

\* realloc: the longer array begins with the old one.
Realloc(array, c) ==
    [i \in 0 .. c - 1 |-> IF i \in DOMAIN array THEN array[i] ELSE Garbage]

\* Capacity and array of v after dv_ensure_capacity(v, n).
Room(v, n) == GrownCapacity(capacity[v], n)
Enlarged(v, n) == Realloc(data[v], Room(v, n))

\* Vector v gets n elements, room for them, and this array.
Resize(v, n, array) ==
    /\ size' = [size EXCEPT ![v] = n]
    /\ capacity' = [capacity EXCEPT ![v] = Room(v, n)]
    /\ data' = [data EXCEPT ![v] = array]

-----------------------------------------------------------------------------
(* The calls that only read *)

dv_last(v) == IF size[v] > 0 THEN data[v][size[v] - 1] ELSE NaN

\* The elements in the order in which the callback gets them.
dv_foreach(v) == [k \in 1 .. size[v] |-> data[v][k - 1]]

-----------------------------------------------------------------------------
(* The calls that change a vector *)

dv_init(v) ==
    /\ phase[v] = "raw"
    /\ phase' = [phase EXCEPT ![v] = "live"]
    /\ size' = [size EXCEPT ![v] = 0]
    /\ capacity' = [capacity EXCEPT ![v] = DV_INITIAL_CAPACITY]
    /\ data' = [data EXCEPT ![v] = Realloc(NoArray, DV_INITIAL_CAPACITY)]
    /\ UNCHANGED overrun

\* Mutation: the capacity is raised, the array is not reallocated.
dv_ensure_capacity_only(v, n) ==
    /\ Live(v)
    /\ capacity' = [capacity EXCEPT ![v] = Room(v, n)]
    /\ UNCHANGED <<phase, size, data, overrun>>

dv_ensure_capacity(v, n) ==
    /\ Live(v)
    /\ capacity' = [capacity EXCEPT ![v] = Room(v, n)]
    /\ data' = [data EXCEPT ![v] = Enlarged(v, n)]
    /\ UNCHANGED <<phase, size, overrun>>

dv_destroy(v) ==
    /\ Live(v)
    /\ phase' = [phase EXCEPT ![v] = "dead"]
    /\ size' = [size EXCEPT ![v] = 0]
    /\ capacity' = [capacity EXCEPT ![v] = 0]
    /\ data' = [data EXCEPT ![v] = NoArray]
    /\ UNCHANGED overrun

\* Mutation: only the capacity dest already has is filled.
dv_copy_unresized(v, dest) ==
    /\ Live(v) /\ Live(dest) /\ v # dest
    /\ size' = [size EXCEPT ![dest] = size[v]]
    /\ data' = [data EXCEPT ![dest] =
                   [i \in DOMAIN @ |-> IF i < size[v] THEN data[v][i] ELSE @[i]]]
    /\ UNCHANGED <<phase, capacity, overrun>>

dv_copy(v, dest) ==
    /\ Live(v) /\ Live(dest) /\ v # dest
    /\ LET longer == Enlarged(dest, size[v])
       IN Resize(dest, size[v],
                 [i \in DOMAIN longer |->
                      IF i < size[v] THEN data[v][i] ELSE longer[i]])
    /\ UNCHANGED <<phase, overrun>>

dv_clear(v) ==
    /\ Live(v)
    /\ size' = [size EXCEPT ![v] = 0]
    /\ UNCHANGED <<phase, capacity, data, overrun>>

dv_push(v, x) ==
    /\ Live(v) /\ size[v] < MaxSize
    /\ Resize(v, size[v] + 1, [Enlarged(v, size[v] + 1) EXCEPT ![size[v]] = x])
    /\ UNCHANGED <<phase, overrun>>

dv_pop(v) ==
    /\ Live(v)
    /\ size' = [size EXCEPT ![v] = IF @ > 0 THEN @ - 1 ELSE 0]
    /\ UNCHANGED <<phase, capacity, data, overrun>>

\* Mutation: the shift goes forward, so the item at pos overwrites the rest.
ShiftedForward(array, n, pos, x) ==
    [i \in DOMAIN array |-> IF i = pos THEN x
                            ELSE IF pos < i /\ i <= n THEN array[pos]
                            ELSE array[i]]

\* The array after the loop of dv_insert_at, with n the new size, and the
\* store behind it.  The loop starts with i = n, one past the vector, and
\* moves there whatever the fresh slot held.
Shifted(array, n, pos, x) ==
    [i \in DOMAIN array |-> IF i = pos THEN x
                            ELSE IF pos < i /\ i <= n THEN array[i - 1]
                            ELSE array[i]]

\* A position past the end pushes.  Otherwise the first write of the loop is
\* outside the array when the new size is its capacity.
dv_insert_at(v, pos, x) ==
    IF pos > size[v] THEN dv_push(v, x)
    ELSE /\ Live(v) /\ size[v] < MaxSize
         /\ LET n == size[v] + 1
            IN /\ Resize(v, n, Shifted(Enlarged(v, n), n, pos, x))
               /\ overrun' = (overrun \/ n = Room(v, n))
         /\ UNCHANGED phase

\* The array after the loop of dv_remove_at, with n the new size.
Closed(array, n, pos) ==
    [i \in DOMAIN array |-> IF pos <= i /\ i < n THEN array[i + 1] ELSE array[i]]

dv_remove_at(v, pos) ==
    /\ Live(v)
    /\ IF pos < size[v]
       THEN /\ size' = [size EXCEPT ![v] = @ - 1]
            /\ data' = [data EXCEPT ![v] = Closed(@, size[v] - 1, pos)]
       ELSE UNCHANGED <<size, data>>
    /\ UNCHANGED <<phase, capacity, overrun>>

-----------------------------------------------------------------------------
Calls(v) ==
    \/ dv_init(v) \/ dv_destroy(v) \/ dv_clear(v) \/ dv_pop(v)
    \/ \E n \in Reserved : dv_ensure_capacity(v, n)
    \/ \E dest \in Vectors : dv_copy(v, dest)
    \/ \E x \in Items : dv_push(v, x)
    \/ \E pos \in 0 .. MaxSize, x \in Items : dv_insert_at(v, pos, x)
    \/ \E pos \in 0 .. MaxSize : dv_remove_at(v, pos)

Next == \E v \in Vectors : Calls(v)

Spec == Init /\ [][Next]_vars

-----------------------------------------------------------------------------
(* Properties *)

\* The types of the variables; the array is exactly as long as the capacity
\* says, and a vector that is not in use has none.
TypeOK ==
    /\ phase \in [Vectors -> {"raw", "live", "dead"}]
    /\ size \in [Vectors -> Nat]
    /\ capacity \in [Vectors -> Nat]
    /\ DOMAIN data = Vectors
    /\ \A v \in Vectors :
          data[v] \in [0 .. capacity[v] - 1 -> Items \cup {Garbage}]
    /\ \A v \in Vectors : phase[v] # "live" => size[v] = 0
    /\ overrun \in BOOLEAN

\* A vector is never longer than its array, and what dv_last and dv_foreach read
\* is what a caller put there: neither growing, copying nor shifting exposes
\* memory that was never written, although the array is full of it.
ElementsWritten ==
    \A v \in Vectors :
        /\ size[v] <= capacity[v]
        /\ \A i \in 0 .. size[v] - 1 : data[v][i] \in Items
        /\ dv_last(v) \in Items \cup {NaN}

\* The vectors implement the sequences of the header: pushing, inserting,
\* removing and copying change exactly the elements they should, of the one
\* vector they should, whatever the arrays hold behind the elements.
Seqs == INSTANCE Vec WITH contents <- [v \in Vectors |-> dv_foreach(v)]
IsSequence == Seqs!VecSpec

\* A vector that is alive keeps its array, or gets one that is longer, by a
\* quarter at least, rounded down as the code rounds it, and by one element at
\* least: no call shrinks it.
GrowsGeometrically ==
    [][\A v \in Vectors :
          phase[v] = "live" /\ phase'[v] = "live" =>
              \/ capacity'[v] = capacity[v]
              \/ /\ capacity'[v] > capacity[v]
                 /\ capacity'[v] >= Quarter(capacity[v])]_vars

\* The array "dynamically resizes (without loss of data) as items are added":
\* there is always room for what a call writes.
WritesInside == ~overrun
=============================================================================
