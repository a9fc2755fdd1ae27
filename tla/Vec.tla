-------------------------------- MODULE Vec --------------------------------
(***************************************************************************)
(* What A1/Vector/dbl_vector.h promises its callers: a vector is a         *)
(* sequence.  Positions past the end insert at the end and remove nothing. *)
(***************************************************************************)
EXTENDS Naturals, Sequences, SequencesExt

CONSTANTS Vectors, Items

VARIABLE contents   \* contents[v]: the items of v, <<>> when v is not in use

VecInit == contents = [v \in Vectors |-> <<>>]

Becomes(v, s) == contents' = [contents EXCEPT ![v] = s]

VecClear(v) == Becomes(v, <<>>)
VecPush(v, x) == Becomes(v, Append(contents[v], x))
VecPop(v) == contents[v] # <<>> /\ Becomes(v, Front(contents[v]))
VecCopy(v, dest) == Becomes(dest, contents[v])

\* Position p counts from 0 and from 1 in the sequence.
VecInsert(v, p, x) ==
    Becomes(v, IF p < Len(contents[v]) THEN InsertAt(contents[v], p + 1, x)
               ELSE Append(contents[v], x))
VecRemove(v, p) ==
    p < Len(contents[v]) /\ Becomes(v, RemoveAt(contents[v], p + 1))

VecNext ==
    \E v \in Vectors :
         \/ VecClear(v) \/ VecPop(v)
         \/ \E x \in Items : VecPush(v, x)
         \/ \E x \in Items, p \in 0 .. Len(contents[v]) : VecInsert(v, p, x)
         \/ \E p \in 0 .. Len(contents[v]) : VecRemove(v, p)
         \/ \E dest \in Vectors : VecCopy(v, dest)

VecSpec == VecInit /\ [][VecNext]_contents
=============================================================================
