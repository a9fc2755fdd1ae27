---------------------------- MODULE HashContract ----------------------------
(***************************************************************************)
(* The functions of the hash table, called in any order by a caller who    *)
(* adds no key that is there already.  The search program itself calls     *)
(* neither htab_find nor htab_delete.                                      *)
(***************************************************************************)
EXTENDS HashTable
LOCAL INSTANCE SequencesExt

VARIABLES
    asked,      \* the key of the last htab_find, or NULL
    returned    \* what it returned

vars == <<table, asked, returned>>

Init == htab_init /\ asked = NULL /\ returned = NULL

Add(k) ==
    /\ item[k] # "live"
    /\ \E v \in Values : htab_add(k, v)
    /\ asked' = NULL /\ returned' = NULL

Delete(k) ==
    /\ htab_delete(k)
    /\ asked' = NULL /\ returned' = NULL

Find(k) ==
    /\ asked' = k
    /\ returned' = htab_find(k)
    /\ UNCHANGED table

Next == \E k \in Keys : Add(k) \/ Delete(k) \/ Find(k)

Spec == Init /\ [][Next]_vars

\* htab_find's post: "(return == NULL AND item not found) OR (strcmp(return->key,
\* key) == 0)".
FindPost ==
    asked # NULL =>
        \/ returned = NULL /\ item[asked] # "live"
        \/ returned = asked
=============================================================================
