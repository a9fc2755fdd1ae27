----------------------------- MODULE HashTable -----------------------------
(***************************************************************************)
(* The hash table of P05/Hashtable_Search/hashtable_search.c: an array of  *)
(* buckets, each the list of the items whose keys hash to it.              *)
(*                                                                         *)
(* A list is the sequence of its items' keys, in the order of the next     *)
(* pointers.  Freeing an item changes no pointer to it, so the lists say   *)
(* what the memory said when it was last written, and item says which of   *)
(* their elements are still allocated.  A key is the number i it is made   *)
(* from; no two of them are equal below 26 * 26 * 26.                      *)
(***************************************************************************)
EXTENDS Integers, Sequences
LOCAL INSTANCE SequencesExt

CONSTANTS
    ITEMS,      \* 10000 in the code
    BUCKETS,    \* 100 in the code
    Values      \* of the items

ASSUME SizesAssumption ==
    /\ ITEMS \in 0 .. 26 * 26 * 26
    /\ BUCKETS \in Nat \ {0}
    /\ Values \subseteq Nat

Keys == 0 .. ITEMS - 1
Indexes == 0 .. BUCKETS - 1
NULL == -1

VARIABLES
    lists,      \* what h->buckets points to
    item,       \* which items are allocated
    value,      \* their values
    buckets,    \* whether h->buckets points to memory that is in use
    size        \* h->size

table == <<lists, item, value, buckets, size>>

-----------------------------------------------------------------------------
(* Hashing *)

Letters(i) == <<65 + (i % 26), 65 + ((i \div 26) % 26), 65 + ((i \div 676) % 26)>>

\* Three letters cannot take a size_t around.
djb_hash(s) ==
    LET add(hash, c) == hash * 33 + c
    IN  add(add(add(5381, s[1]), s[2]), s[3])

htab_index(k) == djb_hash(Letters(k)) % size

-----------------------------------------------------------------------------
(* The operations *)

\* calloc failed, and main returns; or it did not.
htab_init ==
    /\ lists = [b \in Indexes |-> <<>>]
    /\ item = [k \in Keys |-> "none"]
    /\ value = [k \in Keys |-> NULL]
    /\ buckets = "live"
    /\ size = BUCKETS

\* The first item that strcmp says is not the key, or NULL.
htab_find(k) ==
    LET list == lists[htab_index(k)]
        at == SelectInSeq(list, LAMBDA other : other # k)
    IN  IF at = 0 THEN NULL ELSE list[at]

\* malloc may fail.
htab_add(k, v) ==
    /\ \/ UNCHANGED <<lists, item, value>>
       \/ /\ item' = [item EXCEPT ![k] = "live"]
          /\ value' = [value EXCEPT ![k] = v]
          /\ lists' = [lists EXCEPT ![htab_index(k)] = <<k>> \o @]
    /\ UNCHANGED <<buckets, size>>

htab_delete(k) ==
    LET b == htab_index(k)
        there == Contains(lists[b], k)
    IN  /\ lists' = [lists EXCEPT ![b] = Remove(@, k)]
        /\ item' = [item EXCEPT ![k] = IF there THEN "freed" ELSE @]
        /\ UNCHANGED <<value, buckets, size>>

(* htab_destroy, a step for each call of free: at bucket b, item n. *)

FreeItem(b, n) ==
    /\ item' = [item EXCEPT ![lists[b][n]] = "freed"]
    /\ UNCHANGED <<lists, value, buckets, size>>

FreeBuckets ==
    /\ buckets' = "freed"
    /\ UNCHANGED <<lists, item, value, size>>

ForgetBuckets ==
    /\ buckets' = "NULL"
    /\ size' = 0
    /\ UNCHANGED <<lists, item, value>>

TableTypeOK ==
    /\ lists \in [Indexes -> Seq(Keys)]
    /\ item \in [Keys -> {"none", "live", "freed"}]
    /\ value \in [Keys -> Values \cup {NULL}]
    /\ buckets \in {"live", "freed", "NULL"}
    /\ size \in {0, BUCKETS}

=============================================================================
