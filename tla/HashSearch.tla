----------------------------- MODULE HashSearch -----------------------------
(***************************************************************************)
(* main and the search threads of P05/Hashtable_Search/hashtable_search.c: *)
(* main fills the table, starts the threads, each to print the keys with a *)
(* given value from a range of buckets of its own, does not wait for them, *)
(* destroys the table, and returns, which ends them.                       *)
(*                                                                         *)
(* A step of a thread is one read of the table.  What it reads from memory *)
(* that has been freed is what was there or what the allocator has put     *)
(* there since: another value, other letters, or a pointer that faults.    *)
(***************************************************************************)
EXTENDS HashTable

CONSTANTS
    THREADS,    \* 4 in the code
    search      \* the value on the command line, or 0

ASSUME ThreadsAssumption ==
    /\ THREADS \in Nat \ {0} /\ BUCKETS % THREADS = 0
    /\ search \in Int

BUCKET_SIZE == BUCKETS \div THREADS
Threads == 0 .. THREADS - 1
Garbage == -2       \* printed for a key
Wild == -3          \* a pointer read from freed memory

VARIABLES
    main,       \* where main is
    n,          \* its loop variable: the next key, the next thread, the next bucket
    freed,      \* how many items of that bucket htab_destroy has freed
    pc,         \* where each thread is
    i,          \* its bucket
    at,         \* its item: a place in the bucket's list, or Wild
    printed     \* what it has printed

threadvars == <<pc, i, at, printed>>
vars == <<table, main, n, freed, threadvars>>

start(t) == t * BUCKET_SIZE
end(t) == start(t) + BUCKET_SIZE

Init ==
    /\ htab_init
    /\ main = "add" /\ n = 0 /\ freed = 0
    /\ pc = [t \in Threads |-> "none"]
    /\ i = [t \in Threads |-> start(t)]
    /\ at = [t \in Threads |-> 1]
    /\ printed = [t \in Threads |-> <<>>]

Running == main \notin {"returned", "crashed"}

-----------------------------------------------------------------------------
(* main *)

\* With rand() for a value; what htab_add returns is not looked at.
Add ==
    /\ main = "add" /\ n < ITEMS
    /\ \E v \in Values : htab_add(n, v)
    /\ n' = n + 1
    /\ UNCHANGED <<main, freed, threadvars>>

EndAdd ==
    /\ main = "add" /\ n = ITEMS
    /\ main' = "create" /\ n' = 0
    /\ UNCHANGED <<table, freed, threadvars>>

\* Nor is what pthread_create returns.
Create ==
    /\ main = "create" /\ n < THREADS
    /\ \/ UNCHANGED pc
       \/ pc' = [pc EXCEPT ![n] = "bucket"]
    /\ n' = n + 1
    /\ UNCHANGED <<table, main, freed, i, at, printed>>

EndCreate ==
    /\ main = "create" /\ n = THREADS
    /\ main' = "destroy" /\ n' = 0
    /\ UNCHANGED <<table, freed, threadvars>>

\* Mutation: the first item of a list is left to a caller who keeps its head.
DestroyItemButFirst ==
    /\ main = "destroy" /\ n < size /\ freed < Len(lists[n])
    /\ IF freed = 0 THEN UNCHANGED table ELSE FreeItem(n, freed + 1)
    /\ freed' = freed + 1
    /\ UNCHANGED <<main, n, threadvars>>

DestroyItem ==
    /\ main = "destroy" /\ n < size /\ freed < Len(lists[n])
    /\ FreeItem(n, freed + 1)
    /\ freed' = freed + 1
    /\ UNCHANGED <<main, n, threadvars>>

DestroyNext ==
    /\ main = "destroy" /\ n < size /\ freed = Len(lists[n])
    /\ n' = n + 1 /\ freed' = 0
    /\ UNCHANGED <<table, main, threadvars>>

DestroyBuckets ==
    /\ main = "destroy" /\ n = size /\ buckets = "live"
    /\ FreeBuckets
    /\ UNCHANGED <<main, n, freed, threadvars>>

DestroyEnd ==
    /\ main = "destroy" /\ buckets = "freed"
    /\ ForgetBuckets
    /\ main' = "return"
    /\ UNCHANGED <<n, freed, threadvars>>

\* The threads end with the process.
Return ==
    /\ main = "return"
    /\ main' = "returned"
    /\ UNCHANGED <<table, n, freed, threadvars>>

Main == Add \/ EndAdd \/ Create \/ EndCreate \/ DestroyItem \/ DestroyNext
        \/ DestroyBuckets \/ DestroyEnd \/ Return

-----------------------------------------------------------------------------
(* htab_search_value *)

Item(t) == lists[i[t]][at[t]]
Goto(t, to) == pc' = [pc EXCEPT ![t] = to]

\* t reads through a NULL or a wild pointer, which ends the process.
Crash(t) ==
    /\ Goto(t, "crashed")
    /\ main' = "crashed"
    /\ UNCHANGED <<table, n, freed, i, at, printed>>

\* Mutation: bucket->next != NULL, and the last item of a list is not looked at.
GoOnButLast(t, a) ==
    IF a \notin 1 .. Len(lists[i[t]]) - 1 /\ a # Wild
    THEN /\ Goto(t, "bucket")
         /\ i' = [i EXCEPT ![t] = @ + 1]
         /\ at' = [at EXCEPT ![t] = 1]
    ELSE /\ Goto(t, "value")
         /\ at' = [at EXCEPT ![t] = a]
         /\ UNCHANGED i

\* The item at place a of its bucket is next, or the next bucket if there is none.
GoOn(t, a) ==
    IF a \notin 1 .. Len(lists[i[t]]) /\ a # Wild
    THEN /\ Goto(t, "bucket")
         /\ i' = [i EXCEPT ![t] = @ + 1]
         /\ at' = [at EXCEPT ![t] = 1]
    ELSE /\ Goto(t, "value")
         /\ at' = [at EXCEPT ![t] = a]
         /\ UNCHANGED i

\* Mutation: i <= data->end.
ReadBucketTooMany(t) ==
    /\ pc[t] = "bucket" /\ i[t] <= end(t) /\ i[t] \in Indexes
    /\ \/ buckets = "NULL" /\ Crash(t)
       \/ /\ buckets # "NULL"
          /\ \E a \in {1} \cup (IF buckets = "freed" THEN {Wild} ELSE {}) : GoOn(t, a)
          /\ UNCHANGED <<table, main, n, freed, printed>>

ReadBucket(t) ==
    /\ pc[t] = "bucket" /\ i[t] < end(t)
    /\ \/ buckets = "NULL" /\ Crash(t)
       \/ /\ buckets # "NULL"
          /\ \E a \in {1} \cup (IF buckets = "freed" THEN {Wild} ELSE {}) : GoOn(t, a)
          /\ UNCHANGED <<table, main, n, freed, printed>>

ReadValue(t) ==
    /\ pc[t] = "value"
    /\ \/ at[t] = Wild /\ Crash(t)
       \/ /\ at[t] # Wild
          /\ \E v \in IF item[Item(t)] = "live" THEN {value[Item(t)]} ELSE Values \cup {search} :
                Goto(t, IF v = search THEN "key" ELSE "next")
          /\ UNCHANGED <<table, main, n, freed, i, at, printed>>

PrintKey(t) ==
    /\ pc[t] = "key"
    /\ \E k \in {Item(t)} \cup (IF item[Item(t)] = "live" THEN {} ELSE {Garbage}) :
          printed' = [printed EXCEPT ![t] = Append(@, k)]
    /\ Goto(t, "next")
    /\ UNCHANGED <<table, main, n, freed, i, at>>

ReadNext(t) ==
    /\ pc[t] = "next"
    /\ \E a \in {at[t] + 1} \cup (IF item[Item(t)] = "live" THEN {} ELSE {Wild}) :
          GoOn(t, a)
    /\ UNCHANGED <<table, main, n, freed, printed>>

Finish(t) ==
    /\ pc[t] = "bucket" /\ i[t] = end(t)
    /\ Goto(t, "done")
    /\ UNCHANGED <<table, main, n, freed, i, at, printed>>

Searcher(t) == ReadBucket(t) \/ ReadValue(t) \/ PrintKey(t) \/ ReadNext(t) \/ Finish(t)

-----------------------------------------------------------------------------
Next == Running /\ (Main \/ \E t \in Threads : Searcher(t))

Spec == Init /\ [][Next]_vars

-----------------------------------------------------------------------------
(* Properties *)

\* The types of the variables; a thread keeps to its range.
TypeOK ==
    /\ TableTypeOK
    /\ main \in {"add", "create", "destroy", "return", "returned", "crashed"}
    /\ n \in Nat /\ freed \in Nat
    /\ pc \in [Threads -> {"none", "bucket", "value", "key", "next", "done",
                         "crashed"}]
    /\ i \in [Threads -> Nat] /\ \A t \in Threads : i[t] \in start(t) .. end(t)
    /\ at \in [Threads -> Nat \cup {Wild}]
    /\ printed \in [Threads -> Seq(Keys \cup {Garbage})]

\* htab_destroy has freed something in the range of t.
Reached(t) ==
    /\ main \in {"destroy", "return", "returned", "crashed"}
    /\ n > start(t) \/ (n = start(t) /\ freed > 0)

\* The places of the items in the range of t, and what is there; an item is before
\* another if its bucket is, or in one bucket, if it is nearer to its head.
Places(t) == UNION {{b} \X DOMAIN lists[b] : b \in start(t) .. end(t) - 1}
KeyAt(p) == lists[p[1]][p[2]]
Before(p, q) == p[1] < q[1] \/ (p[1] = q[1] /\ p[2] < q[2])

\* The places t is through with whose items have the value it searches.
Found(t) ==
    {p \in Places(t) :
        /\ \/ Before(p, <<i[t], at[t]>>)
           \/ pc[t] = "next" /\ p = <<i[t], at[t]>>
        /\ value[KeyAt(p)] = search}

\* t has printed just the keys of the places it found, each once, in their order.
Printed(t) ==
    /\ {printed[t][k] : k \in DOMAIN printed[t]} = {KeyAt(p) : p \in Found(t)}
    /\ \A k, l \in DOMAIN printed[t], p, q \in Found(t) :
          printed[t][k] = KeyAt(p) /\ printed[t][l] = KeyAt(q) =>
              (k < l <=> Before(p, q))

\* "each key with value 'search' has been printed to stdout" holds of a thread's
\* range as long as htab_destroy has not come to it: the thread has printed just
\* those keys, each of them once.  And the thread that brings the process down is
\* one whose range htab_destroy has come to.  A thread that pthread_create did not
\* start has printed nothing, and main does not know: nothing is said of it.
SearchedInTime ==
    /\ \A t \in Threads : pc[t] # "none" /\ ~Reached(t) => Printed(t)
    /\ \A t \in Threads : pc[t] = "crashed" => Reached(t)
    /\ main = "crashed" => \E t \in Threads : pc[t] = "crashed"

\* "all memory for hash table is released", and nothing before its turn: the freed
\* items are those htab_destroy is past, the array of buckets, through which it finds
\* the items, goes when the last of them has gone, and when it is done there is
\* nothing left.
FreedInOrder ==
    /\ \A b \in Indexes : \A j \in DOMAIN lists[b] :
          item[lists[b][j]] = "freed"
             <=> main \notin {"add", "create"} /\ (b < n \/ (b = n /\ j <= freed))
    /\ buckets # "live" => \A k \in Keys : item[k] # "live"
    /\ main \in {"return", "returned"} => buckets = "NULL" /\ size = 0
=============================================================================
