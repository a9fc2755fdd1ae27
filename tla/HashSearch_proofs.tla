------------------------- MODULE HashSearch_proofs -------------------------
(***************************************************************************)
(* For any number of items, buckets and threads: htab_destroy frees every  *)
(* item once, in order, and leaves nothing, and nothing a thread does      *)
(* changes that, whatever it reads; and a thread has printed just what it  *)
(* should until htab_destroy comes to its range.                           *)
(***************************************************************************)
EXTENDS HashSearch, TLAPS

-----------------------------------------------------------------------------
(* The strengthening *)

\* No item is in two places, and those in the lists have been added.
ListsApart ==
    /\ \A b, c \in Indexes : \A j \in DOMAIN lists[b], k \in DOMAIN lists[c] :
          lists[b][j] = lists[c][k] => b = c /\ j = k
    /\ \A b \in Indexes : \A j \in DOMAIN lists[b] :
          /\ item[lists[b][j]] # "none"
          /\ main = "add" => lists[b][j] < n
    /\ \A k \in Keys : item[k] = "live" =>
          \E b \in Indexes : \E j \in DOMAIN lists[b] : lists[b][j] = k

\* Where main is in the table.
MainPlace ==
    /\ main = "add" => n <= ITEMS
    /\ main \in {"add", "create"} => buckets = "live"
    /\ main \in {"add", "create", "destroy"} => size = BUCKETS
    /\ main = "destroy" => n <= BUCKETS /\ (n < BUCKETS => freed <= Len(lists[n]))
    /\ main \in {"add", "create"} => freed = 0
    /\ main = "destroy" /\ n = BUCKETS => freed = 0
    /\ main = "destroy" => buckets # "NULL"
    /\ buckets # "live" => n = BUCKETS
    /\ main \in {"return", "returned"} => n = BUCKETS /\ buckets = "NULL" /\ size = 0

\* Where the threads are in it.
ThreadsPlace ==
    /\ main = "add" => \A t \in Threads : pc[t] = "none"
    /\ \A t \in Threads :
          /\ pc[t] \in {"value", "key", "next"} => i[t] < end(t)
          /\ pc[t] \in {"value", "key", "next"} => at[t] \in DOMAIN lists[i[t]] \cup {Wild}
          /\ pc[t] \in {"key", "next"} => at[t] # Wild
          /\ main \in {"add", "create"} => at[t] # Wild

Order ==
    \A b \in Indexes : \A j \in DOMAIN lists[b] :
        item[lists[b][j]] = "freed"
           <=> main \notin {"add", "create"} /\ (b < n \/ (b = n /\ j <= freed))

IInv == TypeOK /\ ListsApart /\ MainPlace /\ ThreadsPlace /\ Order

-----------------------------------------------------------------------------
(* Arithmetic *)

\* The ranges of the threads lie in the table.
LEMMA Ranges ==
    /\ BUCKET_SIZE \in Nat
    /\ \A t \in Threads : /\ start(t) \in Nat /\ end(t) \in Nat
                          /\ start(t) <= end(t) /\ end(t) <= BUCKETS
<1>1. /\ BUCKET_SIZE \in Nat /\ BUCKETS = THREADS * BUCKET_SIZE
  BY SizesAssumption, ThreadsAssumption DEF BUCKET_SIZE
<1>2. ASSUME NEW t \in Threads
      PROVE  /\ start(t) \in Nat /\ end(t) \in Nat
             /\ start(t) <= end(t) /\ end(t) <= BUCKETS
  <2>1. t \in Nat /\ t + 1 <= THREADS /\ THREADS \in Nat
    BY ThreadsAssumption DEF Threads
  <2>2. ASSUME NEW a \in Nat, NEW b \in Nat, NEW c \in Nat, a <= b
        PROVE  a * c <= b * c
    BY <2>2
  <2>3. (t + 1) * BUCKET_SIZE <= THREADS * BUCKET_SIZE
    BY <2>1, <2>2, <1>1
  <2> QED
    BY <1>1, <2>1, <2>3 DEF start, end
<1> QED
  BY <1>1, <1>2

\* A key hashes into the table.
LEMMA Hashing ==
    ASSUME NEW k \in Keys, size = BUCKETS
    PROVE  htab_index(k) \in Indexes
<1> DEFINE s == Letters(k)
<1>1. s[1] \in Nat /\ s[2] \in Nat /\ s[3] \in Nat
  <2>1. k \in Nat
    BY SizesAssumption DEF Keys
  <2>2. k % 26 \in Nat /\ (k \div 26) % 26 \in Nat /\ (k \div 676) % 26 \in Nat
    BY <2>1
  <2> QED
    BY <2>2 DEF Letters
<1>2. djb_hash(s) \in Nat
  <2> HIDE DEF s
  <2> QED
    BY <1>1 DEF djb_hash
<1>3. \A h \in Nat : h % BUCKETS \in 0 .. BUCKETS - 1
  BY SizesAssumption
<1> QED
  BY <1>2, <1>3 DEF htab_index, Indexes

-----------------------------------------------------------------------------
LEMMA InitIInv == Init => IInv
<1> SUFFICES ASSUME Init PROVE IInv
  OBVIOUS
<1> USE DEF Init, htab_init
<1>1. \A b \in Indexes : lists[b] = <<>> /\ DOMAIN lists[b] = {}
  OBVIOUS
<1>2. TypeOK
  <2>1. TableTypeOK
    BY SizesAssumption, SMTT(60) DEF TableTypeOK
  <2>2. \A t \in Threads : i[t] = start(t) /\ i[t] \in start(t) .. end(t) /\ i[t] \in Nat
    BY Ranges
  <2>3. i \in [Threads -> Nat]
    BY <2>2
  <2> QED
    BY <2>1, <2>2, <2>3 DEF TypeOK
<1>3. ListsApart
  BY <1>1 DEF ListsApart
<1>4. MainPlace /\ ThreadsPlace
  BY SizesAssumption, SMTT(60) DEF MainPlace, ThreadsPlace, Wild
<1>5. Order
  BY <1>1 DEF Order
<1> QED
  BY <1>2, <1>3, <1>4, <1>5 DEF IInv

-----------------------------------------------------------------------------
(* The steps of main *)

\* What htab_add does to a list.
LEMMA Prepending ==
    ASSUME NEW list \in Seq(Keys), NEW k \in Keys
    PROVE  /\ <<k>> \o list \in Seq(Keys)
           /\ DOMAIN (<<k>> \o list) = 1 .. Len(list) + 1
           /\ (<<k>> \o list)[1] = k
           /\ \A j \in DOMAIN list : (<<k>> \o list)[j + 1] = list[j]
           /\ \A j \in DOMAIN (<<k>> \o list) :
                 j # 1 => j - 1 \in DOMAIN list /\ (<<k>> \o list)[j] = list[j - 1]
  OBVIOUS

LEMMA AddIInv == IInv /\ Add => IInv'
<1> SUFFICES ASSUME IInv, Add PROVE IInv'
  OBVIOUS
<1> USE DEF IInv
<1>1. /\ main = "add" /\ main' = "add" /\ n \in Keys /\ n' = n + 1
      /\ UNCHANGED <<freed, pc, i, at, printed, buckets, size>>
  <2>1. /\ main = "add" /\ n < ITEMS /\ n' = n + 1
        /\ UNCHANGED <<main, freed, pc, i, at, printed>>
    BY DEF Add, threadvars
  <2>2. PICK v \in Values : htab_add(n, v)
    BY DEF Add
  <2>3. UNCHANGED <<buckets, size>>
    BY <2>2 DEF htab_add
  <2>4. n \in Keys
    BY <2>1, SizesAssumption DEF TypeOK, Keys
  <2> QED
    BY <2>1, <2>3, <2>4
<1>2. CASE UNCHANGED <<lists, item, value>>
  <2>1. TypeOK'
    BY <1>1, <1>2 DEF TypeOK, TableTypeOK
  <2>2. ListsApart'
    <3>1. lists' = lists /\ item' = item
      BY <1>2
    <3>2. ListsApart
      OBVIOUS
    <3>3. ASSUME NEW b \in Indexes, NEW j \in DOMAIN lists[b]
          PROVE  lists[b][j] < n + 1
      <4>1. lists[b] \in Seq(Keys)
        BY DEF TypeOK, TableTypeOK
      <4>2. lists[b][j] \in Keys
        BY <4>1
      <4>3. lists[b][j] \in Int /\ n \in Int
        BY <1>1, <4>2 DEF Keys
      <4>4. lists[b][j] < n
        BY <1>1, <3>2 DEF ListsApart
      <4> QED
        BY <4>3, <4>4
    <3> HIDE DEF IInv
    <3> QED
      BY <1>1, <3>1, <3>2, <3>3 DEF ListsApart
  <2>3. MainPlace'
    <3>1. n + 1 <= ITEMS
      BY <1>1, SizesAssumption DEF Keys
    <3> QED
      BY <1>1, <1>2, <3>1 DEF MainPlace
  <2>4. ThreadsPlace' /\ Order'
    BY <1>1, <1>2 DEF ThreadsPlace, Order
  <2> QED
    BY <2>1, <2>2, <2>3, <2>4
<1>3. CASE ~UNCHANGED <<lists, item, value>>
  <2> DEFINE h == htab_index(n)
  <2>1. PICK v \in Values :
          /\ item' = [item EXCEPT ![n] = "live"]
          /\ value' = [value EXCEPT ![n] = v]
          /\ lists' = [lists EXCEPT ![h] = <<n>> \o @]
    BY <1>3 DEF Add, htab_add
  <2>2. h \in Indexes
    BY <1>1, Hashing DEF MainPlace
  <2> HIDE DEF h
  <2>3. /\ lists[h] \in Seq(Keys)
        /\ lists'[h] = <<n>> \o lists[h]
        /\ \A b \in Indexes : b # h => lists'[b] = lists[b]
    BY <2>1, <2>2 DEF TypeOK, TableTypeOK
  <2>4. /\ lists'[h] \in Seq(Keys)
        /\ DOMAIN lists'[h] = 1 .. Len(lists[h]) + 1
        /\ lists'[h][1] = n
        /\ \A j \in DOMAIN lists[h] : j + 1 \in DOMAIN lists'[h] /\ lists'[h][j + 1] = lists[h][j]
        /\ \A j \in DOMAIN lists'[h] :
              j # 1 => j - 1 \in DOMAIN lists[h] /\ lists'[h][j] = lists[h][j - 1]
    BY <2>3, <1>1, Prepending
  <2>5. /\ \A b \in Indexes : \A j \in DOMAIN lists[b] :
              lists[b][j] \in Keys /\ lists[b][j] < n
        /\ \A b \in Indexes : \A j \in DOMAIN lists'[b] :
              \/ b = h /\ j = 1 /\ lists'[b][j] = n
              \/ b = h /\ j - 1 \in DOMAIN lists[b] /\ lists'[b][j] = lists[b][j - 1]
              \/ b # h /\ j \in DOMAIN lists[b] /\ lists'[b][j] = lists[b][j]
    <3>1. \A b \in Indexes : lists[b] \in Seq(Keys)
      BY DEF TypeOK, TableTypeOK
    <3> QED
      BY <3>1, <2>3, <2>4, <1>1 DEF ListsApart
  <2>6. TypeOK'
    <3>1. lists' \in [Indexes -> Seq(Keys)]
      BY <2>1, <2>2, <2>3, <2>4 DEF TypeOK, TableTypeOK
    <3> QED
      BY <3>1, <2>1, <1>1 DEF TypeOK, TableTypeOK
  <2>7. ListsApart'
    <3>1. \A b, c \in Indexes : \A j \in DOMAIN lists'[b], k \in DOMAIN lists'[c] :
            lists'[b][j] = lists'[c][k] => b = c /\ j = k
      <4> SUFFICES ASSUME NEW b \in Indexes, NEW c \in Indexes,
                          NEW j \in DOMAIN lists'[b], NEW k \in DOMAIN lists'[c],
                          lists'[b][j] = lists'[c][k]
                   PROVE  b = c /\ j = k
        OBVIOUS
      <4>1. j \in Nat /\ k \in Nat
        BY <2>6 DEF TypeOK, TableTypeOK
      <4>2. n \in Nat
        BY DEF TypeOK
      <4> QED
        BY <2>5, <4>1, <4>2 DEF ListsApart, Keys
    <3>2. \A b \in Indexes : \A j \in DOMAIN lists'[b] :
            item'[lists'[b][j]] # "none" /\ lists'[b][j] < n'
      <4> SUFFICES ASSUME NEW b \in Indexes, NEW j \in DOMAIN lists'[b]
                   PROVE  item'[lists'[b][j]] # "none" /\ lists'[b][j] < n'
        OBVIOUS
      <4>1. PICK k \in Keys : k = lists'[b][j]
        BY <2>6 DEF TypeOK, TableTypeOK
      <4>2. item'[k] = "live" \/ (item'[k] = item[k] /\ item[k] # "none" /\ k < n)
        <5>1. CASE k = n
          BY <5>1, <2>1, <1>1 DEF TypeOK, TableTypeOK
        <5>2. CASE k # n
          <6>1. item'[k] = item[k]
            BY <5>2, <2>1 DEF TypeOK, TableTypeOK
          <6>2. item[k] # "none" /\ k < n
            BY <5>2, <4>1, <2>5, <1>1 DEF ListsApart
          <6> QED
            BY <6>1, <6>2
        <5> QED
          BY <5>1, <5>2
      <4>3. k = n \/ k < n
        BY <4>1, <2>5
      <4>4. k \in Nat /\ n \in Nat
        BY <1>1, SizesAssumption DEF Keys
      <4> QED
        BY <4>1, <4>2, <4>3, <4>4, <1>1
    <3>3. ASSUME NEW k \in Keys, item'[k] = "live"
          PROVE  \E b \in Indexes : \E j \in DOMAIN lists'[b] : lists'[b][j] = k
      <4>1. CASE k = n
        BY <4>1, <2>2, <2>4, <2>3
      <4>2. CASE k # n
        <5>1. item[k] = "live"
          BY <4>2, <3>3, <2>1, <1>1 DEF TypeOK, TableTypeOK
        <5>2. PICK b \in Indexes : \E j \in DOMAIN lists[b] : lists[b][j] = k
          BY <5>1 DEF ListsApart
        <5>3. PICK j \in DOMAIN lists[b] : lists[b][j] = k
          BY <5>2
        <5>4. CASE b = h
          <6>1. j + 1 \in DOMAIN lists'[h] /\ lists'[h][j + 1] = k
            BY <5>3, <5>4, <2>4
          <6> QED
            BY <6>1, <2>2
        <5>5. CASE b # h
          BY <5>3, <5>5, <2>3
        <5> QED
          BY <5>4, <5>5
      <4> QED
        BY <4>1, <4>2
    <3> QED
      BY <3>1, <3>2, <3>3 DEF ListsApart
  <2>8. MainPlace' /\ ThreadsPlace'
    <3>1. n + 1 <= ITEMS
      BY <1>1, SizesAssumption DEF Keys
    <3>2. MainPlace'
      BY <1>1, <3>1 DEF MainPlace
    <3>3. \A t \in Threads : pc'[t] = "none" /\ at'[t] # Wild
      BY <1>1 DEF ThreadsPlace
    <3> QED
      BY <3>2, <3>3 DEF ThreadsPlace
  <2>9. Order'
    BY <2>1, <2>5, <1>1 DEF Order, TypeOK, TableTypeOK
  <2> QED
    BY <2>6, <2>7, <2>8, <2>9
<1> QED
  BY <1>2, <1>3

\* The steps of main that leave the lists and the items alone.
LEMMA MainMovesIInv ==
    IInv /\ (EndAdd \/ Create \/ EndCreate \/ DestroyNext \/ DestroyBuckets
             \/ DestroyEnd \/ Return) => IInv'
<1> SUFFICES ASSUME IInv,
                    EndAdd \/ Create \/ EndCreate \/ DestroyNext \/ DestroyBuckets
                    \/ DestroyEnd \/ Return
             PROVE  IInv'
  OBVIOUS
<1> USE DEF IInv
<1>1. UNCHANGED <<lists, item, value, i, at, printed>>
  BY DEF EndAdd, Create, EndCreate, DestroyNext, DestroyBuckets, DestroyEnd, Return,
         table, threadvars, FreeBuckets, ForgetBuckets
<1>2. TypeOK'
  <2>1. /\ main' \in {"add", "create", "destroy", "return", "returned", "crashed"}
        /\ n' \in Nat /\ freed' \in Nat
        /\ buckets' \in {"live", "freed", "NULL"} /\ size' \in {0, BUCKETS}
    BY DEF EndAdd, Create, EndCreate, DestroyNext, DestroyBuckets, DestroyEnd, Return,
           table, threadvars, FreeBuckets, ForgetBuckets, TypeOK, TableTypeOK
  <2>2. pc' \in [Threads -> {"none", "bucket", "value", "key", "next", "done", "crashed"}]
    BY DEF EndAdd, Create, EndCreate, DestroyNext, DestroyBuckets, DestroyEnd, Return,
           table, threadvars, FreeBuckets, ForgetBuckets, TypeOK
  <2> QED
    BY <2>1, <2>2, <1>1 DEF TypeOK, TableTypeOK
<1>3. ListsApart'
  <2>1. main' = "add" => FALSE
    BY DEF EndAdd, Create, EndCreate, DestroyNext, DestroyBuckets, DestroyEnd, Return
  <2> QED
    BY <2>1, <1>1 DEF ListsApart
<1>4. MainPlace'
  <2>1. CASE EndAdd \/ Create \/ EndCreate
    <3>1. freed = 0 /\ freed' = 0 /\ Len(lists[0]) >= 0 /\ 0 < BUCKETS
      BY <2>1, SizesAssumption
         DEF EndAdd, Create, EndCreate, MainPlace, Indexes, TypeOK, TableTypeOK
    <3>2. CASE EndAdd \/ Create
      BY <3>1, <3>2, <1>1 DEF EndAdd, Create, MainPlace, table
    <3>3. CASE EndCreate
      <4>1. /\ main = "create" /\ main' = "destroy" /\ n' = 0
            /\ UNCHANGED <<buckets, size>>
        BY <3>3 DEF EndCreate, table
      <4>2. buckets = "live" /\ size = BUCKETS
        BY <4>1 DEF MainPlace
      <4> QED
        BY <3>1, <4>1, <4>2, <1>1, SizesAssumption DEF MainPlace
    <3> QED
      BY <2>1, <3>2, <3>3
  <2>2. CASE DestroyNext
    <3>1. /\ main = "destroy" /\ n' = n + 1 /\ freed' = 0 /\ n < BUCKETS
          /\ UNCHANGED <<main, buckets, size>>
      BY <2>2 DEF DestroyNext, MainPlace, table
    <3>2. n + 1 < BUCKETS => Len(lists[n + 1]) >= 0
      BY SizesAssumption DEF TypeOK, TableTypeOK, Indexes
    <3> QED
      BY <3>1, <3>2, <1>1, SizesAssumption DEF MainPlace, TypeOK
  <2>3. CASE DestroyBuckets \/ DestroyEnd \/ Return
    BY <2>3, <1>1, SizesAssumption
       DEF DestroyBuckets, DestroyEnd, Return, FreeBuckets, ForgetBuckets, MainPlace, table
  <2> QED
    BY <2>1, <2>2, <2>3
<1>5. ThreadsPlace'
  <2>1. CASE Create
    BY <2>1, <1>1 DEF Create, ThreadsPlace, TypeOK
  <2>2. CASE ~Create
    <3>1. UNCHANGED pc /\ main' # "add" /\ (main' = "create" => main = "add")
      BY <2>2 DEF EndAdd, EndCreate, DestroyNext, DestroyBuckets, DestroyEnd, Return,
                  threadvars
    <3> QED
      BY <3>1, <1>1 DEF ThreadsPlace
  <2> QED
    BY <2>1, <2>2
<1>6. Order'
  <2>1. \A b \in Indexes : \A j \in DOMAIN lists[b] :
            b \in Nat /\ b < BUCKETS /\ j \in Nat /\ j >= 1 /\ j <= Len(lists[b])
    BY SizesAssumption DEF Indexes, TypeOK, TableTypeOK
  <2>2. CASE DestroyNext
    BY <2>1, <2>2, <1>1 DEF DestroyNext, Order, TypeOK
  <2>3. CASE EndAdd \/ Create
    BY <2>3, <1>1 DEF EndAdd, Create, Order
  <2>4. CASE EndCreate
    <3>1. main = "create" /\ main' = "destroy" /\ n' = 0 /\ freed' = 0
      BY <2>4 DEF EndCreate, MainPlace
    <3> QED
      BY <2>1, <3>1, <1>1 DEF Order
  <2>5. CASE DestroyBuckets \/ DestroyEnd \/ Return
    BY <2>5, <1>1 DEF DestroyBuckets, DestroyEnd, Return, Order
  <2> QED
    BY <2>2, <2>3, <2>4, <2>5
<1> QED
  BY <1>2, <1>3, <1>4, <1>5, <1>6

LEMMA DestroyItemIInv == IInv /\ DestroyItem => IInv'
<1> SUFFICES ASSUME IInv, DestroyItem PROVE IInv'
  OBVIOUS
<1> USE DEF IInv
<1> DEFINE k == lists[n][freed + 1]
<1>1. /\ main = "destroy" /\ n \in Indexes /\ freed + 1 \in DOMAIN lists[n] /\ k \in Keys
      /\ item' = [item EXCEPT ![k] = "freed"] /\ freed' = freed + 1
      /\ UNCHANGED <<lists, value, buckets, size, main, n, pc, i, at, printed>>
  <2>1. /\ main = "destroy" /\ n \in Nat /\ n < BUCKETS /\ freed \in Nat
        /\ freed < Len(lists[n])
    BY DEF DestroyItem, MainPlace, TypeOK
  <2>2. n \in Indexes /\ lists[n] \in Seq(Keys)
    BY <2>1, SizesAssumption DEF Indexes, TypeOK, TableTypeOK
  <2> QED
    BY <2>1, <2>2 DEF DestroyItem, FreeItem, threadvars
<1> HIDE DEF k
<1>2. TypeOK'
  BY <1>1 DEF TypeOK, TableTypeOK
<1>3. ListsApart'
  BY <1>1 DEF ListsApart, TypeOK, TableTypeOK
<1>4. MainPlace'
  <2>1. freed + 1 <= Len(lists[n]) /\ n < BUCKETS
    BY <1>1, SizesAssumption DEF TypeOK, TableTypeOK, Indexes
  <2> QED
    BY <2>1, <1>1 DEF MainPlace, TypeOK
<1>5. ThreadsPlace'
  BY <1>1 DEF ThreadsPlace
<1>6. Order'
  <2> SUFFICES ASSUME NEW b \in Indexes, NEW j \in DOMAIN lists[b]
               PROVE  item'[lists[b][j]] = "freed" <=> (b < n \/ (b = n /\ j <= freed + 1))
    BY <1>1 DEF Order
  <2>1. b \in Nat /\ j \in Nat /\ n \in Nat /\ freed \in Nat /\ lists[b][j] \in Keys
    BY SizesAssumption DEF TypeOK, TableTypeOK, Indexes
  <2>2. item[lists[b][j]] = "freed" <=> (b < n \/ (b = n /\ j <= freed))
    BY <1>1 DEF Order
  <2>3. lists[b][j] = k <=> b = n /\ j = freed + 1
    BY <1>1 DEF ListsApart, k
  <2> QED
    BY <1>1, <2>1, <2>2, <2>3 DEF TypeOK, TableTypeOK
<1> QED
  BY <1>2, <1>3, <1>4, <1>5, <1>6

-----------------------------------------------------------------------------
(* The steps of the threads *)

\* A thread that reads an item reads one that is in the table.
LEMMA ReadsListed ==
    ASSUME TypeOK, NEW t \in Threads, ThreadsPlace,
           pc[t] \in {"value", "key", "next"}, at[t] # Wild
    PROVE  /\ i[t] \in Indexes /\ at[t] \in DOMAIN lists[i[t]]
           /\ Item(t) = lists[i[t]][at[t]] /\ Item(t) \in Keys
<1>1. at[t] \in DOMAIN lists[i[t]] /\ i[t] < end(t)
  BY DEF ThreadsPlace
<1>2. i[t] \in Indexes
  BY <1>1, Ranges, SizesAssumption DEF TypeOK, Indexes
<1> QED
  BY <1>1, <1>2 DEF TypeOK, TableTypeOK, Item

\* Going on leaves the thread in its range and at something that is there.
LEMMA GoOnIInv ==
    ASSUME IInv, NEW t \in Threads, i[t] < end(t), pc[t] # "none",
           NEW a \in Nat \cup {Wild}, GoOn(t, a),
           main \in {"add", "create"} => a # Wild,
           UNCHANGED <<table, main, n, freed, printed>>
    PROVE  IInv'
<1> USE DEF IInv
<1>1. UNCHANGED <<lists, item, value, buckets, size, main, n, freed, printed>>
  BY DEF table
<1>2. start(t) \in Nat /\ end(t) \in Nat /\ i[t] \in Nat /\ i[t] >= start(t)
  BY Ranges DEF TypeOK
<1>3. \/ /\ pc' = [pc EXCEPT ![t] = "bucket"]
         /\ i' = [i EXCEPT ![t] = i[t] + 1]
         /\ at' = [at EXCEPT ![t] = 1]
      \/ /\ pc' = [pc EXCEPT ![t] = "value"]
         /\ at' = [at EXCEPT ![t] = a]
         /\ i' = i
         /\ a \in 1 .. Len(lists[i[t]]) \cup {Wild}
  BY DEF GoOn, Goto
<1>4. lists[i[t]] \in Seq(Keys) /\ main # "add"
  <2>1. i[t] \in Indexes
    BY <1>2, Ranges, SizesAssumption DEF Indexes
  <2> QED
    BY <2>1 DEF TypeOK, TableTypeOK, ThreadsPlace
<1>5. TypeOK'
  <2>1. TableTypeOK'
    BY <1>1 DEF TypeOK, TableTypeOK
  <2>2. /\ pc' \in [Threads -> {"none", "bucket", "value", "key", "next", "done",
                               "crashed"}]
        /\ at' \in [Threads -> Nat \cup {Wild}]
        /\ i' \in [Threads -> Nat]
    <3> DEFINE places == {"none", "bucket", "value", "key", "next", "done", "crashed"}
    <3>1. /\ pc \in [Threads -> places] /\ i \in [Threads -> Nat]
          /\ at \in [Threads -> Nat \cup {Wild}] /\ i[t] + 1 \in Nat
          /\ "bucket" \in places /\ "value" \in places
      BY <1>2 DEF TypeOK
    <3> HIDE DEF places
    <3>2. pc' \in [Threads -> places]
      BY <3>1, <1>3
    <3>3. at' \in [Threads -> Nat \cup {Wild}]
      BY <3>1, <1>3
    <3>4. i' \in [Threads -> Nat]
      BY <3>1, <1>3
    <3> QED
      BY <3>2, <3>3, <3>4 DEF places
  <2>3. ASSUME NEW u \in Threads PROVE i'[u] \in start(u) .. end(u)
    <3>1. CASE u = t
      BY <3>1, <1>2, <1>3 DEF TypeOK
    <3>2. CASE u # t
      BY <3>2, <1>3 DEF TypeOK
    <3> QED
      BY <3>1, <3>2
  <2> QED
    BY <1>1, <2>1, <2>2, <2>3 DEF TypeOK
<1>6. ListsApart' /\ MainPlace' /\ Order'
  BY <1>1 DEF ListsApart, MainPlace, Order
<1>7. ThreadsPlace'
  <2> SUFFICES ASSUME NEW u \in Threads
               PROVE  /\ pc'[u] \in {"value", "key", "next"} => i'[u] < end(u)
                      /\ pc'[u] \in {"value", "key", "next"}
                            => at'[u] \in DOMAIN lists[i'[u]] \cup {Wild}
                      /\ pc'[u] \in {"key", "next"} => at'[u] # Wild
                      /\ main \in {"add", "create"} => at'[u] # Wild
    BY <1>1, <1>4 DEF ThreadsPlace
  <2>1. CASE u # t
    <3>1. pc'[u] = pc[u] /\ i'[u] = i[u] /\ at'[u] = at[u]
      BY <2>1, <1>3 DEF TypeOK
    <3> QED
      BY <3>1 DEF ThreadsPlace
  <2>2. CASE u = t
    <3>1. \/ pc'[t] = "bucket" /\ at'[t] = 1
          \/ pc'[t] = "value" /\ at'[t] = a /\ i'[t] = i[t]
      BY <1>3 DEF TypeOK
    <3>2. 1 # Wild
      BY DEF Wild
    <3>3. pc'[t] = "value" => a \in DOMAIN lists[i[t]] \cup {Wild}
      BY <1>3, <1>4 DEF TypeOK
    <3> QED
      BY <2>2, <3>1, <3>2, <3>3
  <2> QED
    BY <2>1, <2>2
<1> QED
  BY <1>5, <1>6, <1>7

\* A thread that only looks, prints or ends.
LEMMA StaysIInv ==
    ASSUME IInv, NEW t \in Threads, pc[t] # "none",
           NEW to \in {"key", "next", "done"},
           to \in {"key", "next"} => pc[t] \in {"value", "key"} /\ at[t] # Wild,
           Goto(t, to), printed' \in [Threads -> Seq(Keys \cup {Garbage})],
           UNCHANGED <<table, main, n, freed, i, at>>
    PROVE  IInv'
<1> USE DEF IInv
<1>1. UNCHANGED <<lists, item, value, buckets, size, main, n, freed, i, at>>
  BY DEF table
<1>2. /\ pc' \in [Threads -> {"none", "bucket", "value", "key", "next", "done", "crashed"}]
      /\ pc'[t] = to /\ \A u \in Threads : u # t => pc'[u] = pc[u]
  BY DEF TypeOK, Goto
<1>3. TypeOK'
  BY <1>1, <1>2 DEF TypeOK, TableTypeOK
<1>4. ListsApart' /\ MainPlace' /\ Order'
  BY <1>1 DEF ListsApart, MainPlace, Order
<1>5. ThreadsPlace'
  BY <1>1, <1>2 DEF ThreadsPlace
<1> QED
  BY <1>3, <1>4, <1>5

\* A crash comes after the destruction has begun, and leaves the table as it is.
LEMMA CrashIInv ==
    ASSUME IInv, Running, main \notin {"add", "create"}, NEW t \in Threads, Crash(t)
    PROVE  IInv'
<1> USE DEF IInv
<1>1. UNCHANGED <<lists, item, value, buckets, size, n, freed, i, at, printed>>
      /\ main' = "crashed" /\ main \in {"destroy", "return"}
      /\ pc' = [pc EXCEPT ![t] = "crashed"]
  BY DEF Crash, table, Running, TypeOK, Goto
<1>2. TypeOK'
  BY <1>1 DEF TypeOK, TableTypeOK
<1>3. ListsApart' /\ MainPlace' /\ Order'
  BY <1>1 DEF ListsApart, MainPlace, Order
<1>4. ThreadsPlace'
  BY <1>1 DEF ThreadsPlace, TypeOK
<1> QED
  BY <1>2, <1>3, <1>4

LEMMA SearcherIInv ==
    ASSUME IInv, Running, NEW t \in Threads, Searcher(t)
    PROVE  IInv'
<1> USE DEF IInv
<1>1. ASSUME pc[t] # "none" PROVE main # "add"
  BY <1>1 DEF ThreadsPlace
<1>2. CASE ReadBucket(t)
  <2>1. CASE Crash(t)
    <3>1. buckets = "NULL"
      BY <1>2, <2>1 DEF ReadBucket, Crash, Running
    <3> QED
      BY <2>1, <3>1, CrashIInv DEF MainPlace
  <2>2. CASE ~Crash(t)
    <3>1. PICK a \in {1} \cup (IF buckets = "freed" THEN {Wild} ELSE {}) : GoOn(t, a)
      BY <1>2, <2>2 DEF ReadBucket
    <3>2. main \in {"add", "create"} => a # Wild
      BY <3>1 DEF MainPlace, Wild
    <3>3. /\ pc[t] = "bucket" /\ i[t] < end(t)
          /\ UNCHANGED <<table, main, n, freed, printed>>
      BY <1>2, <2>2 DEF ReadBucket
    <3> QED
      BY <3>1, <3>2, <3>3, GoOnIInv
  <2> QED
    BY <2>1, <2>2
<1>3. CASE ReadValue(t)
  <2>1. CASE Crash(t)
    <3>1. at[t] = Wild /\ pc[t] = "value"
      BY <1>3, <2>1 DEF ReadValue, Crash, Running
    <3> QED
      BY <2>1, <3>1, CrashIInv DEF ThreadsPlace
  <2>2. CASE ~Crash(t)
    <3>1. PICK to \in {"key", "next"} : Goto(t, to)
      BY <1>3, <2>2 DEF ReadValue
    <3>2. /\ pc[t] = "value" /\ at[t] # Wild
          /\ UNCHANGED <<table, main, n, freed, i, at, printed>>
      BY <1>3, <2>2 DEF ReadValue
    <3> QED
      BY <3>1, <3>2, StaysIInv DEF TypeOK
  <2> QED
    BY <2>1, <2>2
<1>4. CASE PrintKey(t)
  <2>1. /\ pc[t] = "key" /\ at[t] # Wild /\ Goto(t, "next")
        /\ UNCHANGED <<table, main, n, freed, i, at>>
    BY <1>4 DEF PrintKey, ThreadsPlace
  <2>2. Item(t) \in Keys
    BY <2>1, ReadsListed
  <2>3. PICK k \in Keys \cup {Garbage} : printed' = [printed EXCEPT ![t] = Append(@, k)]
    BY <1>4, <2>2 DEF PrintKey
  <2>4. printed' \in [Threads -> Seq(Keys \cup {Garbage})]
    BY <2>3 DEF TypeOK
  <2> QED
    BY <2>1, <2>4, StaysIInv
<1>5. CASE ReadNext(t)
  <2>1. /\ pc[t] = "next" /\ at[t] # Wild /\ i[t] < end(t)
        /\ UNCHANGED <<table, main, n, freed, printed>>
    BY <1>5 DEF ReadNext, ThreadsPlace
  <2>2. /\ i[t] \in Indexes /\ at[t] \in DOMAIN lists[i[t]]
        /\ Item(t) = lists[i[t]][at[t]] /\ Item(t) \in Keys
    BY <2>1, ReadsListed
  <2>3. PICK a \in {at[t] + 1} \cup (IF item[Item(t)] = "live" THEN {} ELSE {Wild}) :
            GoOn(t, a)
    BY <1>5 DEF ReadNext
  <2>4. at[t] \in Nat /\ at[t] + 1 \in Nat /\ a \in Nat \cup {Wild}
    <3>1. at[t] \in Nat
      BY <2>1 DEF TypeOK
    <3> QED
      BY <3>1, <2>3
  <2>5. main \in {"add", "create"} => a # Wild
    <3>1. main \in {"add", "create"} => item[Item(t)] = "live"
      BY <2>2 DEF Order, ListsApart, TypeOK, TableTypeOK
    <3> QED
      BY <3>1, <2>3, <2>4 DEF Wild
  <2> QED
    BY <2>1, <2>3, <2>4, <2>5, GoOnIInv
<1>6. CASE Finish(t)
  <2>1. /\ pc[t] = "bucket" /\ Goto(t, "done")
        /\ UNCHANGED <<table, main, n, freed, i, at, printed>>
    BY <1>6 DEF Finish
  <2> QED
    BY <2>1, StaysIInv DEF TypeOK
<1> QED
  BY <1>2, <1>3, <1>4, <1>5, <1>6 DEF Searcher

-----------------------------------------------------------------------------
LEMMA NextIInv == IInv /\ [Next]_vars => IInv'
<1> SUFFICES ASSUME IInv, [Next]_vars PROVE IInv'
  OBVIOUS
<1>1. CASE Main
  BY <1>1, AddIInv, MainMovesIInv, DestroyItemIInv DEF Main
<1>2. ASSUME NEW t \in Threads, Running, Searcher(t) PROVE IInv'
  BY <1>2, SearcherIInv
<1>3. CASE UNCHANGED vars
  <2>1. UNCHANGED <<lists, item, value, buckets, size, main, n, freed, pc, i, at, printed>>
    BY <1>3 DEF vars, table, threadvars
  <2> QED
    BY <2>1 DEF IInv, TypeOK, TableTypeOK, ListsApart, MainPlace, ThreadsPlace, Order
<1> QED
  BY <1>1, <1>2, <1>3 DEF Next

LEMMA Strong == Spec => []IInv
  BY InitIInv, NextIInv, PTL DEF Spec

\* The variables keep their types and every thread its own range of buckets,
\* whatever it reads from freed memory.
THEOREM TypeCorrect == Spec => []TypeOK
<1>1. IInv => TypeOK
  BY DEF IInv
<1> QED
  BY Strong, <1>1, PTL

\* htab_destroy frees what it has passed and nothing else, each item once, and the
\* array of buckets only when no item is left; it has freed everything when it
\* returns.
THEOREM EverythingFreedOnce == Spec => []FreedInOrder
<1>1. IInv => FreedInOrder
  <2> SUFFICES ASSUME IInv PROVE FreedInOrder
    OBVIOUS
  <2>1. ASSUME buckets # "live" PROVE \A k \in Keys : item[k] # "live"
    <3>1. n = BUCKETS /\ main \notin {"add", "create"}
      BY <2>1 DEF IInv, MainPlace
    <3>2. \A b \in Indexes : \A j \in DOMAIN lists[b] : item[lists[b][j]] = "freed"
      BY <3>1, SizesAssumption DEF IInv, Order, Indexes
    <3> QED
      BY <3>2 DEF IInv, ListsApart
  <2>2. main \in {"return", "returned"} => buckets = "NULL" /\ size = 0
    BY DEF IInv, MainPlace
  <2> QED
    BY <2>1, <2>2 DEF IInv, Order, FreedInOrder
<1> QED
  BY Strong, <1>1, PTL
-----------------------------------------------------------------------------
(* What a thread has printed *)

\* Before htab_destroy comes to it, a thread has printed what it found, and a key
\* it is about to print has the value searched; it has a wild pointer only after.
Track(t) ==
    /\ pc[t] = "none" => i[t] = start(t) /\ printed[t] = <<>>
    /\ pc[t] \in {"none", "bucket", "done"} => at[t] = 1
    /\ at[t] = Wild => Reached(t)
    /\ pc[t] = "crashed" => Reached(t)
    /\ ~Reached(t) =>
          /\ pc[t] = "key" => value[Item(t)] = search
          /\ Printed(t)

Tracks ==
    /\ \A t \in Threads : Track(t)
    /\ main = "create" => \A t \in Threads : t >= n => pc[t] = "none"
    /\ main = "crashed" => \E t \in Threads : pc[t] = "crashed"

\* The range of a thread is not empty: when main is past the table it is past that.
LEMMA RangeStarts ==
    \A t \in Threads : start(t) \in Nat /\ start(t) < end(t) /\ start(t) < BUCKETS
<1>1. BUCKET_SIZE \in Nat /\ BUCKETS = THREADS * BUCKET_SIZE /\ BUCKETS > 0
  BY SizesAssumption, ThreadsAssumption DEF BUCKET_SIZE
<1>2. BUCKET_SIZE # 0
  BY <1>1, ThreadsAssumption
<1> QED
  BY <1>1, <1>2, Ranges DEF end

\* A place is a pair of a bucket of the range and a place in its list.
LEMMA InPlaces ==
    ASSUME TypeOK, NEW t \in Threads
    PROVE  \A p : p \in Places(t) <=>
             \E b \in start(t) .. end(t) - 1 : \E j \in DOMAIN lists[b] : p = <<b, j>>
BY DEF Places

LEMMA PlaceParts ==
    ASSUME TypeOK, NEW t \in Threads, NEW p \in Places(t)
    PROVE  /\ p = <<p[1], p[2]>> /\ p[1] \in Indexes /\ p[2] \in DOMAIN lists[p[1]]
           /\ p[1] \in Nat /\ p[2] \in Nat /\ p[2] >= 1 /\ p[2] <= Len(lists[p[1]])
           /\ p[1] >= start(t) /\ p[1] < end(t) /\ KeyAt(p) \in Keys
<1>0. PICK b \in start(t) .. end(t) - 1 : \E j \in DOMAIN lists[b] : p = <<b, j>>
  BY InPlaces
<1>1. PICK j \in DOMAIN lists[b] : p = <<b, j>>
  BY <1>0
<1>2. b \in Indexes /\ b \in Nat /\ b >= start(t) /\ b < end(t)
  BY Ranges, SizesAssumption DEF Indexes
<1>3. lists[b] \in Seq(Keys)
  BY <1>2 DEF TypeOK, TableTypeOK
<1>4. p[1] = b /\ p[2] = j
  BY <1>1
<1> QED
  BY <1>1, <1>2, <1>3, <1>4 DEF KeyAt

\* A thread at the start of its range has found nothing.
LEMMA FoundNothing ==
    ASSUME TypeOK, NEW t \in Threads, i[t] = start(t), at[t] = 1, pc[t] # "next"
    PROVE  Found(t) = {}
<1> SUFFICES ASSUME NEW p \in Found(t) PROVE FALSE
  OBVIOUS
<1>1. p \in Places(t) /\ Before(p, <<i[t], at[t]>>)
  BY DEF Found
<1>2. p[1] < start(t) \/ (p[1] = start(t) /\ p[2] < 1)
  BY <1>1 DEF Before
<1> QED
  BY <1>1, <1>2, PlaceParts, Ranges

\* Once reached, a range stays reached, and an item that is not live is in a
\* range that has been.
LEMMA DeadIsReached ==
    ASSUME IInv, NEW t \in Threads, pc[t] \in {"value", "key", "next"}, at[t] # Wild,
           item[Item(t)] # "live"
    PROVE  Reached(t)
<1>1. /\ i[t] \in Indexes /\ at[t] \in DOMAIN lists[i[t]]
      /\ Item(t) = lists[i[t]][at[t]] /\ Item(t) \in Keys
  BY ReadsListed DEF IInv
<1>2. item[Item(t)] = "freed"
  BY <1>1 DEF IInv, ListsApart, TypeOK, TableTypeOK
<1>3. main \notin {"add", "create"} /\ (i[t] < n \/ (i[t] = n /\ at[t] <= freed))
  BY <1>1, <1>2 DEF IInv, Order
<1>4. i[t] \in Nat /\ i[t] >= start(t) /\ start(t) \in Nat /\ n \in Nat /\ freed \in Nat
      /\ at[t] \in Nat /\ at[t] >= 1
  <2>1. lists[i[t]] \in Seq(Keys)
    BY <1>1 DEF IInv, TypeOK, TableTypeOK
  <2> QED
    BY <1>1, <2>1, Ranges DEF IInv, TypeOK
<1>5. main \in {"destroy", "return", "returned", "crashed"}
  BY <1>3 DEF IInv, TypeOK
<1> QED
  BY <1>3, <1>4, <1>5 DEF Reached

\* What t has found and printed depends only on the lists, the values and where it is.
LEMMA SamePrinted ==
    ASSUME NEW t \in Threads, UNCHANGED <<lists, value>>,
           Found(t)' = Found(t), printed'[t] = printed[t], Printed(t)
    PROVE  Printed(t)'
<1>1. \A p : KeyAt(p)' = KeyAt(p)
  BY DEF KeyAt
<1>2. /\ {printed[t][k] : k \in DOMAIN printed[t]} = {KeyAt(p) : p \in Found(t)}
      /\ \A k, l \in DOMAIN printed[t], p, q \in Found(t) :
            printed[t][k] = KeyAt(p) /\ printed[t][l] = KeyAt(q) =>
                (k < l <=> Before(p, q))
  BY DEF Printed
<1>3. {KeyAt(p)' : p \in Found(t)} = {KeyAt(p) : p \in Found(t)}
  BY <1>1
<1> HIDE DEF KeyAt, Found, Before
<1> QED
  BY <1>1, <1>2, <1>3 DEF Printed

\* A thread that does not move keeps its track.
LEMMA Keeps ==
    ASSUME NEW t \in Threads, Track(t), UNCHANGED <<lists, value>>,
           Reached(t) => Reached(t)',
           i'[t] = i[t], at'[t] = at[t], printed'[t] = printed[t],
           pc'[t] = pc[t] \/ (pc[t] = "none" /\ pc'[t] = "bucket")
    PROVE  Track(t)'
<1>1. Found(t)' = Found(t)
  BY DEF Found, Places, KeyAt
<1>2. start(t)' = start(t) /\ Item(t)' = Item(t)
  BY DEF Item
<1>3. ~Reached(t)' => Printed(t)'
  BY <1>1, SamePrinted DEF Track
<1> HIDE DEF Reached, Printed
<1> QED
  BY <1>2, <1>3 DEF Track

LEMMA InitTracks == Init => Tracks
<1> SUFFICES ASSUME Init PROVE Tracks
  OBVIOUS
<1>1. TypeOK
  BY InitIInv DEF IInv
<1>2. ASSUME NEW t \in Threads PROVE Track(t)
  <2>1. /\ pc[t] = "none" /\ i[t] = start(t) /\ at[t] = 1 /\ printed[t] = <<>>
    BY DEF Init
  <2>2. Found(t) = {}
    BY <1>1, <2>1, FoundNothing
  <2>3. Printed(t)
    BY <2>1, <2>2 DEF Printed
  <2> QED
    BY <2>1, <2>3 DEF Track, Wild
<1> QED
  BY <1>2 DEF Tracks, Init

LEMMA MainTracks == IInv /\ IInv' /\ Tracks /\ Running /\ Main => Tracks'
<1> SUFFICES ASSUME IInv, IInv', Tracks, Running, Main PROVE Tracks'
  OBVIOUS
<1>1. UNCHANGED <<i, at, printed>>
  BY DEF Main, Add, EndAdd, Create, EndCreate, DestroyItem, DestroyNext, DestroyBuckets,
         DestroyEnd, Return, threadvars
<1>2. main' # "crashed"
  BY DEF Main, Add, EndAdd, Create, EndCreate, DestroyItem, DestroyNext, DestroyBuckets,
         DestroyEnd, Return, Running
<1>3. CASE Add
  <2>1. main = "add" /\ main' = "add" /\ pc' = pc
    BY <1>3 DEF Add, threadvars
  <2>2. ASSUME NEW t \in Threads PROVE Track(t)'
    <3>1. /\ pc[t] = "none" /\ i[t] = start(t) /\ at[t] = 1 /\ printed[t] = <<>>
      BY <2>1 DEF IInv, ThreadsPlace, Tracks, Track
    <3>2. \A p : ~(p \in Found(t)')
      <4> SUFFICES ASSUME NEW p, p \in Found(t)' PROVE FALSE
        OBVIOUS
      <4>1. p \in Places(t)' /\ Before(p, <<i'[t], at'[t]>>)
        BY <2>1, <3>1 DEF Found, Before
      <4>2. PICK b \in start(t) .. end(t) - 1 : \E j \in DOMAIN lists'[b] : p = <<b, j>>
        BY <4>1 DEF Places
      <4>3. b \in Indexes /\ b \in Nat /\ b >= start(t)
        BY Ranges, SizesAssumption DEF Indexes
      <4>4. PICK j \in DOMAIN lists'[b] : p = <<b, j>>
        BY <4>2
      <4>5. j \in Nat /\ j >= 1
        BY <4>3 DEF IInv, TypeOK, TableTypeOK
      <4> QED
        BY <4>1, <4>3, <4>4, <4>5, <3>1, <1>1, Ranges DEF Before
    <3>3. Printed(t)'
      BY <3>1, <3>2, <1>1 DEF Printed
    <3> QED
      BY <3>1, <3>3, <2>1, <1>1 DEF Track, Wild, start
  <2> QED
    BY <2>1, <2>2, <1>2 DEF Tracks
<1>4. CASE ~Add
  <2>1. UNCHANGED <<lists, value>>
    BY <1>4 DEF Main, EndAdd, Create, EndCreate, DestroyItem, DestroyNext, DestroyBuckets,
                DestroyEnd, Return, table, FreeItem, FreeBuckets, ForgetBuckets
  <2>2. ASSUME NEW t \in Threads, Reached(t) PROVE Reached(t)'
    <3>1. n \in Nat /\ freed \in Nat /\ start(t) \in Nat
      BY Ranges DEF IInv, TypeOK
    <3>2. \/ n' = n /\ freed' = freed /\ main' \in {"destroy", "return", "returned"}
          \/ n' = n + 1 /\ main' \in {"destroy", "return", "returned"}
          \/ n' = n /\ freed' = freed + 1 /\ main' \in {"destroy", "return", "returned"}
      BY <1>4, <2>2
         DEF Main, EndAdd, Create, EndCreate, DestroyItem, DestroyNext, DestroyBuckets,
             DestroyEnd, Return, Reached, Running
    <3> QED
      BY <2>2, <3>1, <3>2 DEF Reached, start
  <2>3. CASE Create
    <3>1. /\ main = "create" /\ main' = "create" /\ n' = n + 1 /\ n \in Threads /\ n \in Nat
          /\ (pc' = pc \/ pc' = [pc EXCEPT ![n] = "bucket"])
      BY <2>3, ThreadsAssumption DEF Create, Threads, IInv, TypeOK
    <3>2. \A t \in Threads : t \in Nat /\ (t >= n => pc[t] = "none")
      BY <3>1, ThreadsAssumption DEF Tracks, Threads
    <3>3. \A t \in Threads : t # n => pc'[t] = pc[t]
      BY <3>1 DEF IInv, TypeOK
    <3>4. pc'[n] = pc[n] \/ (pc[n] = "none" /\ pc'[n] = "bucket")
      BY <3>1, <3>2 DEF IInv, TypeOK
    <3>5. \A t \in Threads : Track(t)'
      BY <3>3, <3>4, <2>1, <2>2, <1>1, Keeps DEF Tracks
    <3> QED
      BY <3>1, <3>2, <3>3, <3>5 DEF Tracks
  <2>4. CASE ~Create
    <3>1. pc' = pc
      BY <1>4, <2>4 DEF Main, EndAdd, EndCreate, DestroyItem, DestroyNext, DestroyBuckets,
                        DestroyEnd, Return, threadvars
    <3>2. \A t \in Threads : Track(t)'
      BY <3>1, <2>1, <2>2, <1>1, Keeps DEF Tracks
    <3>3. main' = "create" => main = "add"
      BY <1>4, <2>4 DEF Main, EndAdd, EndCreate, DestroyItem, DestroyNext, DestroyBuckets,
                        DestroyEnd, Return
    <3> QED
      BY <3>1, <3>2, <3>3, <1>2 DEF Tracks, IInv, ThreadsPlace
  <2> QED
    BY <2>3, <2>4
<1> QED
  BY <1>3, <1>4

\* Going on, a thread has found what it had found.
LEMMA GoOnTrack ==
    ASSUME IInv, NEW t \in Threads, Track(t), i[t] < end(t), NEW a \in Nat \cup {Wild},
           \/ pc[t] = "bucket" /\ a \in {1, Wild}
           \/ pc[t] = "next" /\ at[t] # Wild /\ a \in {at[t] + 1, Wild},
           a = Wild => Reached(t), GoOn(t, a),
           UNCHANGED <<table, main, n, freed, printed>>
    PROVE  Track(t)'
<1>1. UNCHANGED <<lists, value, main, n, freed, printed>>
  BY DEF table
<1>2. Reached(t)' <=> Reached(t)
  BY <1>1 DEF Reached, start
<1>3. \/ pc'[t] = "bucket" /\ i'[t] = i[t] + 1 /\ at'[t] = 1 /\ a # Wild
         /\ a \notin 1 .. Len(lists[i[t]])
      \/ pc'[t] = "value" /\ i'[t] = i[t] /\ at'[t] = a
  BY DEF GoOn, Goto, IInv, TypeOK
<1>4. /\ i[t] \in Nat /\ i[t] \in Indexes /\ lists[i[t]] \in Seq(Keys)
      /\ (pc[t] = "next" => at[t] \in Nat /\ at[t] >= 1)
  <2>1. i[t] \in Nat /\ i[t] \in Indexes
    BY Ranges, SizesAssumption DEF IInv, TypeOK, Indexes
  <2>2. lists[i[t]] \in Seq(Keys)
    BY <2>1 DEF IInv, TypeOK, TableTypeOK
  <2>3. ASSUME pc[t] = "next" PROVE at[t] \in DOMAIN lists[i[t]]
    BY <2>3 DEF IInv, ThreadsPlace
  <2> QED
    BY <2>1, <2>2, <2>3
<1>5. ASSUME ~Reached(t) PROVE Printed(t)'
  <2>1. /\ a # Wild /\ a \in Nat /\ a >= 1
        /\ (pc[t] = "bucket" => a = 1 /\ at[t] = 1)
        /\ (pc[t] = "next" => a = at[t] + 1)
    BY <1>4, <1>5 DEF Track
  <2>2. ASSUME NEW p \in Places(t)
        PROVE  Before(p, <<i'[t], at'[t]>>) <=>
                  Before(p, <<i[t], at[t]>>) \/ (pc[t] = "next" /\ p = <<i[t], at[t]>>)
    <3>1. /\ p = <<p[1], p[2]>> /\ p[1] \in Nat /\ p[2] \in Nat /\ p[2] >= 1
          /\ p[2] <= Len(lists[p[1]])
      BY PlaceParts DEF IInv
    <3>2. Before(p, <<i'[t], at'[t]>>) <=> p[1] < i[t] \/ (p[1] = i[t] /\ p[2] < a)
      <4>1. CASE pc'[t] = "bucket"
        <5>1. i'[t] = i[t] + 1 /\ at'[t] = 1 /\ a > Len(lists[i[t]])
          BY <4>1, <1>3, <1>4, <2>1
        <5> QED
          BY <5>1, <3>1, <1>4, <2>1 DEF Before
      <4>2. CASE pc'[t] = "value"
        BY <4>2, <1>3 DEF Before
      <4> QED
        BY <4>1, <4>2, <1>3
    <3>3. CASE pc[t] = "bucket"
      BY <3>1, <3>2, <3>3, <2>1 DEF Before
    <3>4. CASE pc[t] = "next"
      <4>1. p[2] < a <=> p[2] < at[t] \/ p[2] = at[t]
        BY <3>1, <3>4, <2>1, <1>4
      <4>2. p = <<i[t], at[t]>> <=> p[1] = i[t] /\ p[2] = at[t]
        BY <3>1
      <4> QED
        BY <4>1, <4>2, <3>2, <3>4 DEF Before
    <3> QED
      BY <3>3, <3>4
  <2>3. Places(t)' = Places(t) /\ \A p : KeyAt(p)' = KeyAt(p)
    BY <1>1 DEF Places, KeyAt, start, end
  <2>4. Found(t)' = Found(t)
    <3>1. Found(t)' = {p \in Places(t) : /\ Before(p, <<i'[t], at'[t]>>)
                                         /\ value[KeyAt(p)] = search}
      BY <2>3, <1>1, <1>3 DEF Found, Before
    <3> HIDE DEF Before, KeyAt, Places
    <3> QED
      BY <3>1, <2>2 DEF Found
  <2> QED
    BY <2>4, <1>1, <1>5, SamePrinted DEF Track
<1>6. pc'[t] \in {"none", "bucket", "done"} => at'[t] = 1
  BY <1>3
<1>7. at'[t] = Wild => Reached(t)'
  BY <1>2, <1>3 DEF Wild
<1> HIDE DEF Reached, Printed
<1> QED
  BY <1>2, <1>3, <1>5, <1>6, <1>7 DEF Track

\* So has one that only looks, or ends, and found nothing.
LEMMA StaysTrack ==
    ASSUME IInv, NEW t \in Threads, Track(t), NEW to \in {"key", "next", "done"}, Goto(t, to),
           to = "done" => pc[t] = "bucket",
           to \in {"key", "next"} => pc[t] = "value" /\ at[t] # Wild,
           ~Reached(t) /\ to = "key" => value[Item(t)] = search,
           ~Reached(t) /\ to = "next" => value[Item(t)] # search,
           UNCHANGED <<table, main, n, freed, i, at, printed>>
    PROVE  Track(t)'
<1>1. UNCHANGED <<lists, value, main, n, freed, i, at, printed>>
  BY DEF table
<1>2. Reached(t)' <=> Reached(t)
  BY <1>1 DEF Reached, start
<1>3. pc'[t] = to
  BY DEF Goto, IInv, TypeOK
<1>4. ASSUME ~Reached(t) PROVE Found(t)' = Found(t)
  <2>1. Places(t)' = Places(t) /\ \A p : KeyAt(p)' = KeyAt(p)
    BY <1>1 DEF Places, KeyAt, start, end
  <2>2. to = "next" => KeyAt(<<i[t], at[t]>>) = Item(t)
    BY DEF KeyAt, Item
  <2>3. Found(t)' = {p \in Places(t) :
            /\ Before(p, <<i[t], at[t]>>) \/ (to = "next" /\ p = <<i[t], at[t]>>)
            /\ value[KeyAt(p)] = search}
    BY <2>1, <1>1, <1>3 DEF Found, Before
  <2>4. pc[t] # "next"
    OBVIOUS
  <2> HIDE DEF Before, KeyAt, Places
  <2> QED
    BY <2>2, <2>3, <2>4, <1>4 DEF Found
<1>5. ~Reached(t) => Printed(t)'
  BY <1>1, <1>4, SamePrinted DEF Track
<1>6. Item(t)' = Item(t) /\ start(t)' = start(t)
  BY <1>1 DEF Item
<1> HIDE DEF Reached, Printed
<1> QED
  BY <1>1, <1>2, <1>3, <1>5, <1>6 DEF Track

\* And one that prints a key has found it at its place, past all it had found.
LEMMA PrintTrack ==
    ASSUME IInv, NEW t \in Threads, Track(t), PrintKey(t)
    PROVE  Track(t)'
<1>1. /\ UNCHANGED <<lists, value, main, n, freed, i, at>>
      /\ pc[t] = "key" /\ at[t] # Wild /\ pc'[t] = "next"
  BY DEF PrintKey, table, Goto, IInv, TypeOK, ThreadsPlace
<1>2. Reached(t)' <=> Reached(t)
  BY <1>1 DEF Reached, start
<1>3. /\ i[t] \in Indexes /\ at[t] \in DOMAIN lists[i[t]]
      /\ Item(t) = lists[i[t]][at[t]] /\ Item(t) \in Keys
  BY <1>1, ReadsListed DEF IInv
<1>4. ASSUME ~Reached(t) PROVE Printed(t)'
  <2> DEFINE here == <<i[t], at[t]>>
             s == printed[t]
  <2>1. s \in Seq(Keys \cup {Garbage}) /\ printed'[t] = Append(s, Item(t))
    <3>1. item[Item(t)] = "live"
      BY <1>1, <1>4, DeadIsReached
    <3> QED
      BY <3>1 DEF PrintKey, IInv, TypeOK
  <2>2. value[Item(t)] = search /\ Printed(t) /\ KeyAt(here) = Item(t)
    BY <1>1, <1>4 DEF Track, KeyAt, Item
  <2>3. here \in Places(t) /\ here \notin Found(t)
    <3>1. i[t] \in Nat /\ i[t] >= start(t) /\ i[t] < end(t) /\ end(t) \in Nat /\ start(t) \in Nat
      BY <1>1, Ranges DEF IInv, TypeOK, ThreadsPlace
    <3>2. i[t] \in start(t) .. end(t) - 1
      BY <3>1
    <3>3. here \in Places(t)
      BY <3>2, <1>3, InPlaces DEF IInv
    <3>4. at[t] \in Nat
      BY <1>1 DEF IInv, TypeOK
    <3>5. ~Before(here, here)
      BY <3>1, <3>4 DEF Before
    <3> QED
      BY <3>3, <3>5, <1>1 DEF Found
  <2>4. Places(t)' = Places(t) /\ \A p : KeyAt(p)' = KeyAt(p)
    BY <1>1 DEF Places, KeyAt, start, end
  <2>5. Found(t)' = Found(t) \cup {here}
    <3>1. Found(t)' = {p \in Places(t) : /\ Before(p, here) \/ p = here
                                         /\ value[KeyAt(p)] = search}
      BY <2>4, <1>1 DEF Found, Before
    <3> HIDE DEF Before, KeyAt, Places, here
    <3>2. Found(t) = {p \in Places(t) : Before(p, here) /\ value[KeyAt(p)] = search}
      BY <1>1 DEF Found, here
    <3> QED
      BY <3>1, <3>2, <2>2, <2>3
  <2>6. /\ {s[k] : k \in DOMAIN s} = {KeyAt(p) : p \in Found(t)}
        /\ \A k, l \in DOMAIN s, p, q \in Found(t) :
              s[k] = KeyAt(p) /\ s[l] = KeyAt(q) => (k < l <=> Before(p, q))
    BY <2>2 DEF Printed
  <2>7. /\ DOMAIN Append(s, Item(t)) = DOMAIN s \cup {Len(s) + 1}
        /\ Append(s, Item(t))[Len(s) + 1] = Item(t)
        /\ \A k \in DOMAIN s : /\ Append(s, Item(t))[k] = s[k] /\ k # Len(s) + 1
                               /\ k < Len(s) + 1 /\ ~(Len(s) + 1 < k)
        /\ ~(Len(s) + 1 < Len(s) + 1)
    BY <2>1, <1>3
  <2>8. ASSUME NEW p \in Places(t), NEW q \in Places(t), KeyAt(p) = KeyAt(q) PROVE p = q
    <3>1. /\ p = <<p[1], p[2]>> /\ p[1] \in Indexes /\ p[2] \in DOMAIN lists[p[1]]
      BY PlaceParts DEF IInv
    <3>2. /\ q = <<q[1], q[2]>> /\ q[1] \in Indexes /\ q[2] \in DOMAIN lists[q[1]]
      BY PlaceParts DEF IInv
    <3>3. p[1] = q[1] /\ p[2] = q[2]
      BY <3>1, <3>2, <2>8 DEF IInv, ListsApart, KeyAt
    <3> QED
      BY <3>1, <3>2, <3>3
  <2>9. Found(t) \subseteq Places(t) /\ \A p \in Found(t) : Before(p, here) /\ ~Before(here, p)
    <3>1. Found(t) \subseteq Places(t) /\ \A p \in Found(t) : Before(p, here)
      BY <1>1 DEF Found
    <3>2. ASSUME NEW p \in Found(t) PROVE ~Before(here, p)
      <4>1. p[1] \in Nat /\ p[2] \in Nat /\ i[t] \in Nat /\ at[t] \in Nat
        BY <3>1, <1>1, PlaceParts DEF IInv, TypeOK
      <4> QED
        BY <3>1, <4>1 DEF Before
    <3> QED
      BY <3>1, <3>2
  <2>10. ~Before(here, here)
    BY <1>1 DEF Before, IInv, TypeOK
  <2> DEFINE r == Append(s, Item(t))
             found == Found(t) \cup {here}
             last == Len(s) + 1
  <2>11. /\ DOMAIN r = DOMAIN s \cup {last} /\ r[last] = KeyAt(here)
         /\ \A k \in DOMAIN s : /\ r[k] = s[k] /\ k # last /\ k < last /\ ~(last < k)
         /\ ~(last < last)
    BY <2>7, <2>2
  <2> HIDE DEF r, s, here, found, last
  <2>12. {r[k] : k \in DOMAIN r} = {KeyAt(p) : p \in found}
    <3>1. {r[k] : k \in DOMAIN r} = {s[k] : k \in DOMAIN s} \cup {KeyAt(here)}
      BY <2>11
    <3> QED
      BY <3>1, <2>6 DEF found
  <2>13. ASSUME NEW k \in DOMAIN r, NEW l \in DOMAIN r, NEW p \in found, NEW q \in found,
                r[k] = KeyAt(p), r[l] = KeyAt(q)
         PROVE  k < l <=> Before(p, q)
    <3>1. ASSUME NEW m \in DOMAIN s, NEW o \in found, s[m] = KeyAt(o) PROVE o \in Found(t)
      <4>1. PICK u \in Found(t) : KeyAt(u) = s[m]
        BY <2>6
      <4>2. o = u
        BY <3>1, <4>1, <2>3, <2>8, <2>9 DEF found
      <4> QED
        BY <4>1, <4>2
    <3>2. ASSUME NEW o \in found, KeyAt(here) = KeyAt(o) PROVE o = here
      BY <3>2, <2>3, <2>8, <2>9 DEF found
    <3>3. CASE k # last /\ l # last
      BY <3>1, <3>3, <2>6, <2>11, <2>13
    <3>4. CASE k # last /\ l = last
      <4>1. q = here /\ p \in Found(t) /\ k < l
        BY <3>1, <3>2, <3>4, <2>11, <2>13
      <4> QED
        BY <4>1, <2>9
    <3>5. CASE k = last /\ l # last
      <4>1. p = here /\ q \in Found(t) /\ ~(k < l)
        BY <3>1, <3>2, <3>5, <2>11, <2>13
      <4> QED
        BY <4>1, <2>9
    <3>6. CASE k = last /\ l = last
      <4>1. p = here /\ q = here /\ ~(k < l)
        BY <3>2, <3>6, <2>11, <2>13
      <4> QED
        BY <4>1, <2>10
    <3> QED
      BY <3>3, <3>4, <3>5, <3>6
  <2>14. {KeyAt(p)' : p \in found} = {KeyAt(p) : p \in found}
    BY <2>4
  <2>15. printed'[t] = r /\ Found(t)' = found
    BY <2>1, <2>5 DEF r, s, found
  <2> HIDE DEF KeyAt, Found, Before
  <2> QED
    BY <2>4, <2>12, <2>13, <2>14, <2>15 DEF Printed
<1> HIDE DEF Reached, Printed
<1> QED
  BY <1>1, <1>2, <1>4 DEF Track

LEMMA SearcherTracks ==
    ASSUME IInv, IInv', Tracks, Running, NEW t \in Threads, Searcher(t)
    PROVE  Tracks'
<1>1. CASE Crash(t)
  <2>1. /\ UNCHANGED <<lists, value, n, freed, i, at, printed>>
        /\ main' = "crashed" /\ main # "crashed"
        /\ pc'[t] = "crashed" /\ \A u \in Threads : u # t => pc'[u] = pc[u]
    BY <1>1 DEF Crash, table, Running, Goto, IInv, TypeOK
  <2>2. \/ ReadBucket(t) /\ pc[t] = "bucket" /\ buckets = "NULL"
        \/ ReadValue(t) /\ pc[t] = "value" /\ at[t] = Wild
    BY <2>1 DEF Searcher, ReadBucket, ReadValue, PrintKey, ReadNext, Finish
  <2>3. Reached(t)
    <3>1. CASE pc[t] = "value" /\ at[t] = Wild
      BY <3>1 DEF Tracks, Track
    <3>2. CASE pc[t] = "bucket" /\ buckets = "NULL"
      <4>1. main \in {"return", "returned"} /\ n = BUCKETS
        BY <3>2, <2>1 DEF IInv, MainPlace, ThreadsPlace, TypeOK
      <4> QED
        BY <3>2, <4>1, RangeStarts, SizesAssumption DEF Reached
    <3> QED
      BY <2>2, <3>1, <3>2
  <2>4. \A u \in Threads : Reached(u) => Reached(u)'
    BY <2>1 DEF Reached, start
  <2>5. \A u \in Threads : u # t => Track(u)'
    BY <2>1, <2>4, Keeps DEF Tracks
  <2>6. Track(t)'
    <3> HIDE DEF Reached, Printed
    <3> QED
      BY <2>1, <2>3, <2>4 DEF Track
  <2> QED
    BY <2>1, <2>5, <2>6 DEF Tracks
<1>2. CASE ~Crash(t)
  <2>1. UNCHANGED <<lists, value, main, n, freed>> /\ UNCHANGED table
    BY <1>2 DEF Searcher, ReadBucket, ReadValue, PrintKey, ReadNext, Finish, table
  <2>2. \A u \in Threads : u # t =>
            i'[u] = i[u] /\ at'[u] = at[u] /\ printed'[u] = printed[u] /\ pc'[u] = pc[u]
    <3>1. \A u \in Threads : u # t => i'[u] = i[u] /\ at'[u] = at[u] /\ pc'[u] = pc[u]
      BY <1>2 DEF Searcher, ReadBucket, ReadValue, PrintKey, ReadNext, Finish, GoOn, Goto,
                  IInv, TypeOK
    <3>2. \A u \in Threads : u # t => printed'[u] = printed[u]
      BY <1>2 DEF Searcher, ReadBucket, ReadValue, PrintKey, ReadNext, Finish, IInv, TypeOK
    <3> QED
      BY <3>1, <3>2
  <2>3. \A u \in Threads : Reached(u)' <=> Reached(u)
    BY <2>1 DEF Reached, start
  <2>4. Track(t)
    BY DEF Tracks
  <2>5. Track(t)'
    <3>1. CASE ReadBucket(t)
      <4>1. /\ pc[t] = "bucket" /\ i[t] < end(t)
            /\ UNCHANGED <<table, main, n, freed, printed>>
        BY <1>2, <3>1 DEF ReadBucket
      <4>2. PICK a \in {1} \cup (IF buckets = "freed" THEN {Wild} ELSE {}) : GoOn(t, a)
        BY <1>2, <3>1 DEF ReadBucket
      <4>3. a = Wild => Reached(t)
        <5>1. ASSUME a = Wild PROVE main = "destroy" /\ n = BUCKETS
          <6>1. buckets = "freed"
            BY <4>2, <5>1 DEF Wild
          <6> QED
            BY <6>1 DEF IInv, MainPlace, Running, TypeOK
        <5> QED
          BY <5>1, RangeStarts, SizesAssumption DEF Reached
      <4> QED
        BY <2>4, <4>1, <4>2, <4>3, GoOnTrack
    <3>2. CASE ReadValue(t)
      <4>1. /\ pc[t] = "value" /\ at[t] # Wild
            /\ UNCHANGED <<table, main, n, freed, i, at, printed>>
        BY <1>2, <3>2 DEF ReadValue
      <4>2. PICK v \in IF item[Item(t)] = "live" THEN {value[Item(t)]}
                       ELSE Values \cup {search} :
                Goto(t, IF v = search THEN "key" ELSE "next")
        BY <1>2, <3>2 DEF ReadValue
      <4>3. ~Reached(t) => v = value[Item(t)]
        BY <4>1, <4>2, DeadIsReached
      <4>4. CASE v = search
        BY <2>4, <4>1, <4>2, <4>3, <4>4, StaysTrack
      <4>5. CASE v # search
        BY <2>4, <4>1, <4>2, <4>3, <4>5, StaysTrack
      <4> QED
        BY <4>4, <4>5
    <3>3. CASE PrintKey(t)
      BY <2>4, <3>3, PrintTrack
    <3>4. CASE ReadNext(t)
      <4>1. /\ pc[t] = "next" /\ at[t] # Wild /\ i[t] < end(t) /\ at[t] \in Nat
            /\ UNCHANGED <<table, main, n, freed, printed>>
        BY <3>4 DEF ReadNext, IInv, ThreadsPlace, TypeOK
      <4>2. PICK a \in {at[t] + 1} \cup (IF item[Item(t)] = "live" THEN {} ELSE {Wild}) :
                GoOn(t, a)
        BY <3>4 DEF ReadNext
      <4>3. a = Wild => Reached(t)
        <5>1. at[t] + 1 # Wild
          BY <4>1 DEF Wild
        <5> QED
          BY <5>1, <4>1, <4>2, DeadIsReached
      <4>4. a \in {at[t] + 1, Wild} /\ a \in Nat \cup {Wild}
        BY <4>1, <4>2
      <4> QED
        BY <2>4, <4>1, <4>2, <4>3, <4>4, GoOnTrack
    <3>5. CASE Finish(t)
      <4>1. /\ pc[t] = "bucket" /\ Goto(t, "done")
            /\ UNCHANGED <<table, main, n, freed, i, at, printed>>
        BY <3>5 DEF Finish
      <4> QED
        BY <2>4, <4>1, StaysTrack
    <3> QED
      BY <3>1, <3>2, <3>3, <3>4, <3>5 DEF Searcher
  <2>6. \A u \in Threads : Track(u)'
    BY <2>1, <2>2, <2>3, <2>5, Keeps DEF Tracks
  <2>7. main = "create" => \A u \in Threads : u >= n => pc'[u] = "none"
    <3>1. pc[t] # "none"
      BY DEF Searcher, ReadBucket, ReadValue, PrintKey, ReadNext, Finish
    <3> QED
      BY <2>2, <3>1 DEF Tracks
  <2> QED
    BY <2>1, <2>6, <2>7 DEF Tracks, Running
<1> QED
  BY <1>1, <1>2

LEMMA NextTracks == IInv /\ IInv' /\ Tracks /\ [Next]_vars => Tracks'
<1> SUFFICES ASSUME IInv, IInv', Tracks, [Next]_vars PROVE Tracks'
  OBVIOUS
<1>1. CASE Running /\ Main
  BY <1>1, MainTracks
<1>2. ASSUME NEW t \in Threads, Running, Searcher(t) PROVE Tracks'
  BY <1>2, SearcherTracks
<1>3. CASE UNCHANGED vars
  <2>1. UNCHANGED <<lists, value, main, n, freed, pc, i, at, printed>>
    BY <1>3 DEF vars, table, threadvars
  <2>2. \A t \in Threads : Reached(t)' <=> Reached(t)
    BY <2>1 DEF Reached, start
  <2>3. \A t \in Threads : Track(t)'
    BY <2>1, <2>2, Keeps DEF Tracks
  <2> QED
    BY <2>1, <2>2, <2>3 DEF Tracks
<1> QED
  BY <1>1, <1>2, <1>3 DEF Next

\* Until htab_destroy comes to the range of a started thread it has printed just the
\* keys it found there with the value it searches, each once and in their order; and
\* the thread that brings the process down is one whose range has been reached.
THEOREM SearchedUntilReached == Spec => []SearchedInTime
<1>1. Tracks => SearchedInTime
  BY DEF Tracks, Track, SearchedInTime
<1> QED
  BY Strong, InitTracks, NextTracks, <1>1, PTL DEF Spec
=============================================================================
