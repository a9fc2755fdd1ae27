# Verification of CAB403_Linux

This directory holds TLA+ models of the programs in this repository, the
configurations under which TLC checks them, and proofs that TLAPS checks. Paths
below are relative to the root of the sources (`src/`).

The repository is the work of a course on systems programming: two assignments
(`A1`, `A2`) and weekly practicals (`P01` to `P09`). There is no single program.
The parts worth a model are those in which several processes or threads share
memory, and the data structures whose loops are easy to get wrong.

Running one: `tlc -config MCShmIpc_anytime.cfg MCShmIpc`; checking the proofs of
one module: `tlapm ShmIpc_proofs.tla`. `PROJECT.json` lists the runs, the lines
each definition stands for, the hazards, the findings and the theorems.

## 1. Inventory

| Part | State | Operations | Interacts through | Hard behaviour |
|---|---|---|---|---|
| Work requests, `A1/POSIX/shm_ipc.c` | a named shared memory object: two semaphores, operation, two operands, result | create, request (20 times), quit, destroy; open by name, serve | the name, the object | processes ordered by `sleep(1)`; failing calls; an object an earlier run left; fields passed one by one |
| Growable vector, `A1/Vector` | size, capacity, array | init, ensure capacity, destroy, copy, clear, push, pop, insert, remove, last, foreach | calls | indices at the ends, fresh and stale memory, growth |
| Elevator car, `A2/car.c` | shared memory: mutex, condition variable, floors, status, eight flags | set-up, `connect_controller`, `car_run`, tear-down | shared memory with safety, internal and the tests; TCP with the controller | two threads, one condition variable for all, use without the mutex, SIGINT |
| Safety system, `A2/safety.c` | its mapping of that memory | attach, wait, heartbeat, obstruction, stop, overload, consistency | shared memory | attaching while car still sets up; one pass only |
| Internal controls, `A2/internal.c` | local copies of a floor | open, close, stop, service on and off, up, down | shared memory | `uint8_t` floors; unlocked checks; two writes for one move; `==` on strings |
| Controller, `A2/controller.c` | a list of cars, a list of threads | accept, register, call | TCP | the list's mutexes, the address of one descriptor passed to every thread |
| Call pad, `A2/call.c` | none | one request | TCP | none |
| Producer and consumer, `P06/PC_Semaphore` | array of five, two pointers, two semaphores, mutex | insert, remove | shared memory | interleaving |
| Producer and consumer, `P06/PC_Conditional` | ring of five flags, `in`, `out`, mutex, two condition variables | put, take | shared memory | lost and spurious wakeups |
| Counting threads, `P06/Bounded_Buffer` | a counter | add | mutex | none beyond mutual exclusion |
| Message queue, `P05/Prod_Cons_Threads` | array, `position`, `is_room`, `keep_running`, in one struct | create, produce, consume, stop on a key, join | unsynchronised memory | data races, an inverted wait, writes outside the array, threads that cannot be joined |
| Hash table search, `P05/Hashtable_Search` | buckets, lists of items | add, find, delete, destroy; search by four threads | memory | destroyed while searched; failing `malloc` and `pthread_create` |
| Round robin, `P09/Round_Robin` | job list, ready list | make, take, slice, put back | calls | pointers that are never reset |
| `P01` to `P04`, `P05/Thread_Creation`, `P03/Fork`, `P08` | little | read, compute, print; sequential sockets | | |

What makes each part correct:

* **Work requests.** Request and answer alternate; an answer belongs to its
  request; the two processes never touch the block together; both end and leave
  nothing behind.
* **Car, safety, internal.** Nobody is inside the mutex with somebody else;
  what safety sees it deals with, every time; every press of a button is seen and
  moves the doors; car connects when safety is there, and again when a connection
  has ended; up and down move by one floor. The code does only part of this:
  sections 3.4 and 5.
* **Both buffers of P06.** First in, first out, never over capacity, no wakeup
  lost, nobody stops the others for good.
* **Message queue.** Nothing outside the array is touched; `is_room` says whether
  there is room; the program stops when it is told to.
* **Hash table.** Each thread prints exactly the matching keys of its range;
  everything is freed, once; what is found is what was asked for.
* **Vector.** It is a sequence; nothing unwritten is read, nothing is written
  outside; growth is geometric.
* **Round robin.** The order of a queue, equal turns, exact times, an end.

Two things about `A2` as committed shape its model. It does not build with a
current glibc (headers are missing, `setsocketopt` is not a function), and its
programs copy their arguments through pointers that were never initialised. The
model of car, safety and internal begins behind these copies. And they compare
strings with `==`, which compares addresses and is always false here;
`safety.c` gives a pattern with `?` to a basic regular expression, where it
stands for itself. Section 3.4 says how the model treats this.

## 2. Modules

| Module | Models | Implements | Instance | Proofs |
|---|---|---|---|---|
| `WorkRpc` | the promise of `request_work` | | | |
| `ShmIpc` | `A1/POSIX/shm_ipc.c` | `WorkRpc` | `MCShmIpc` | `ShmIpc_proofs` |
| `BoundedBuffer` | the promise of both buffers of P06 | | | |
| `SemBuffer` | `P06/PC_Semaphore/skeleton_buffer.c` | `BoundedBuffer` | `MCSemBuffer` | `SemBuffer_proofs` |
| `CondBuffer` | `P06/PC_Conditional/ConditionVar_SKEL.c` | `BoundedBuffer` | `MCCondBuffer` | `CondBuffer_proofs` |
| `CarShm` | `A2/car.c`, `A2/safety.c`, `A2/internal.c`, the writes of `A2/test` | | `MCCarShm` | `CarShm_proofs` |
| `MsgQueue` | `P05/Prod_Cons_Threads/msgq.c` | | `MCMsgQueue` | `MsgQueue_proofs` |
| `HashTable` | the table of `P05/Hashtable_Search` and its functions | | | |
| `HashSearch` | `main` and the search threads, on `HashTable` | | `MCHashSearch` | `HashSearch_proofs` |
| `HashContract` | a caller of the functions of `HashTable` | | `MCHashContract` | |
| `Vec` | the promise of `dbl_vector.h` | | | |
| `DblVector` | `A1/Vector/dbl_vector.c` | `Vec` | `MCDblVector` | `DblVector_proofs` |
| `RoundRobin` | the promise of the comment that opens the program | | | |
| `RoundRobinLists` | `P09/Round_Robin` | `RoundRobin` | `MCRoundRobin` | `RoundRobinLists_proofs` |

Actions and variables have the names of the functions and fields they stand for
where there is one. A definition preceded by "Mutation:" models no code: it is a
slip the code might contain, used to see that a property would notice it.

## 3. What is modelled, and what the runs show

### 3.1 Work requests (`ShmIpc`)

One step is one system call or one access to the shared block, on either side.
`cpc` and `wpc` say where controller and worker are, `cdata` and `wdata` what
they have mapped, `mem` holds the object this run creates and one an earlier
run left. The arithmetic is abstracted: a result is the request it was computed
from, so a result tells which question it answers. `lost` records that a
semaphore was initialised under a waiter; C leaves open whether it is ever
woken, so both happen. Touching a mapping that has no page yet ends the worker
(SIGBUS).

The worker may open the object at any time: `sleep(1)` (`shm_ipc.c:330`) orders
nothing, it only makes most of these runs unlikely. `CallsMayFail` lets
`shm_open`, `ftruncate` and `mmap` fail, each on its own.

`shm_anytime` shows that, even so, the two processes never touch the block at
once (`OneToken`, `NoDataRace`), that an answer belongs to its request
(`ResultMatchesRequest`) and that every call is the synchronous call of `WorkRpc`
(`RpcSafety`); that only a controller without a worker waits for ever
(`AnsweredUnlessOrphaned`); and that a worker that attached to the finished object
ends together with its controller, with nothing left mapped or linked
(`AttachedThenFinish`). What a worker risks that comes too early is visible in
the hypotheses of the last two: it attaches to nothing or to an old object, is
killed, or sleeps for ever, and the controller's `sem_wait`, which has no timeout,
never learns of it.

Bounds: two requests before the quit request (twenty in the code), two operands,
four operations. Two requests are enough to see an answer to the request before
the last; a third adds nothing that the second does not, and the proofs do not
bound them. The stale object takes every state of its semaphores and operation.

Fairness: weak fairness of each process. The kernel runs both, and a process
that waits is not starved by the other, as each semaphore has one waiter.

### 3.2 Buffer with semaphores (`SemBuffer`)

One step is one statement of `insert_item` or `remove_item`; every thread's
semaphore, mutex, array access, increment, modulo and post are separate, so the
mutex is what makes them a unit. `sem_buffer` runs two producers and two
consumers on three slots with two distinguishable items. Two threads per side
meet in every window; three slots make the pointers wrap at different times and
make full, empty and partly full different.

`SemaphoresBalance`, `SlotsAsPromised` and `PointersMatchCount` relate the three
descriptions of how full the buffer is; `SlotsAsPromised` says of every slot
whether it holds an item. `TypeOK` says that a pointer is past the end only while
the thread that moved it there has the mutex. `IsBoundedBuffer` maps the array
between the pointers to the queue of `BoundedBuffer`; an item is put when it is
written, and taken when it is read.

`KeepsFlowing` assumes weak fairness of every thread, as the scheduler runs every
thread that can run. It claims progress of a side, not of each thread: POSIX
semaphores and mutexes promise no order among waiters, and a single thread may
starve.

### 3.3 Buffer with condition variables (`CondBuffer`)

`cond_buffer` has the program's own size: two producers, two consumers, five
slots. Waiting, a wakeup without a signal, a signal that wakes one of several,
and the race for the mutex after it are steps. `NoLostWakeup` says that a thread
sleeps while there is work for it only if somebody is awake who will see to it.
`IsBoundedBuffer` has a capacity of one less than the slots: `in` and `out`
coincide when the ring is empty. The program passes only a flag, so all items
are alike and the order among them is not observable.

Fairness: weak fairness of every thread, and finitely many spurious wakeups; a
thread woken for nothing for ever would be no fault of the code. The condition
variables are globals that the code never initialises; the model takes zeroed
ones to be good, as they are on Linux.

### 3.4 Car, safety and internal (`CarShm`)

Threads: `main`, `tcp` (`connect_controller`) and `run` (`car_run`) of car, and
`safety`. `pc` says where each is. Statements of car and safety are separate
steps. A command of internal, or a write of a test, is one step taken while the
mutex is free, because what it does between lock and unlock only a process that
does not lock could see half done, and those that do not (`Poll`, `ClearFlag`)
read or write a single flag. `up` and `down` are four steps, as they look at
mode and status (`InternalMoves`) and then at the floor (`InternalFloor`) without the
mutex, and lock twice when they pass the ground (`MovePastGround`,
`WriteDestination`); `lift` keeps their local variables. Signals wake one sleeper, whoever it is, since all share one
condition variable; broadcasts (tests) wake all.

* `match` FALSE is the program as C compiles it: no comparison of strings ever
  succeeds, so internal finds every operation invalid and the consistency check
  always finds the data inconsistent. TRUE opens the code behind these tests, as
  if the comparisons compared contents. Only the first says what the programs
  do; the second shows whether what lies behind the tests is sound. A run chooses
  one at the start, so one instance checks both.
* `Interrupts`: SIGINT to car, at any step. It keeps the mutex it holds.
* `CallsMayFail`: `shm_open`, `ftruncate`, `mmap`. `main` does not learn of a
  failure and writes through the pointer it has (`"crashed"`).
* `Presses` bounds the commands of internal and the writes of the tests. Two are
  enough for a press during the handling of another, for a press after safety's
  pass, and for service mode and a move; the proofs do not bound it.
* `Floors` gives the floors a car may be started on, for each value of `match`: one
  as compiled, where no floor is ever looked at, and behind the string tests both
  sides of the ground, the lowest floor, and 255, where a `uint8_t` ends.
* `TestFloors`, `TestStatuses` and `TestExcesses` bound what the tests write: the
  instance has one floor beside those without a number ("ABC"), the status
  "Asdfghj", and a value above 1 in `safety_system` only, where safety counts on it.
  The proofs take any.
* `early` is a history variable: safety opened the object before car had set it
  up. car may then initialise a mutex that safety holds, or clear its heartbeat.
  Nothing in the code orders the two, so these runs are part of the model; but
  no comment promises anything about them, and mutual exclusion does fail in
  them. The properties say `~early` where they need it.

The environment is what `A2/test` does to the shared memory, at any moment and in
any order: `TestWrites` sets a flag and broadcasts, some of them to 0 or above 1;
`TestResets` is `reset_shm`, which zeroes all flags, the heartbeat among them, and
signals nothing; `TestSets` writes the status and the floors, with text that is no
floor among it. A watcher of the tests waits on the same condition variable, so
every signal of the programs may go to it instead.

`car_code` shows, as compiled and behind the string tests, with failing calls and
interrupts:

* `OneInside`: mutual exclusion, through signals, killed holders and resets.
* `SafetyPassComplete`: where a pass of safety ends, the heartbeat is 1 and no stop
  or overload is without emergency mode. Not so an obstruction: `status == "Closing"`
  never holds, the doors go on closing, and `test-safety.c:41-49` expects "Opening".
* `MovesOneFloor`: the destination that up or down leaves in the end, both writes
  made, is the neighbouring floor in the numbering of `internal.h`, "B99-B1 and
  1-999", exactly when the move does not cross the ground and starts at level 254
  or below. A move from B1 up, or from 1 down, shows the right floor first and then
  overwrites it with level 0; from 255 on the level has wrapped, and `down` refuses
  most floors above 100. `test-internal.c:42` and `:55` expect the neighbour there.
* `PressReset`: as compiled, a press before the end of `car_run` gets its button
  reset. That is all: no door moves, and the second press of `test-car-1.c:70-88`
  and `test-car-2.c:36-52` meets a `car_run` that has ended. Stated without `match`:
  behind the string tests safety sleeps on the same condition variable and may get
  car's signal.
* `ConnectsWhenSafe`: with a heartbeat that stays set, `connect_controller` does not
  go round its loop for ever. It then ends; the connection that `test-car-4.c`
  expects to be kept and made again is not in the code.

`car_stop` is a violation: a stop pressed after safety's only pass is never handled.

Fairness: weak fairness of every thread, a controller that is started at some
time, and finitely many spurious wakeups. Nothing is assumed of the presses, of
the tests or of the interrupt.

### 3.5 Vector (`DblVector`)

One action is one call. The loops are kept index by index, because what they
read and write outside the vector, but inside the array, matters. `Garbage` is
what fresh memory holds and what no caller ever wrote. Callers keep the
preconditions of `dbl_vector.h`: a vector is initialised once and used only
between `dv_init` and `dv_destroy`, and is not copied to itself.

`vector_sequence` puts two vectors of up to three elements through every call in
every order, from an initial capacity of two so that growth is soon needed, with
capacities of eight and nine reserved so that a quarter more is too little for one
and more than asked for the other (rounded down, as the code does). `IsSequence` maps `dv_foreach` to the
sequences of `Vec`. `vector_inside` has the initial capacity of the header.

A write behind the array is recorded in `overrun`. What follows such a write is
undefined in C; the model goes on with the runs in which the program does and no
other memory is harmed. The slot written is never read as part of the vector.

### 3.6 Round robin (`RoundRobinLists`)

The program is one thread; an action is a turn of a loop. The job list keeps
`head`, `tail` and every node's `nextNode`, which no code resets, so that the
list becomes a ring. `Nth` follows the pointers from the head, `Queue` are the
nodes up to the first that is the tail, and `IsRoundRobin` maps it to the queue of
`RoundRobin`. `FairTurns`, `TimeIsKept` and `Completes` are about the schedule; they
count the turns and the units of time in the ready queue.

`round_robin` has the program's five processes and every combination of burst
times of 0, 1, 2, 3 and 5 with a quantum of 2: none, less than one quantum,
exactly one, more than one, more than two (0 to 212 and 20 in the program).
`MaxTurns` is never reached. Fairness: the program runs as long as it can.

### 3.7 Message queue (`MsgQueue`)

`position`, `is_room` and `keep_running` are plain fields that all threads use
without a lock, so one step is one load or store of one of them, in the order in
which the compiler of the makefile (gcc without optimisation) emits them:
`position++` is `Load` and `Increment` and is followed by the write of the
message (`Put`); `--position` is read again to index with (`Take`). What a write
behind the array hits is the layout of the struct: five `time_t` of eight bytes,
then `keep_running` (byte 40), `position` (44) and `is_room` (48). The next place
behind the array covers the first two, the one after it the third; places below
or further off belong to nothing the model has. `crew` is what the command line
asked for; `met` is history: two threads were in the middle of a turn together.
`TypeOK` lets `position` be any integer, because the races move it anywhere, and
says instead where the threads can be: in their own function, started only if
asked for, all of them started when `main` goes on and ended when it returns.

| Run | Shows |
|---|---|
| `msgq_races` | without such a meeting nothing goes wrong except what the inverted wait of the consumer does alone, at the one place below the array (`AloneKeepsBounds`); once the key is hit every thread ends or is caught in a wait, unless a message lands on `keep_running` (`EndOrCaught`) |
| `msgq_stops` | a violation: the program does not stop when the key is hit |

Bounds: two producers and a consumer, a producer and two consumers, and nobody,
on two places (five in the code), so that a full and an empty array, a race of
two of a kind and a race between kinds all occur; `MinPosition` and
`MaxPosition` end a run before `position` drifts away, and lie outside everything
`AloneKeepsBounds` allows; while the program is stopping they stop nobody. The
violation has one producer, one consumer and the code's five places.

Fairness: weak fairness of each thread, and of the join. The key may never be
hit. Deadlock is not checked: threads that are caught are what the run is about.

### 3.8 Hash table (`HashTable`, `HashSearch`, `HashContract`)

`HashTable` has the table's functions, shared by two models of their callers. A
bucket is the sequence of keys along the `next` pointers; `item` says which are
allocated, since freeing an item changes no pointer to it. The keys are those
`main` makes, three letters from a number, and are hashed by the program's own
`djb_hash`.

`HashSearch` is the program. One step of a thread is one read of the table; one
step of `htab_destroy` is one `free`. What a thread reads from freed memory is
nondeterministic: the value or another, the key or `Garbage`, the next pointer or
a `Wild` one whose use ends the process. `malloc` and `pthread_create` may fail
and nobody looks. `hash_threads` shows that what a thread prints is exactly the
matching keys of its range, in order, as long as `htab_destroy` has not reached
that range, and that the thread that crashes the process is one it has reached
(`SearchedInTime`, which compares what is printed with the places of the table in
the order of buckets and lists); and that everything is freed, once and in order,
the array of buckets when no item is left (`FreedInOrder`). Of a thread that
`pthread_create` did not start nothing is asked: its range is searched by nobody,
and `main` does not know. The threads are not joined, so nothing more can be promised.

Bounds: five items, four buckets, two threads. Five keys in four buckets
collide, so there are lists of none, one and several items; each thread has two
buckets, so ranges have a middle and an end. The two values are searched for and
not. No fairness is assumed; the process ends when main returns, so deadlock is
not checked.

`HashContract` calls `htab_add`, `htab_find` and `htab_delete` in any order; the
program itself calls neither of the last two. `hash_find` is a violation: with
one key in its bucket, `htab_find` does not find it.

## 4. What is proved

For every value of the constants, from their assumptions, which TLC evaluates on
the instances. Every type invariant, safety invariant, action property and
refinement that a passing run checks is a theorem. Some theorems state the part
of a liveness property that is about single states: that nobody is ever stuck
where the program has no excuse for it. Their conditions for being stuck are
written out as guards; on the instances they hold exactly where TLC finds the
actions of the thread disabled.

**`ShmIpc_proofs`**, for every number of requests, any operands, with or without
failing calls, whenever the worker comes:

* `TypeCorrect`, `TokenConserved`, `RaceFree`, `AnswersMatch` and
  `Implementation` (`TypeOK`, `OneToken`, `NoDataRace`, `ResultMatchesRequest`,
  `RpcSafety`).
* None of these is inductive. `IInv` adds that a process that runs has its object
  mapped (`Mapped`), that an earlier run's object has at most one token too
  (`OldToken`: a worker may serve it, and must not raise a semaphore above one),
  that the fields of a request are in the block once they have been put
  (`Written`), and that the token says whether the block holds the answer yet
  and what the worker has read belongs to the request (`Answered`). A worker that
  attached to the new object before its semaphores were initialised is covered:
  the object has no token before `PostRequest`.
* The refinement has one lemma per kind of step; all but `PostRequest`,
  `PostAnswer` on the new object, and `ReturnResult` stutter.
* `OnlyOrphansHang`: when neither the controller's `sem_wait` nor the worker can go
  on, the controller is `Orphaned`. It adds to `IInv` that what the controller maps
  has a page (`Sized`).

**`SemBuffer_proofs`**, for any finite sets of producers and consumers, any number
of slots above zero and any items:

* `TypeCorrect`, `Balanced`, `SlotsRight`, `PointersRight` and `Implementation`
  (`TypeOK`, `SemaphoresBalance`, `SlotsAsPromised`, `PointersMatchCount`,
  `IsBoundedBuffer`).
* `Base` is inductive: types, one thread inside (`Exclusive`), the balance of the
  semaphores as cardinalities of sets of threads, and where the pointers may be
  (`Ends`). `Contents` adds that the items fill the slots from the first
  to the last (`Filled`), where a pointer between its access and its modulo counts
  as moved on, and that a producer on its way has an item (`Carrying`). The
  refinement follows from how the queue read off the array changes (`QueueIs`).
* `NeverAllBlocked`, if there is a producer and a consumer: the semaphores and the
  mutex are not all waited for at once. It follows from the balance: with nobody
  between the semaphores, one of them is up.

**`CondBuffer_proofs`**, for any finite sets of threads and any ring:

* `TypeCorrect`, `FlagsRight`, `NoWakeupLost` and `Implementation` (`TypeOK`,
  `FlagsMatchPointers`, `NoLostWakeup`, `IsBoundedBuffer`).
* `TypeOK` includes mutual exclusion and is inductive. With it, the thread between
  flag and pointer still has the room or the item it looked for (`Advancing`), and
  the flags follow the pointers but for its slot (`Marked`). For the wakeups,
  `ForRoom` and `ForItems` count the threads that are awake and will look, or are
  about to signal; they are never fewer than the places somebody could sleep for.
* `NeverAllBlocked`, if there is a producer and a consumer: not everybody is asleep
  or waiting for the mutex. If all slept, `NoLostWakeup` would leave neither an
  item nor a free place, and a ring of two slots or more has one of them.
* Both rings assume that "nobody" is no thread (`FreeAssumption`).

**`CarShm_proofs`**, for any number of presses, any floors, with or without
interrupts, failing calls and matching strings:

* `TypeCorrect`, `MutualExclusion`, `PassComplete` and `OneFloorAtATime` (`TypeOK`,
  `OneInside`, `SafetyPassComplete`, `MovesOneFloor`).
* `Control` is inductive: where the threads can be given where `main` is (`Order`),
  and that whoever is inside has the mutex unless it has been destroyed, which
  only happens when `car_run` is past it (`Owned`). `Data` adds what the memory can
  hold, and that `car_init` stops clearing after eight flags (`Clearing`). `Pass`
  strengthens `SafetyPassComplete` to every place inside safety's pass: nobody who
  writes while safety has the mutex undoes what an `if` it has passed left behind.
  `LiftRight` says what up and down carry between their steps; `MovedRight` is the
  arithmetic of a `uint8_t` below its wrap.
* `PressOnItsWay` is what `PressReset` says of single states. A press that waits for
  `car_run` finds it awake or on its way to look (`PressSeen`), and the mutex free
  or held by somebody who will give it back (`HolderInside`: a thread that ended,
  sleeps or was killed before it locked never holds it, except a `car_run` that
  SIGINT ended inside, for which no press waits). What fairness adds, that each
  thread then goes on, is left to the run.

**`MsgQueue_proofs`**, for any threads, crews and number of places:

* `TypeCorrect` (`TypeOK`), inductive as it stands: whatever a store behind the
  array does to `position` or `keep_running`, the threads stay in their functions and
  `main` counts them right.
* `AloneIsSafe` (`AloneKeepsBounds`). As long as `met` is false at most one thread
  is inside, and what it carries agrees with the memory; the first meeting ends
  what the invariant says.

**`HashSearch_proofs`**, for any number of items the three letters can name, any
number of threads that divides that of the buckets, whatever is read from freed
memory, with the program's own hash function:

* `TypeCorrect`, `EverythingFreedOnce` and `SearchedUntilReached` (`TypeOK`,
  `FreedInOrder`, `SearchedInTime`).
* Inductive with the first two: no key is in two places (`ListsApart`), where `main`
  is in the table (`MainPlace`) and where the threads are (`ThreadsPlace`).
* `Tracks` strengthens `SearchedInTime`: as long as the range of a thread has not
  been reached, the thread has printed just the matching keys before the place
  where it stands, and stands at a match when it is about to print; a thread with
  a `Wild` pointer, and one that crashed, has been reached. The order of places (`Before`) replaces a walk.

**`DblVector_proofs`**, for any vectors, items, initial capacity above zero and
sizes:

* `TypeCorrect`, `NothingUnwritten`, `Growing` and `Implementation` (`TypeOK`,
  `ElementsWritten`, `GrowsGeometrically`, `IsSequence`).
* `TypeOK` and `ElementsWritten` are inductive together. `OneVector` reduces a
  step to the one vector it changes; `GrownCapacitySuffices` and `ReallocKeeps`
  are the facts about growth.

* The refinement has one lemma per call: what the shifting loops, index by index,
  leave in the array is what `Vec` says of the sequence; growing and `dv_init`
  stutter.

**`RoundRobinLists_proofs`**, for any number of processes, any quantum above zero
and any burst times:

* `TypeCorrect`, `Fair`, `Implementation` and `NoTimeLost` (`TypeOK`, `FairTurns`,
  `IsRoundRobin`, `TimeIsKept`), and `NobodyLeftOut`: when the scheduler is done no
  process wants more time.
* `IInv` says that head, tail and pointers are those of a sequence of different
  processes (`IsList`); nothing is said of the pointers behind the tail or of
  processes that have left, so the ring they form is covered. `Inserting` and
  `Removing` show that the two functions append to that sequence and drop its
  head, and `NodesIs` that the walk finds it. With it: in the queue nobody wants a
  negative time, and whoever is further ahead has had as many turns or one less.
* `Nth` is a recursive function. That it exists and does what its equation says
  is proved here (`WalkExists`, `NthDef`), by induction over a set of naturals from
  the well-foundedness of `<` (`Least`, `Induct`), as the library's induction
  theorems, which have an operator for a parameter, cannot be used.

Only model-checked is all liveness: `AnsweredUnlessOrphaned` and
`AttachedThenFinish` of the work requests, `KeepsFlowing` of both buffers,
`PressReset` and `ConnectsWhenSafe` of the car, `EndOrCaught` of the message queue
and `Completes` of the round robin. The provers have no rules for fairness and
`ENABLED`.

## 5. Findings

Disagreements between the code and what it says of itself, each shown by a run:

1. `car_stop`: `A2/test/test-safety.c:54` expects an emergency stop to be
   handled by the safety process that gave the heartbeat; `safety_ctrl` has no
   loop around its pass and has ended by then.
2. `vector_inside`: the shift in `dv_insert_at` starts one past the last element
   and writes there, outside the array when it is exactly full.
3. `msgq_stops`: `P05/Prod_Cons_Threads/msgq.c:35` asks to "Hit the enter key to
   stop the threads executing"; the inner waits do not look at `keep_running`, the
   consumer's is inverted, and the joins never end.
4. `hash_find`: `htab_find` takes `strcmp`'s result for a match when it is not
   zero (`hashtable_search.c:127`), against its postcondition three lines above.

Met while modelling, without a run of their own: `A1/POSIX/shm_ipc.c:148` waits
for the response "in a reliable manner", and with a controller slower than the
worker's second the request waits for ever; the postconditions in comments of
`create_shared_object` (`:55`) and `get_shared_object` (`:173`) do not hold when
`ftruncate` or `mmap` fails; `A2/car.c:184` "Only connect if safety system is
operating" reads a flag that stays set when safety has ended, and the thread ends
at its first connection where `test-car-4.c:86-140` expects it to connect again;
`car_run` has no loop, so a second press (`test-car-1.c:70-88`,
`test-car-2.c:36-52`) is not seen, and it moves no doors even for the first; an
obstruction is never answered, as `safety_ctrl` compares the status by its address
(`A2/safety.c:128`, against `test-safety.c:41-49`); SIGINT is not handled and leaves
the object's name (`test-car-5.c:33-38` expects it gone); the two-part test
for a door obstruction in `check_data_inconsistency` is true for every status
(`:97`), and `safety_ctrl` raises the consistency alarm when the data is
consistent (`:152`); `up` and `down` of internal at the ground and from level 255
on, against `test-internal.c:42` and `:55` (section 3.4); the search threads are
not joined before the table is destroyed; the last node of the ready queue of the
round robin program keeps whatever `malloc` gave it as its next node.

## 6. Not modelled

* `A2/controller.c`: it calls `setsocketopt`, which no library has, and if it
  linked, `main` would write through two pointers it never sets before it accepts
  anybody. No state behind that is one the program can be in. For car the
  controller is a server that accepts from some time on.
* `A2/call.c` checks its arguments and sends one message; it has no state.
* The TCP messages between car, controller and call pad: car ends its
  connection thread before it sends anything. The message exchanges in `A2/test`
  go with them.
* Practicals that print, compute, fork once, serve one socket or add under one
  mutex: nothing to interleave.
* Printing, everywhere; failing `realloc`, `calloc` and `fork`; `malloc` and
  `pthread_create` failing, except in the hash table search; sizes near `INT_MAX`.

Hazards without a property, or whose property covers only their safe half, carry a
note in `PROJECT.json`. They are of three kinds. Behaviour the code shows and no
property can ask for, because it is wrong: the wait of a controller without a
worker, the second press, the destroyed mutex that others still use, the races on
`position` of the message queue, a range that no thread searches. Failures the
programs do not handle at all: `car_init`'s, `realloc`'s. And moments about which
nothing is promised: attaching while car still sets up, and the unset pointer of the
ready queue (not wrong with this C library).

## 7. Plan

Order: shared memory first, because it is the subject of both assignments; then
the practicals whose threads share state; then the sequential structures. All
parts whose steps can interleave, and both data structures, are modelled.

What could still be added:

1. `MsgQueue`: which threads can be caught once the key has been hit, as an
   invariant: the part of `EndOrCaught` about single states.
2. `RoundRobinLists`: a bound on the number of turns from the burst times, so that
   `MaxTurns` is known never to be reached.
3. `Controller`, once `A2/controller.c` links and sets its pointers: the accept
   loop, the descriptor all threads share, and the list of cars with the mutex
   that `link_car_node` keeps.
