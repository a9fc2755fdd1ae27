------------------------------- MODULE CarShm -------------------------------
(***************************************************************************)
(* The elevator car of A2: the process car (car.c, three threads), the     *)
(* process safety (safety.c) and whoever else opens the car's shared       *)
(* memory: the command internal (internal.c) and the programs under        *)
(* A2/test, which press buttons and trip sensors.  They share one object   *)
(* with a process-shared mutex and condition variable.                     *)
(*                                                                         *)
(* The programs start by copying their arguments through pointers nobody   *)
(* initialised; the model begins where that came out well.                 *)
(***************************************************************************)
EXTENDS Naturals, FiniteSets

CONSTANTS
    MatchCases,         \* the values of match to begin with; as compiled {FALSE}
    Floors,             \* for each of them the floors a car may be started on
    Interrupts,         \* car may be sent SIGINT
    CallsMayFail,       \* whether shm_open, ftruncate and mmap of car may fail
    Presses,            \* how often internal and the tests act: a bound
    TestFloors,         \* the floors and the statuses the tests write, and the
    TestStatuses,       \* flags in which they write values above 1: bounds
    TestExcesses

ASSUME FlagAssumption ==
    MatchCases \subseteq BOOLEAN /\ {Interrupts, CallsMayFail} \subseteq BOOLEAN
ASSUME PressesAssumption == Presses \in Nat

\* Floor names: "B99" to "B1" have B = 1, "1" to "999" have B = 0.  What the
\* programs make of them may have level 0; NoFloor is zeroed memory.
Floor == [B : {1}, level : 1 .. 99] \cup [B : {0}, level : 1 .. 999]
NoFloor == [B |-> 0, level |-> 0]

ASSUME FloorsAssumption ==
    Floors \in [MatchCases -> (SUBSET Floor) \ {{}}] /\ TestFloors \subseteq Floor

NoObject == "none"
Object == "car"
Free == "free"              \* nobody holds the mutex
Destroyed == "destroyed"    \* pthread_mutex_lock fails and nobody looks

\* The threads of car and the thread of safety.
Threads == {"main", "tcp", "run", "safety"}

Flags == <<"open_button", "close_button", "safety_system", "door_obstruction",
           "overload", "emergency_stop", "individual_service_mode",
           "emergency_mode">>
FlagNames == {Flags[n] : n \in 1 .. 8}
ASSUME ExcessAssumption == TestExcesses \subseteq FlagNames

Statuses == {"", "Closed", "Opening", "Open", "Closing", "Between"}
Nonsense == "Asdfghj"       \* a status no program of A2 but a test writes

ASSUME StatusAssumption == TestStatuses \subseteq Statuses \cup {Nonsense}

VARIABLES
    link,       \* the object that bears the car's name
    sized,      \* whether ftruncate has given it its size
    flags,      \* the uint8_t fields of car_shared_mem
    status,     \* its status field; "" is zeroed memory
    current_floor, destination_floor,
    mutex,
    pc,
    cleared,    \* how many flags car_init has cleared
    seen,       \* tcp: the safety_system it read last
    listening,  \* whether the controller's server accepts connections
    pressed,    \* the number of commands of internal and writes of the tests
    lift,       \* an internal that moves the car up or down, between its steps
    match,      \* FALSE in C: == on strings compares addresses, and the pattern
                \* for floors is no extended pattern.  TRUE opens the code
                \* behind these tests.  It never changes.
    early       \* history: safety opened the object before car had set it up

floors == <<current_floor, destination_floor>>
memory == <<link, sized, flags, status, floors>>
rest == <<cleared, seen, listening, pressed, lift, match, early>>
vars == <<memory, mutex, pc, rest>>

\* What up and down keep in local variables: the operation, B and next_lvl; and
\* the floor these were computed from.
Idle == [at |-> "idle", operation |-> "", from |-> NoFloor, next |-> NoFloor]

Init ==
    /\ link = NoObject /\ sized = FALSE
    /\ flags = [f \in FlagNames |-> 0]
    /\ status = "" /\ current_floor = NoFloor /\ destination_floor = NoFloor
    /\ mutex = Free
    /\ pc = [t \in Threads |-> CASE t = "main" -> "open"
                                 [] t = "safety" -> "start"
                                 [] OTHER -> "none"]
    /\ cleared = 0 /\ seen = 0
    /\ listening = FALSE
    /\ pressed = 0
    /\ lift = Idle
    /\ match \in MatchCases
    /\ early = FALSE

-----------------------------------------------------------------------------
(* Mutex and condition variable *)

Goto(t, from, to) == pc[t] = from /\ pc' = [pc EXCEPT ![t] = to]

\* A destroyed mutex locks nothing and stops nobody.
Lock(t) == /\ mutex \in {Free, Destroyed}
           /\ mutex' = IF mutex = Free THEN t ELSE mutex

\* Unlocking asks not whose the mutex is.
Unlock == mutex' = IF mutex = Destroyed THEN mutex ELSE Free

Asleep == {t \in Threads : pc[t] = "asleep"}

\* pthread_cond_signal by t, which goes on to label to: it wakes one sleeper.
\* That may be a watcher of the tests, which sleeps on the same condition
\* variable; then nothing else is seen of it.
Signal(t, to) ==
    \/ pc' = [pc EXCEPT ![t] = to]
    \/ \E w \in Asleep : pc' = [pc EXCEPT ![t] = to, ![w] = "woken"]

\* A wakeup: the mutex has to be taken again.
Relock(t) == /\ Goto(t, "woken", "check")
             /\ Lock(t)
             /\ UNCHANGED <<memory, rest>>

SpuriousWakeup(t) == /\ Goto(t, "asleep", "woken")
                     /\ UNCHANGED <<memory, mutex, rest>>

-----------------------------------------------------------------------------
(* car: main, car_init, car_kill *)

\* shm_unlink and shm_open; main does not learn of a failure of car_init and
\* writes through the pointer it left.
Open ==
    /\ \/ Goto("main", "open", "truncate") /\ link' = Object
       \/ CallsMayFail /\ Goto("main", "open", "crashed") /\ UNCHANGED link
    /\ UNCHANGED <<sized, flags, status, floors, mutex, rest>>

Truncate ==
    /\ \/ Goto("main", "truncate", "map") /\ sized' = TRUE
       \/ CallsMayFail /\ Goto("main", "truncate", "crashed") /\ UNCHANGED sized
    /\ UNCHANGED <<link, flags, status, floors, mutex, rest>>

Map ==
    /\ \/ Goto("main", "map", "mutex")
       \/ CallsMayFail /\ Goto("main", "map", "crashed")
    /\ UNCHANGED <<memory, mutex, rest>>

\* Whoever holds the mutex of the zeroed object meanwhile holds it no more.
InitMutex ==
    /\ Goto("main", "mutex", "cond")
    /\ mutex' = Free
    /\ UNCHANGED <<memory, rest>>

\* Sleepers on the condition variable of the zeroed object may be forgotten.
InitCond ==
    /\ pc["main"] = "cond"
    /\ \E forgotten \in SUBSET Asleep :
         pc' = [t \in Threads |-> IF t \in forgotten THEN "lost"
                                  ELSE IF t = "main" THEN "clear" ELSE pc[t]]
    /\ UNCHANGED <<memory, mutex, rest>>

\* The modes are cleared one after the other, without the mutex.
ClearFlag ==
    /\ pc["main"] = "clear"
    /\ flags' = [flags EXCEPT ![Flags[cleared + 1]] = 0]
    /\ cleared' = cleared + 1
    /\ pc' = [pc EXCEPT !["main"] = IF cleared' = 8 THEN "floors" ELSE "clear"]
    /\ UNCHANGED <<link, sized, status, floors, mutex, seen, listening, pressed,
                   lift, match, early>>

SetFloorsAndStatus ==
    /\ Goto("main", "floors", "spawn")
    /\ current_floor' \in Floors[match] /\ destination_floor' = current_floor'
    /\ status' = "Closed"
    /\ UNCHANGED <<link, sized, flags, mutex, rest>>

SpawnThreads ==
    /\ pc["main"] = "spawn"
    /\ pc' = [pc EXCEPT !["main"] = "join", !["tcp"] = "poll", !["run"] = "lock"]
    /\ UNCHANGED <<memory, mutex, rest>>

Join ==
    /\ Goto("main", "join", "destroy")
    /\ pc["tcp"] = "done" /\ pc["run"] = "done"
    /\ UNCHANGED <<memory, mutex, rest>>

\* pthread_mutex_destroy leaves a mutex that is held as it is.
DestroyMutex ==
    /\ Goto("main", "destroy", "unmap")
    /\ mutex' = IF mutex = Free THEN Destroyed ELSE mutex
    /\ UNCHANGED <<memory, rest>>

UnmapAndUnlink ==
    /\ Goto("main", "unmap", "exited")
    /\ link' = NoObject
    /\ UNCHANGED <<sized, flags, status, floors, mutex, rest>>

\* SIGINT is not handled: all threads end where they are, with what they hold.
Interrupt ==
    /\ Interrupts
    /\ pc["main"] \notin {"exited", "crashed", "killed"}
    /\ pc' = [pc EXCEPT !["main"] = "killed", !["tcp"] = "dead", !["run"] = "dead"]
    /\ UNCHANGED <<memory, mutex, rest>>

CarMain == \/ Open \/ Truncate \/ Map \/ InitMutex \/ InitCond \/ ClearFlag
           \/ SetFloorsAndStatus \/ SpawnThreads \/ Join \/ DestroyMutex
           \/ UnmapAndUnlink

-----------------------------------------------------------------------------
(* car: connect_controller *)

\* Reads the flag without the mutex.
Poll ==
    /\ Goto("tcp", "poll", "connect")
    /\ seen' = flags["safety_system"]
    /\ UNCHANGED <<memory, mutex, cleared, listening, pressed, lift, match, early>>

\* Mutation: a failed attempt is repeated with the flag read before it.
ConnectStale ==
    /\ pc["tcp"] = "connect"
    /\ seen # 0 /\ listening
    /\ pc' = [pc EXCEPT !["tcp"] = "done"]
    /\ UNCHANGED <<memory, mutex, rest>>

Connect ==
    /\ pc["tcp"] = "connect"
    /\ pc' = [pc EXCEPT !["tcp"] = IF seen # 0 /\ listening THEN "done"
                                                            ELSE "poll"]
    /\ UNCHANGED <<memory, mutex, rest>>

CarTcp == Poll \/ Connect

-----------------------------------------------------------------------------
(* car: car_run *)

Buttons == {"open_button", "close_button"}
ButtonDown == \E f \in Buttons : flags[f] # 0

\* Mutation: the shared memory is used without the mutex.
RunLockNot ==
    /\ Goto("run", "lock", "check")
    /\ UNCHANGED <<memory, mutex, rest>>

RunLock ==
    /\ Goto("run", "lock", "check")
    /\ Lock("run")
    /\ UNCHANGED <<memory, rest>>

RunWait ==
    /\ Goto("run", "check", "asleep")
    /\ ~ButtonDown
    /\ Unlock
    /\ UNCHANGED <<memory, rest>>

\* Both buttons, the open button, or the close button: whichever are down are
\* reset, and nothing else comes of it.
RunHandle ==
    /\ pc["run"] = "check"
    /\ ButtonDown
    /\ flags' = [f \in FlagNames |-> IF f \in Buttons THEN 0 ELSE flags[f]]
    /\ Signal("run", "unlock")
    /\ UNCHANGED <<link, sized, status, floors, mutex, rest>>

RunUnlock ==
    /\ Goto("run", "unlock", "done")
    /\ Unlock
    /\ UNCHANGED <<memory, rest>>

CarRun == RunLock \/ RunWait \/ Relock("run") \/ RunHandle \/ RunUnlock

-----------------------------------------------------------------------------
(* safety *)

SettingUp == {"open", "truncate", "map", "mutex", "cond", "clear", "floors", "spawn"}

\* What the comparison status == literal yields.
Is(text) == match /\ status = text

check_data_inconsistency ==
    \/ ~ (match /\ current_floor.level > 0 /\ destination_floor.level > 0)
    \/ ~ \E s \in Statuses \ {""} : Is(s)
    \/ \E f \in FlagNames \ {"emergency_mode"} : flags[f] > 1
    \/ flags["door_obstruction"] # 0 /\ (~Is("Opening") \/ ~Is("Closing"))

SafetyOpen ==
    /\ pc["safety"] = "start"
    /\ pc' = [pc EXCEPT !["safety"] = IF link = Object THEN "lock" ELSE "failed"]
    /\ early' = (pc["main"] \in SettingUp)
    /\ UNCHANGED <<memory, mutex, cleared, seen, listening, pressed, lift, match>>

SafetyLock ==
    /\ sized
    /\ Goto("safety", "lock", "check")
    /\ Lock("safety")
    /\ UNCHANGED <<memory, rest>>

\* The object has no page yet: SIGBUS.
SafetyFault ==
    /\ ~sized
    /\ Goto("safety", "lock", "killed")
    /\ UNCHANGED <<memory, mutex, rest>>

Untriggered ==
    /\ flags["safety_system"] # 0
    /\ \A f \in {"door_obstruction", "emergency_stop", "overload"} : flags[f] = 0
    /\ ~check_data_inconsistency

SafetyWait ==
    /\ Goto("safety", "check", "asleep")
    /\ Untriggered
    /\ Unlock
    /\ UNCHANGED <<memory, rest>>

SafetyTriggered ==
    /\ Goto("safety", "check", "heartbeat")
    /\ ~Untriggered
    /\ UNCHANGED <<memory, mutex, rest>>

\* One if statement of safety_ctrl: when its condition holds, the fields named
\* in changes are written and the change is signalled.
SafetyStep(from, to, condition, changes) ==
    /\ pc["safety"] = from
    /\ IF condition
       THEN /\ flags' = [f \in FlagNames |->
                            IF f \in DOMAIN changes THEN changes[f] ELSE flags[f]]
            /\ Signal("safety", to)
       ELSE flags' = flags /\ pc' = [pc EXCEPT !["safety"] = to]
    /\ UNCHANGED <<link, sized, floors, mutex, rest>>

\* Mutation: the heartbeat counts.
SafetyHeartbeatCounts ==
    /\ SafetyStep("heartbeat", "obstruction", flags["safety_system"] # 1,
                  [safety_system |-> flags["safety_system"] + 1])
    /\ UNCHANGED status

SafetyHeartbeat ==
    /\ SafetyStep("heartbeat", "obstruction", flags["safety_system"] # 1,
                  [safety_system |-> 1])
    /\ UNCHANGED status

Obstructed == flags["door_obstruction"] # 0 /\ Is("Closing")

SafetyObstruction ==
    /\ SafetyStep("obstruction", "stop", Obstructed, <<>>)
    /\ status' = IF Obstructed THEN "Opening" ELSE status

\* Mutation: the stop is acknowledged before it is looked at.
SafetyStopForgets ==
    /\ SafetyStep("stop", "overload", flags["emergency_stop"] = 1,
                  [emergency_stop |-> 1 - flags["emergency_mode"]])
    /\ UNCHANGED status

SafetyStop ==
    /\ SafetyStep("stop", "overload",
                  flags["emergency_stop"] # 0 /\ flags["emergency_mode"] = 0,
                  [emergency_mode |-> 1, emergency_stop |-> 0])
    /\ UNCHANGED status

SafetyOverload ==
    /\ SafetyStep("overload", "consistency",
                  flags["overload"] # 0 /\ flags["emergency_mode"] = 0,
                  [emergency_mode |-> 1])
    /\ UNCHANGED status

SafetyConsistency ==
    /\ SafetyStep("consistency", "unlock",
                  flags["emergency_mode"] = 0 /\ ~check_data_inconsistency,
                  [emergency_mode |-> 1])
    /\ UNCHANGED status

\* Mutation: the thread ends without unlocking.
SafetyUnlockNot ==
    /\ Goto("safety", "unlock", "done")
    /\ UNCHANGED <<memory, mutex, rest>>

SafetyUnlock ==
    /\ Goto("safety", "unlock", "done")
    /\ Unlock
    /\ UNCHANGED <<memory, rest>>

Safety == \/ SafetyOpen \/ SafetyLock \/ SafetyFault \/ SafetyWait
          \/ Relock("safety") \/ SafetyTriggered \/ SafetyHeartbeat
          \/ SafetyObstruction \/ SafetyStop \/ SafetyOverload
          \/ SafetyConsistency \/ SafetyUnlock

-----------------------------------------------------------------------------
(* internal, the tests, and the controller *)

\* Another process writes when car has set its object up.  What it does inside
\* the mutex nobody who respects the mutex can see half done, so it is one step
\* taken while the mutex is free.
MayPress ==
    /\ pressed < Presses
    /\ link = Object
    /\ pc["main"] \in {"join", "destroy", "unmap", "killed"}
    /\ pressed' = pressed + 1

Operation(op) ==
    CASE op = "open" -> [open_button |-> 1]
      [] op = "close" -> [close_button |-> 1]
      [] op = "stop" -> [emergency_stop |-> 1]
      [] op = "service_on" -> [individual_service_mode |-> 1, emergency_mode |-> 0]
      [] op = "service_off" -> [individual_service_mode |-> 0]
Operations == {"open", "close", "stop", "service_on", "service_off"}

\* pthread_cond_signal by a process that goes on without a step of its own.
SignalOnly == \/ UNCHANGED pc
              \/ \E w \in Asleep : pc' = [pc EXCEPT ![w] = "woken"]

\* internal compares its argument with the names of the operations.
Internal(op) ==
    /\ MayPress
    /\ mutex \in {Free, Destroyed}
    /\ IF match
       THEN /\ flags' = [f \in FlagNames |->
                  IF f \in DOMAIN Operation(op) THEN Operation(op)[f] ELSE flags[f]]
            /\ SignalOnly
       ELSE UNCHANGED <<flags, pc>>         \* "Invalid operation."
    /\ UNCHANGED <<link, sized, status, floors, mutex, cleared, seen, listening,
                   lift, match, early>>

\* Mutation: the basement is taken for the upper floors.
MovedIgnoringB(op, f) ==
    [B |-> f.B, level |-> ((f.level % 256) + IF op = "up" THEN 1 ELSE 255) % 256]

\* next_lvl is a uint8_t: levels wrap at 256, in both directions.
Moved(op, f) ==
    [B |-> f.B,
     level |-> ((f.level % 256) + IF (op = "up") = (f.B = 0) THEN 1 ELSE 255) % 256]

\* up and down read the mode and the status, then the floor, without the mutex.
\* They refuse outside service mode and when the doors are not closed.
InternalMoves(op) ==
    /\ MayPress
    /\ lift = Idle
    /\ LET allowed == /\ match
                      /\ flags["individual_service_mode"] = 1
                      /\ status \notin {"Open", "Opening", "Closing", "Between"}
       IN lift' = IF allowed THEN [at |-> "floor", operation |-> op,
                                   from |-> NoFloor, next |-> NoFloor]
                             ELSE Idle
    /\ UNCHANGED <<memory, mutex, pc, cleared, seen, listening, match, early>>

\* down refuses below B99, and takes any level above 99 for that.  The test of up
\* for a level above 999 cannot succeed.
InternalFloor ==
    /\ lift.at = "floor"
    /\ LET next == Moved(lift.operation, current_floor)
       IN lift' = IF lift.operation = "down" /\ next.level > 99
                  THEN Idle
                  ELSE [at |-> IF next.level = 0 THEN "ground" ELSE "write",
                        operation |-> lift.operation,
                        from |-> current_floor, next |-> next]
    /\ UNCHANGED <<memory, mutex, pc, cleared, seen, listening, pressed, match, early>>

\* At level 0 it writes "1" on the way up and "B1" on the way down ...
MovePastGround ==
    /\ lift.at = "ground"
    /\ mutex \in {Free, Destroyed}
    /\ destination_floor' = [B |-> IF lift.operation = "up" THEN 0 ELSE 1, level |-> 1]
    /\ lift' = [lift EXCEPT !.at = "write"]
    /\ SignalOnly
    /\ UNCHANGED <<link, sized, flags, status, current_floor, mutex, cleared, seen,
                   listening, pressed, match, early>>

\* ... and, in every case, the level it computed behind the old letter.
WriteDestination ==
    /\ lift.at = "write"
    /\ mutex \in {Free, Destroyed}
    /\ destination_floor' = lift.next
    /\ lift' = Idle
    /\ SignalOnly
    /\ UNCHANGED <<link, sized, flags, status, current_floor, mutex, cleared, seen,
                   listening, pressed, match, early>>

Test == /\ MayPress
        /\ mutex \in {Free, Destroyed}
        /\ UNCHANGED <<link, sized, mutex, cleared, seen, listening, lift, match, early>>

\* The flags the tests write themselves, posing as the other programs or to set
\* the scene; 2 stands for every value above 1.  A broadcast follows: within the
\* mutex, or behind it, when it wakes those who went to sleep on the new value
\* for nothing.
TestFlags == FlagNames \X {1} \cup TestExcesses \X {2}
                \cup {<<"individual_service_mode", 0>>}

Broadcast == pc' = [t \in Threads |-> IF pc[t] = "asleep" THEN "woken" ELSE pc[t]]

TestWrites(w) ==
    /\ Test
    /\ flags' = [flags EXCEPT ![w[1]] = w[2]]
    /\ status' \in IF w[1] = "door_obstruction" THEN {status, "Closing"} ELSE {status}
    /\ Broadcast
    /\ UNCHANGED floors

\* reset_shm, without a signal.
TestResets ==
    /\ Test
    /\ flags' = [f \in FlagNames |-> 0]
    /\ status' = "Closed"
    /\ current_floor' = [B |-> 0, level |-> 1] /\ destination_floor' = current_floor'
    /\ UNCHANGED pc

\* The other fields, with and without a broadcast: to its sleepers that is a
\* wakeup for nothing.  A floor like "ABC" has level 0.
TestSets ==
    /\ Test
    /\ \/ status' \in TestStatuses /\ UNCHANGED floors
       \/ current_floor' = NoFloor /\ UNCHANGED <<status, destination_floor>>
       \/ /\ destination_floor' \in TestFloors \cup {NoFloor}
          /\ current_floor' \in {current_floor, destination_floor'} \ {NoFloor}
          /\ UNCHANGED status
    /\ UNCHANGED <<flags, pc>>

ControllerStarts ==
    /\ ~listening
    /\ listening' = TRUE
    /\ UNCHANGED <<memory, mutex, pc, cleared, seen, pressed, lift, match, early>>

Others == \/ \E op \in Operations : Internal(op)
          \/ \E op \in {"up", "down"} : InternalMoves(op)
          \/ InternalFloor \/ MovePastGround \/ WriteDestination
          \/ \E w \in TestFlags : TestWrites(w)
          \/ TestResets \/ TestSets

-----------------------------------------------------------------------------
Next == \/ CarMain \/ CarTcp \/ CarRun \/ Safety
        \/ Others \/ ControllerStarts \/ Interrupt
        \/ \E t \in Threads : SpuriousWakeup(t)

Spec == Init /\ [][Next]_vars

\* The threads are scheduled, the controller is started at some time, and
\* nobody is woken for nothing for ever.
FairSpec ==
    /\ Spec
    /\ WF_vars(CarMain) /\ WF_vars(CarTcp) /\ WF_vars(CarRun) /\ WF_vars(Safety)
    /\ WF_vars(ControllerStarts)
    /\ <>[][~ \E t \in Threads : SpuriousWakeup(t)]_vars

-----------------------------------------------------------------------------
(* Properties *)

\* The types of the variables; only the two threads that lock hold the mutex.
TypeOK ==
    /\ link \in {NoObject, Object} /\ sized \in BOOLEAN
    /\ flags \in [FlagNames -> 0 .. 2]
    /\ status \in Statuses \cup {Nonsense}
    /\ current_floor \in Floor \cup {NoFloor}
    /\ destination_floor \in [B : {0, 1}, level : 0 .. 999]
    /\ mutex \in {Free, Destroyed, "run", "safety"}
    /\ pc["main"] \in SettingUp \cup {"join", "destroy", "unmap", "exited",
                                      "crashed", "killed"}
    /\ pc["tcp"] \in {"none", "poll", "connect", "done", "dead"}
    /\ pc["run"] \in {"none", "lock", "check", "asleep", "woken", "unlock",
                      "done", "dead"}
    /\ pc["safety"] \in {"start", "lock", "check", "asleep", "woken", "heartbeat",
                         "obstruction", "stop", "overload", "consistency",
                         "unlock", "done", "failed", "killed", "lost"}
    /\ cleared \in 0 .. 8 /\ seen \in 0 .. 2
    /\ listening \in BOOLEAN /\ pressed \in 0 .. Presses
    /\ lift.at \in {"idle", "floor", "ground", "write"}
    /\ lift.operation \in {"", "up", "down"}
    /\ lift.from \in Floor \cup {NoFloor}
    /\ lift.next \in [B : {0, 1}, level : 0 .. 255]
    /\ match \in MatchCases /\ early \in BOOLEAN

SafetyInside == {"check", "heartbeat", "obstruction", "stop", "overload",
                 "consistency", "unlock"}

\* When safety attaches to an object that is set up, car_run and safety_ctrl are
\* never both between locking and unlocking, also when one was woken by the
\* other's signal or car was killed inside.
OneInside == ~ (~early /\ pc["run"] \in {"check", "unlock"} /\ pc["safety"] \in SafetyInside)

\* When safety_ctrl of such a safety is about to unlock, the heartbeat is 1 and no
\* stop or overload is pending without emergency mode, whatever the others have
\* written since it was started: all of them come before its lock or after its
\* unlock.  Of an obstruction nothing is said: as compiled the door goes on
\* closing, against test-safety.c:41-49.
SafetyPassComplete ==
    ~early /\ pc["safety"] = "unlock" /\ mutex = "safety" =>
        /\ flags["safety_system"] = 1
        /\ flags["emergency_stop"] = 0 \/ flags["emergency_mode"] # 0
        /\ flags["overload"] = 0 \/ flags["emergency_mode"] # 0

\* The floor above and the floor below, as internal.h numbers them: "B99-B1 and
\* 1-999".  There is none above 999 and none below B99.
Neighbours(op, f) ==
    LET up == op = "up"
        height(g) == IF g.B = 1 THEN 1 - g.level ELSE g.level
    IN {g \in Floor : height(g) = IF up THEN height(f) + 1 ELSE height(f) - 1}

\* The moves between B1 and 1.
CrossesGround(op, f) == f.level = 1 /\ (op = "up") = (f.B = 1)

\* The destination that up and down leave, where they do not refuse, is the
\* neighbour of the floor they read exactly when they neither cross the ground nor
\* start above 254, whatever becomes of the floor and the mode meanwhile.  Both
\* exceptions are wrong in the code: from 1 down it leaves "0" where
\* test-internal.c:42 expects "B1", and down refuses every floor whose level
\* modulo 256 is 0 or above 100 although :55 expects 616 below 617.
MovesOneFloor ==
    [][WriteDestination /\ lift.from \in Floor =>
         (destination_floor' \in Neighbours(lift.operation, lift.from)
            <=> lift.from.level <= 254 /\ ~CrossesGround(lift.operation, lift.from))]_vars

\* As compiled, a button that goes down while car_run still looks for one is reset,
\* unless car is interrupted: the broadcast reaches car_run wherever it is, and
\* safety gives the mutex back.  Only the reset: the doors stay as they are, and
\* car_run has ended when a test presses again (test-car-1.c:70-88).
PressReset ==
    (~match /\ pc["run"] \in {"lock", "check", "asleep", "woken"} /\ ButtonDown)
        ~> (~ButtonDown \/ pc["run"] = "dead")

\* "Only connect if safety system is operating" (car.c:184): when the heartbeat is
\* set in the end, connect_controller does not go on for ever between looking and
\* trying, however early it looked.  That it keeps the connection and connects
\* again after it (test-car-4.c) is not said.
ConnectsWhenSafe ==
    <>[](flags["safety_system"] # 0) => []<>(pc["tcp"] \notin {"poll", "connect"})

-----------------------------------------------------------------------------
(* What comments and tests say of the programs, and the code does not do *)

\* test-safety starts safety on an object that is set up, waits for its
\* heartbeat, presses the emergency stop and expects emergency mode.
StopHandled ==
    (~early /\ pc["safety"] \notin {"start", "failed"} /\ flags["emergency_stop"] # 0)
        ~> flags["emergency_mode"] = 1
=============================================================================
