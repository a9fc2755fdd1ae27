--------------------------- MODULE CarShm_proofs ---------------------------
(***************************************************************************)
(* For any number of commands and writes of others, on any floors,         *)
(* whatever fails and whenever car is interrupted: mutual exclusion, the   *)
(* types, safety's pass, the floors internal asks for, and that a press    *)
(* finds nothing in its way.  They rest on two invariants: Control says    *)
(* where the threads can be and who holds the mutex, Data what the memory  *)
(* can hold.                                                               *)
(***************************************************************************)
EXTENDS CarShm, TLAPS

-----------------------------------------------------------------------------
(* The program counters *)

MainLabels == SettingUp \cup {"join", "destroy", "unmap", "exited", "crashed", "killed"}
TcpLabels == {"none", "poll", "connect", "done", "dead"}
RunLabels == {"none", "lock", "check", "asleep", "woken", "unlock", "done", "dead"}
SafetyLabels == {"start", "lock", "check", "asleep", "woken", "heartbeat", "obstruction",
                 "stop", "overload", "consistency", "unlock", "done", "failed", "killed",
                 "lost"}
Labels == MainLabels \cup TcpLabels \cup RunLabels \cup SafetyLabels

Counters == /\ pc \in [Threads -> Labels]
            /\ pc["main"] \in MainLabels /\ pc["tcp"] \in TcpLabels
            /\ pc["run"] \in RunLabels /\ pc["safety"] \in SafetyLabels

\* How far each thread can be, given where main is.
Order ==
    /\ pc["main"] \in SettingUp \cup {"crashed"} => pc["tcp"] = "none" /\ pc["run"] = "none"
    /\ pc["main"] = "join" => pc["tcp"] \in {"poll", "connect", "done"}
    /\ pc["main"] \in {"destroy", "unmap", "exited"} =>
          pc["tcp"] = "done" /\ pc["run"] = "done"
    /\ pc["main"] = "killed" => pc["tcp"] = "dead" /\ pc["run"] = "dead"
    /\ ~early /\ pc["main"] \in SettingUp => pc["safety"] = "start"
    /\ pc["safety"] = "start" => ~early

\* Whoever is inside has the mutex, unless it was destroyed meanwhile.
Owned ==
    /\ mutex \in {Free, Destroyed, "run", "safety"} /\ early \in BOOLEAN
    /\ mutex = Destroyed => pc["run"] \in {"done", "dead"}
    /\ ~early => /\ pc["run"] \in {"check", "unlock"} => mutex = "run"
                 /\ pc["safety"] \in SafetyInside => mutex \in {"safety", Destroyed}

Control == Counters /\ Order /\ Owned

\* t goes on, and perhaps others are woken.
Steps(t, to) ==
    /\ pc' \in [Threads -> Labels] /\ pc'[t] = to
    /\ \A u \in Threads : u # t => \/ pc'[u] = pc[u]
                                   \/ pc[u] = "asleep" /\ pc'[u] = "woken"

\* Nobody goes on, but some may be woken.
Wakes ==
    /\ pc' \in [Threads -> Labels]
    /\ \A u \in Threads : pc'[u] = pc[u] \/ (pc[u] = "asleep" /\ pc'[u] = "woken")

LEMMA Goes ==
    ASSUME Counters, NEW t \in Threads, NEW from, NEW to \in Labels, Goto(t, from, to)
    PROVE  Steps(t, to) /\ pc[t] = from /\ \A u \in Threads : u # t => pc'[u] = pc[u]
  BY DEF Counters, Goto, Steps

LEMMA Signals ==
    ASSUME Counters, NEW t \in Threads, NEW to \in Labels, pc[t] # "asleep",
           \/ Signal(t, to)
           \/ pc' = [pc EXCEPT ![t] = to]
    PROVE  Steps(t, to)
<1>1. CASE pc' = [pc EXCEPT ![t] = to]
  BY <1>1 DEF Counters, Steps
<1>2. ASSUME NEW w \in Asleep, pc' = [pc EXCEPT ![t] = to, ![w] = "woken"]
      PROVE  Steps(t, to)
  <2>1. w \in Threads /\ pc[w] = "asleep" /\ w # t /\ "woken" \in Labels
    BY <1>2 DEF Asleep, Labels, RunLabels
  <2> QED
    BY <1>2, <2>1 DEF Counters, Steps
<1> QED
  BY <1>1, <1>2 DEF Signal

LEMMA SignalsOnly ==
    ASSUME Counters, SignalOnly \/ Broadcast \/ UNCHANGED pc
    PROVE  Wakes
<1>1. "woken" \in Labels
  BY DEF Labels, RunLabels
<1>2. CASE UNCHANGED pc
  BY <1>2 DEF Counters, Wakes
<1>3. CASE Broadcast
  BY <1>1, <1>3 DEF Counters, Wakes, Broadcast
<1>4. ASSUME NEW w \in Asleep, pc' = [pc EXCEPT ![w] = "woken"] PROVE Wakes
  BY <1>1, <1>4 DEF Counters, Wakes, Asleep
<1> QED
  BY <1>2, <1>3, <1>4 DEF SignalOnly

-----------------------------------------------------------------------------
(* Mutual exclusion *)

LEMMA ControlInit == Init => Control
<1> SUFFICES ASSUME Init PROVE Control
  OBVIOUS
<1>1. /\ pc["main"] = "open" /\ pc["safety"] = "start" /\ pc["tcp"] = "none"
      /\ pc["run"] = "none"
  BY DEF Init, Threads
<1>2. \A t \in Threads : pc[t] \in Labels
  BY <1>1 DEF Threads, Labels, MainLabels, SettingUp, SafetyLabels, TcpLabels
<1>3. pc \in [Threads -> Labels]
  BY <1>2 DEF Init
<1>4. Counters
  BY <1>1, <1>3 DEF Counters, MainLabels, SettingUp, TcpLabels, RunLabels, SafetyLabels
<1>5. Order
  BY <1>1 DEF Init, Order, SettingUp
<1>6. Owned
  BY <1>1 DEF Init, Owned, SafetyInside, Free, Destroyed
<1> QED
  BY <1>4, <1>5, <1>6 DEF Control

\* Steps that leave mutex and history alone and only wake.
LEMMA WakingControl ==
    ASSUME Control, Wakes, UNCHANGED <<mutex, early>>
    PROVE  Control'
<1>1. /\ pc'["main"] = pc["main"] /\ pc'["tcp"] = pc["tcp"]
      /\ \/ pc'["run"] = pc["run"]
         \/ pc["run"] = "asleep" /\ pc'["run"] = "woken"
      /\ \/ pc'["safety"] = pc["safety"]
         \/ pc["safety"] = "asleep" /\ pc'["safety"] = "woken"
  BY DEF Control, Counters, Wakes, Threads, MainLabels, SettingUp, TcpLabels
<1>2. Counters'
  BY <1>1 DEF Control, Counters, Wakes, RunLabels, SafetyLabels
<1>3. Order'
  BY <1>1 DEF Control, Order, SettingUp
<1>4. Owned'
  BY <1>1 DEF Control, Owned, SafetyInside
<1> QED
  BY <1>2, <1>3, <1>4 DEF Control

\* What a step of a thread does to the others.
LEMMA Others4 ==
    ASSUME Control, NEW t \in Threads, NEW to, Steps(t, to)
    PROVE  /\ pc'[t] = to
           /\ t # "main" => pc'["main"] = pc["main"]
           /\ t # "tcp" => pc'["tcp"] = pc["tcp"]
           /\ t # "run" => \/ pc'["run"] = pc["run"]
                           \/ pc["run"] = "asleep" /\ pc'["run"] = "woken"
           /\ t # "safety" => \/ pc'["safety"] = pc["safety"]
                              \/ pc["safety"] = "asleep" /\ pc'["safety"] = "woken"
  BY DEF Control, Counters, Steps, Threads, MainLabels, SettingUp, TcpLabels

LEMMA SafetyControl ==
    ASSUME Control, NEW to \in SafetyLabels \ {"start"}, Steps("safety", to),
           pc["safety"] # "start", UNCHANGED early,
           \/ to \in SafetyInside /\ pc["safety"] \in SafetyInside /\ UNCHANGED mutex
           \/ to \in SafetyInside /\ pc["safety"] \notin SafetyInside /\ Lock("safety")
           \/ to \notin SafetyInside /\ pc["safety"] \in SafetyInside /\ Unlock
           \/ to \notin SafetyInside /\ UNCHANGED mutex
    PROVE  Control'
<1>1. /\ pc'["safety"] = to /\ pc'["main"] = pc["main"] /\ pc'["tcp"] = pc["tcp"]
      /\ \/ pc'["run"] = pc["run"]
         \/ pc["run"] = "asleep" /\ pc'["run"] = "woken"
  BY Others4 DEF Threads
<1>2. Counters'
  BY <1>1 DEF Control, Counters, Steps, RunLabels, SafetyLabels
<1>3. Order'
  BY <1>1 DEF Control, Order, SettingUp
<1>4. Owned'
  BY <1>1 DEF Control, Owned, SafetyInside, Lock, Unlock, Free, Destroyed
<1> QED
  BY <1>2, <1>3, <1>4 DEF Control

LEMMA RunControl ==
    ASSUME Control, NEW to \in RunLabels \ {"none", "dead"}, Steps("run", to),
           pc["run"] \in RunLabels \ {"none", "dead", "done"}, UNCHANGED early,
           \/ /\ to \in {"check", "unlock"} /\ pc["run"] \in {"check", "unlock"}
              /\ UNCHANGED mutex
           \/ to = "check" /\ pc["run"] \notin {"check", "unlock"} /\ Lock("run")
           \/ to \notin {"check", "unlock"} /\ pc["run"] \in {"check", "unlock"} /\ Unlock
           \/ to \notin {"check", "unlock"} /\ UNCHANGED mutex
    PROVE  Control'
<1>1. /\ pc'["run"] = to /\ pc'["main"] = pc["main"] /\ pc'["tcp"] = pc["tcp"]
      /\ \/ pc'["safety"] = pc["safety"]
         \/ pc["safety"] = "asleep" /\ pc'["safety"] = "woken"
  BY Others4 DEF Threads
<1>2. Counters'
  BY <1>1 DEF Control, Counters, Steps, RunLabels, SafetyLabels
<1>3. Order'
  BY <1>1 DEF Control, Counters, Order, SettingUp, MainLabels
<1>4. Owned'
  BY <1>1 DEF Control, Owned, SafetyInside, Lock, Unlock, Free, Destroyed
<1> QED
  BY <1>2, <1>3, <1>4 DEF Control

LEMMA MainControl ==
    ASSUME Control, CarMain
    PROVE  Control'
<1> USE DEF Threads
<1>0. /\ pc["main"] \in MainLabels /\ MainLabels \subseteq Labels
      /\ \A to \in MainLabels : to \in Labels
  BY DEF Control, Counters, Labels
<1> DEFINE Moves(from, to) ==
             /\ pc["main"] = from /\ pc'["main"] = to /\ pc' \in [Threads -> Labels]
             /\ pc'["tcp"] = pc["tcp"] /\ pc'["run"] = pc["run"]
             /\ pc'["safety"] = pc["safety"]
<1>1. ASSUME NEW from, NEW to \in MainLabels, Goto("main", from, to) PROVE Moves(from, to)
  BY <1>0, <1>1, Goes DEF Control, Steps
<1>2. ASSUME NEW from \in SettingUp, NEW to \in SettingUp \cup {"crashed"},
             Moves(from, to), UNCHANGED early, mutex' \in {mutex, Free}
      PROVE  Control'
  <2>1. Counters'
    BY <1>2 DEF Control, Counters, MainLabels
  <2>2. Order'
    BY <1>2 DEF Control, Order, SettingUp
  <2>3. Owned'
    BY <1>2 DEF Control, Order, Owned, SafetyInside, Free, Destroyed
  <2> QED
    BY <2>1, <2>2, <2>3 DEF Control
<1>3. CASE Open \/ Truncate \/ Map \/ InitMutex \/ SetFloorsAndStatus
  <2>1. \E from \in SettingUp, to \in SettingUp \cup {"crashed"} : Goto("main", from, to)
    BY <1>3 DEF Open, Truncate, Map, InitMutex, SetFloorsAndStatus, SettingUp
  <2>2. UNCHANGED early /\ mutex' \in {mutex, Free}
    BY <1>3 DEF Open, Truncate, Map, InitMutex, SetFloorsAndStatus, rest
  <2> QED
    BY <1>1, <1>2, <2>1, <2>2 DEF MainLabels
<1>4. CASE InitCond
  <2>1. PICK forgotten \in SUBSET Asleep :
          pc' = [t \in Threads |-> IF t \in forgotten THEN "lost"
                                   ELSE IF t = "main" THEN "clear" ELSE pc[t]]
    BY <1>4 DEF InitCond
  <2>2. /\ pc["main"] = "cond" /\ pc["tcp"] = "none" /\ pc["run"] = "none"
    BY <1>4 DEF InitCond, Control, Order, SettingUp
  <2>3. forgotten \subseteq {"safety"} /\ ("safety" \in forgotten => pc["safety"] = "asleep")
    BY <2>2 DEF Asleep
  <2>4. /\ pc'["main"] = "clear" /\ pc'["tcp"] = "none" /\ pc'["run"] = "none"
        /\ pc'["safety"] = pc["safety"] \/ (pc["safety"] = "asleep" /\ pc'["safety"] = "lost")
    BY <2>1, <2>2, <2>3
  <2>5. pc' \in [Threads -> Labels]
    <3>1. \A t \in Threads : pc'[t] \in Labels
      BY <2>4, <1>0 DEF Control, Counters, Labels, MainLabels, SettingUp, TcpLabels, RunLabels,
         SafetyLabels
    <3> QED
      BY <3>1, <2>1
  <2>6. Counters'
    BY <2>4, <2>5 DEF Control, Counters, MainLabels, SettingUp, TcpLabels, RunLabels,
       SafetyLabels
  <2>7. UNCHANGED <<mutex, early>>
    BY <1>4 DEF InitCond, rest
  <2>8. Order'
    BY <2>2, <2>4, <2>7 DEF Control, Order, SettingUp
  <2>9. Owned'
    BY <2>2, <2>4, <2>7 DEF Control, Owned, SafetyInside
  <2> QED
    BY <2>6, <2>8, <2>9 DEF Control
<1>5. CASE ClearFlag
  <2>1. PICK to \in {"floors", "clear"} : pc' = [pc EXCEPT !["main"] = to]
    BY <1>5 DEF ClearFlag
  <2>2. Goto("main", "clear", to)
    BY <1>5, <2>1 DEF ClearFlag, Goto
  <2>3. Moves("clear", to)
    BY <1>1, <2>2 DEF MainLabels, SettingUp
  <2> QED
    BY <1>2, <1>5, <2>3 DEF ClearFlag, SettingUp
<1>6. CASE SpawnThreads
  <2>1. /\ pc["main"] = "spawn"
        /\ pc' = [pc EXCEPT !["main"] = "join", !["tcp"] = "poll", !["run"] = "lock"]
        /\ UNCHANGED <<mutex, early>>
    BY <1>6 DEF SpawnThreads, rest
  <2>2. /\ pc'["main"] = "join" /\ pc'["tcp"] = "poll" /\ pc'["run"] = "lock"
        /\ pc'["safety"] = pc["safety"] /\ pc' \in [Threads -> Labels]
    BY <2>1 DEF Control, Counters, Labels, MainLabels, TcpLabels, RunLabels
  <2>3. Counters'
    BY <2>2 DEF Control, Counters, MainLabels, TcpLabels, RunLabels
  <2>4. Order'
    BY <2>1, <2>2 DEF Control, Order, SettingUp
  <2>5. mutex # Destroyed
    BY <2>1 DEF Control, Order, Owned, SettingUp
  <2>6. Owned'
    BY <2>1, <2>2, <2>5 DEF Control, Owned
  <2> QED
    BY <2>3, <2>4, <2>6 DEF Control
<1>7. CASE Join \/ DestroyMutex \/ UnmapAndUnlink
  <2>1. PICK from \in {"join", "destroy", "unmap"}, to \in {"destroy", "unmap", "exited"} :
          Goto("main", from, to)
    BY <1>7 DEF Join, DestroyMutex, UnmapAndUnlink
  <2>2. Moves(from, to)
    BY <1>1, <2>1 DEF MainLabels
  <2>3. /\ pc["tcp"] = "done" /\ pc["run"] = "done"
        /\ UNCHANGED early
        /\ mutex' = mutex \/ (mutex = Free /\ mutex' = Destroyed)
    BY <1>7 DEF Join, DestroyMutex, UnmapAndUnlink, Goto, Control, Order, rest
  <2>4. Counters'
    BY <2>2 DEF Control, Counters, MainLabels
  <2>5. Order'
    BY <2>2, <2>3 DEF Control, Order, SettingUp
  <2>6. Owned'
    BY <2>2, <2>3 DEF Control, Owned, Free, Destroyed
  <2> QED
    BY <2>4, <2>5, <2>6 DEF Control
<1> QED
  BY <1>3, <1>4, <1>5, <1>6, <1>7 DEF CarMain

LEMMA TcpControl ==
    ASSUME Control, CarTcp
    PROVE  Control'
<1>1. PICK to \in {"poll", "connect", "done"} :
        /\ pc["tcp"] \in {"poll", "connect"}
        /\ pc' = [pc EXCEPT !["tcp"] = to]
        /\ UNCHANGED <<mutex, early>>
  BY DEF CarTcp, Poll, Connect, Goto, rest
<1>2. /\ pc'["tcp"] = to /\ pc'["main"] = pc["main"] /\ pc'["run"] = pc["run"]
      /\ pc'["safety"] = pc["safety"] /\ pc' \in [Threads -> Labels]
  BY <1>1 DEF Control, Counters, Labels, TcpLabels, Threads
<1>3. Counters'
  BY <1>2 DEF Control, Counters, TcpLabels
<1>4. Order'
  BY <1>1, <1>2 DEF Control, Order, SettingUp
<1>5. Owned'
  BY <1>1, <1>2 DEF Control, Owned
<1> QED
  BY <1>3, <1>4, <1>5 DEF Control

LEMMA CarRunControl ==
    ASSUME Control, CarRun
    PROVE  Control'
<1> USE DEF RunLabels, Labels, Threads
<1>1. Counters
  BY DEF Control
<1>2. CASE RunLock
  BY <1>1, <1>2, Goes, RunControl DEF RunLock, rest
<1>3. CASE RunWait
  BY <1>1, <1>3, Goes, RunControl DEF RunWait, rest
<1>4. CASE Relock("run")
  BY <1>1, <1>4, Goes, RunControl DEF Relock, rest
<1>5. CASE RunHandle
  <2>1. Signal("run", "unlock") /\ pc["run"] = "check" /\ UNCHANGED <<mutex, early>>
    BY <1>5 DEF RunHandle, rest
  <2>2. Steps("run", "unlock")
    BY <1>1, <2>1, Signals
  <2> QED
    BY <2>1, <2>2, RunControl
<1>6. CASE RunUnlock
  BY <1>1, <1>6, Goes, RunControl DEF RunUnlock, rest
<1> QED
  BY <1>2, <1>3, <1>4, <1>5, <1>6 DEF CarRun

LEMMA CarSafetyControl ==
    ASSUME Control, Safety
    PROVE  Control'
<1> USE DEF SafetyLabels, Labels, Threads, SafetyInside
<1>1. Counters
  BY DEF Control
<1>2. ASSUME NEW from \in SafetyInside, NEW to \in SafetyInside, NEW c, NEW d,
             SafetyStep(from, to, c, d)
      PROVE  Control'
  <2>1. pc["safety"] = from /\ from # "asleep" /\ UNCHANGED <<mutex, early>>
    BY <1>2 DEF SafetyStep, rest
  <2>2. Signal("safety", to) \/ pc' = [pc EXCEPT !["safety"] = to]
    BY <1>2 DEF SafetyStep
  <2>3. Steps("safety", to)
    BY <1>1, <2>1, <2>2, Signals
  <2> QED
    BY <1>2, <2>1, <2>3, SafetyControl
<1>3. CASE SafetyOpen
  <2>1. PICK to \in {"lock", "failed"} :
          /\ pc["safety"] = "start" /\ pc' = [pc EXCEPT !["safety"] = to]
          /\ early' = (pc["main"] \in SettingUp)
          /\ UNCHANGED mutex
    BY <1>3 DEF SafetyOpen
  <2>2. /\ pc'["safety"] = to /\ pc'["main"] = pc["main"] /\ pc'["run"] = pc["run"]
        /\ pc'["tcp"] = pc["tcp"] /\ pc' \in [Threads -> Labels]
    BY <1>1, <2>1 DEF Counters
  <2>3. Counters'
    BY <1>1, <2>2 DEF Counters
  <2>4. Order'
    BY <2>1, <2>2 DEF Control, Order
  <2>5. Owned'
    BY <2>1, <2>2 DEF Control, Order, Owned
  <2> QED
    BY <2>3, <2>4, <2>5 DEF Control
<1>4. CASE SafetyLock
  BY <1>1, <1>4, Goes, SafetyControl DEF SafetyLock, rest
<1>5. CASE SafetyFault
  BY <1>1, <1>5, Goes, SafetyControl DEF SafetyFault, rest
<1>6. CASE SafetyWait
  BY <1>1, <1>6, Goes, SafetyControl DEF SafetyWait, rest
<1>7. CASE Relock("safety")
  BY <1>1, <1>7, Goes, SafetyControl DEF Relock, rest
<1>8. CASE SafetyTriggered
  BY <1>1, <1>8, Goes, SafetyControl DEF SafetyTriggered, rest
<1>9. CASE SafetyHeartbeat \/ SafetyObstruction \/ SafetyStop \/ SafetyOverload
           \/ SafetyConsistency
  BY <1>2, <1>9 DEF SafetyHeartbeat, SafetyObstruction, SafetyStop, SafetyOverload,
     SafetyConsistency
<1>10. CASE SafetyUnlock
  BY <1>1, <1>10, Goes, SafetyControl DEF SafetyUnlock, rest
<1> QED
  BY <1>3, <1>4, <1>5, <1>6, <1>7, <1>8, <1>9, <1>10 DEF Safety

LEMMA ControlNext ==
    ASSUME Control, [Next]_vars
    PROVE  Control'
<1>1. Counters
  BY DEF Control
<1>2. CASE Others
  <2>1. UNCHANGED <<mutex, early>> /\ (SignalOnly \/ Broadcast \/ UNCHANGED pc)
    BY <1>2 DEF Others, Internal, InternalMoves, InternalFloor,
       MovePastGround, WriteDestination, TestWrites, TestResets, TestSets, Test
  <2> QED
    BY <1>1, <2>1, SignalsOnly, WakingControl
<1>3. CASE ControllerStarts \/ UNCHANGED vars
  <2>1. UNCHANGED <<mutex, pc, early>>
    BY <1>3 DEF ControllerStarts, vars, rest
  <2> QED
    BY <1>1, <2>1, SignalsOnly, WakingControl
<1>4. CASE Interrupt
  <2>1. /\ pc' = [pc EXCEPT !["main"] = "killed", !["tcp"] = "dead", !["run"] = "dead"]
        /\ UNCHANGED <<mutex, early>>
    BY <1>4 DEF Interrupt, rest
  <2>2. /\ pc'["main"] = "killed" /\ pc'["tcp"] = "dead" /\ pc'["run"] = "dead"
        /\ pc'["safety"] = pc["safety"] /\ pc' \in [Threads -> Labels]
    BY <1>1, <2>1 DEF Counters, Threads, Labels, MainLabels, TcpLabels, RunLabels
  <2>3. Counters'
    BY <1>1, <2>2 DEF Counters, MainLabels, TcpLabels, RunLabels
  <2>4. Order'
    BY <2>1, <2>2 DEF Control, Order, SettingUp
  <2>5. Owned'
    BY <2>1, <2>2 DEF Control, Owned
  <2> QED
    BY <2>3, <2>4, <2>5 DEF Control
<1>5. ASSUME NEW t \in Threads, SpuriousWakeup(t)
      PROVE  Control'
  <2>1. UNCHANGED <<mutex, early>> /\ Goto(t, "asleep", "woken") /\ "woken" \in Labels
    BY <1>5 DEF SpuriousWakeup, rest, Labels, RunLabels
  <2>2. Wakes
    BY <1>1, <2>1 DEF Counters, Goto, Wakes
  <2> QED
    BY <2>1, <2>2, WakingControl
<1> QED
  BY <1>2, <1>3, <1>4, <1>5, MainControl, TcpControl, CarRunControl, CarSafetyControl DEF Next

LEMMA ControlAlways == Spec => []Control
<1>1. Control /\ [Next]_vars => Control'
  BY ControlNext
<1> QED
  BY ControlInit, <1>1, PTL DEF Spec

\* Mutual exclusion (OneInside): car_run and safety_ctrl of a safety that did
\* not come too early are never both between locking and unlocking, with any
\* number of other processes pressing, and wherever car is killed.
THEOREM MutualExclusion == Spec => []OneInside
<1>1. Control => OneInside
  <2> SUFFICES ASSUME Control, ~early, pc["run"] \in {"check", "unlock"},
                      pc["safety"] \in SafetyInside
               PROVE  FALSE
    BY DEF OneInside
  <2>1. mutex = "run" /\ mutex \in {"safety", Destroyed}
    BY DEF Control, Owned
  <2> QED
    BY <2>1 DEF Destroyed
<1> QED
  BY ControlAlways, <1>1, PTL

-----------------------------------------------------------------------------
(* The shared memory *)

Memory ==
    /\ link \in {NoObject, Object} /\ sized \in BOOLEAN
    /\ flags \in [FlagNames -> 0 .. 2]
    /\ status \in Statuses \cup {Nonsense}
    /\ current_floor \in Floor \cup {NoFloor}
    /\ destination_floor \in [B : {0, 1}, level : 0 .. 999]

\* car_init clears eight flags and no more.
Clearing ==
    /\ cleared \in 0 .. 8
    /\ pc["main"] \in {"open", "truncate", "map", "mutex", "cond"} => cleared = 0
    /\ pc["main"] = "clear" => cleared \in 0 .. 7

LiftType ==
    lift \in [at : {"idle", "floor", "ground", "write"}, operation : {"", "up", "down"},
              from : Floor \cup {NoFloor}, next : [B : {0, 1}, level : 0 .. 255]]

Locals == /\ seen \in 0 .. 2 /\ listening \in BOOLEAN
          /\ pressed \in 0 .. Presses /\ match \in MatchCases

Data == Memory /\ Clearing /\ LiftType /\ Locals

LEMMA FloorTypes == /\ Floor \cup {NoFloor} \subseteq [B : {0, 1}, level : 0 .. 999]
                    /\ \A m \in MatchCases : Floors[m] \subseteq Floor
                    /\ TestFloors \subseteq Floor
  BY FloorsAssumption DEF Floor, NoFloor

LEMMA FlagList ==
    /\ \A n \in 0 .. 7 : Flags[n + 1] \in FlagNames
    /\ {"open_button", "close_button", "safety_system", "door_obstruction", "overload",
        "emergency_stop", "individual_service_mode", "emergency_mode"} \subseteq FlagNames
<1>1. /\ Flags[1] = "open_button" /\ Flags[2] = "close_button"
      /\ Flags[3] = "safety_system" /\ Flags[4] = "door_obstruction"
      /\ Flags[5] = "overload" /\ Flags[6] = "emergency_stop"
      /\ Flags[7] = "individual_service_mode" /\ Flags[8] = "emergency_mode"
  BY DEF Flags
<1>2. \A n \in 1 .. 8 : Flags[n] \in FlagNames
  BY DEF FlagNames
<1> QED
  BY <1>1, <1>2

LEMMA DataInit == Init => Data
<1> SUFFICES ASSUME Init PROVE Data
  OBVIOUS
<1>1. Memory
  <2>1. /\ link = NoObject /\ sized = FALSE /\ flags = [f \in FlagNames |-> 0]
        /\ status = "" /\ current_floor = NoFloor /\ destination_floor = NoFloor
    BY DEF Init
  <2>2. flags \in [FlagNames -> 0 .. 2]
    <3>1. 0 \in 0 .. 2
      OBVIOUS
    <3> QED
      BY <2>1, <3>1, Zenon
  <2>3. NoFloor \in [B : {0, 1}, level : 0 .. 999]
    BY FloorTypes
  <2> QED
    BY <2>1, <2>2, <2>3 DEF Memory, Statuses
<1>2. Clearing
  <2>1. cleared = 0
    BY DEF Init
  <2> QED
    BY <2>1 DEF Clearing
<1>3. LiftType
  <2>1. lift = Idle
    BY DEF Init
  <2>2. NoFloor \in [B : {0, 1}, level : 0 .. 255]
    BY DEF NoFloor
  <2> QED
    BY <2>1, <2>2 DEF LiftType, Idle
<1>4. Locals
  <2>1. seen = 0 /\ listening = FALSE /\ pressed = 0 /\ match \in MatchCases
    BY DEF Init
  <2>2. match \in MatchCases /\ listening \in BOOLEAN
    BY <2>1, Zenon
  <2>3. seen \in 0 .. 2 /\ pressed \in 0 .. Presses
    BY <2>1, PressesAssumption
  <2> QED
    BY <2>2, <2>3 DEF Locals
<1> QED
  BY <1>1, <1>2, <1>3, <1>4 DEF Data

\* No step but one of main moves main away from clearing or to it.
LEMMA ClearingKept ==
    ASSUME Control, Clearing, UNCHANGED cleared,
           pc'["main"] = pc["main"] \/ pc'["main"] \in {"killed", "crashed"}
    PROVE  Clearing'
  BY DEF Clearing

LEMMA MainData ==
    ASSUME Control, Data, CarMain
    PROVE  Data'
<1> USE DEF Threads
<1>1. pc \in [Threads -> Labels]
  BY DEF Control, Counters
<1>2. UNCHANGED <<lift, seen, listening, pressed, match>>
  BY DEF CarMain, Open, Truncate, Map, InitMutex, InitCond, ClearFlag, SetFloorsAndStatus,
     SpawnThreads, Join, DestroyMutex, UnmapAndUnlink, rest
<1>3. LiftType' /\ Locals'
  BY <1>2 DEF Data, LiftType, Locals
<1>4. Memory'
  <2>1. CASE Open \/ Truncate \/ Map \/ InitMutex \/ InitCond \/ SpawnThreads \/ Join
             \/ DestroyMutex \/ UnmapAndUnlink
    <3>1. /\ UNCHANGED <<flags, status, current_floor, destination_floor>>
          /\ link' \in {link, NoObject, Object} /\ sized' \in {sized, TRUE}
      BY <2>1 DEF Open, Truncate, Map, InitMutex, InitCond, SpawnThreads, Join,
         DestroyMutex, UnmapAndUnlink, memory, floors
    <3> QED
      BY <3>1 DEF Data, Memory
  <2>2. CASE ClearFlag
    <3>1. Flags[cleared + 1] \in FlagNames
      BY <2>2, FlagList DEF ClearFlag, Data, Clearing
    <3>2. flags' = [flags EXCEPT ![Flags[cleared + 1]] = 0]
      BY <2>2 DEF ClearFlag
    <3>3. flags' \in [FlagNames -> 0 .. 2]
      BY <3>1, <3>2, FlagList DEF Data, Memory
    <3> QED
      BY <2>2, <3>3 DEF ClearFlag, Data, Memory, floors
  <2>3. CASE SetFloorsAndStatus
    <3>1. /\ current_floor' \in Floors[match] /\ destination_floor' = current_floor'
          /\ status' = "Closed" /\ UNCHANGED <<link, sized, flags>>
      BY <2>3 DEF SetFloorsAndStatus
    <3>2. /\ current_floor' \in Floor \cup {NoFloor}
          /\ destination_floor' \in [B : {0, 1}, level : 0 .. 999]
      BY <3>1, FloorTypes DEF Data, Locals
    <3>3. status' \in Statuses
      BY <3>1 DEF Statuses
    <3> QED
      BY <3>1, <3>2, <3>3 DEF Data, Memory
  <2> QED
    BY <2>1, <2>2, <2>3 DEF CarMain
<1>5. Clearing'
  <2>1. CASE Open \/ Truncate \/ Map \/ InitMutex
    <3>1. PICK from \in {"open", "truncate", "map", "mutex"},
               to \in {"truncate", "map", "mutex", "cond", "crashed"} :
                 Goto("main", from, to)
      <4>1. CASE Open
        BY <4>1 DEF Open
      <4>2. CASE Truncate
        BY <4>2 DEF Truncate
      <4>3. CASE Map
        BY <4>3 DEF Map
      <4>4. CASE InitMutex
        BY <4>4 DEF InitMutex
      <4> QED
        BY <2>1, <4>1, <4>2, <4>3, <4>4
    <3>2. pc["main"] = from /\ pc'["main"] = to /\ UNCHANGED cleared
      BY <1>1, <2>1, <3>1 DEF Goto, Open, Truncate, Map, InitMutex, rest
    <3> QED
      BY <3>2 DEF Data, Clearing
  <2>2. CASE InitCond
    <3>1. pc["main"] = "cond" /\ UNCHANGED cleared /\ pc'["main"] \in {"lost", "clear"}
      BY <2>2 DEF InitCond, rest
    <3> QED
      BY <3>1 DEF Data, Clearing
  <2>3. CASE ClearFlag
    <3>1. cleared \in 0 .. 7 /\ cleared' = cleared + 1
      BY <2>3 DEF ClearFlag, Data, Clearing
    <3>2. pc'["main"] = IF cleared' = 8 THEN "floors" ELSE "clear"
      BY <1>1, <2>3 DEF ClearFlag
    <3> QED
      BY <3>1, <3>2 DEF Clearing
  <2>4. CASE SetFloorsAndStatus \/ SpawnThreads \/ Join \/ DestroyMutex \/ UnmapAndUnlink
    <3>1. pc'["main"] \in {"spawn", "join", "destroy", "unmap", "exited"}
          /\ UNCHANGED cleared
      BY <1>1, <2>4 DEF Goto, SetFloorsAndStatus, SpawnThreads, Join, DestroyMutex,
         UnmapAndUnlink, rest
    <3> QED
      BY <3>1 DEF Data, Clearing
  <2> QED
    BY <2>1, <2>2, <2>3, <2>4 DEF CarMain
<1> QED
  BY <1>3, <1>4, <1>5 DEF Data

\* A change of some flags, as safety and internal write them.
FlagType(g) == g \in [FlagNames -> 0 .. 2]

LEMMA ChangeKeepsType ==
    ASSUME NEW g, FlagType(g), NEW c, \A f \in DOMAIN c : c[f] \in {0, 1}
    PROVE  FlagType([f \in FlagNames |-> IF f \in DOMAIN c THEN c[f] ELSE g[f]])
<1> DEFINE h == [f \in FlagNames |-> IF f \in DOMAIN c THEN c[f] ELSE g[f]]
<1>1. \A f \in FlagNames : h[f] \in 0 .. 2
  BY DEF FlagType
<1> QED
  BY <1>1 DEF FlagType

LEMMA OperationFlags ==
    ASSUME NEW op \in Operations
    PROVE  \A f \in DOMAIN Operation(op) : Operation(op)[f] \in {0, 1}
<1>1. CASE op = "open"
  BY <1>1 DEF Operation
<1>2. CASE op = "close"
  BY <1>2 DEF Operation
<1>3. CASE op = "stop"
  BY <1>3 DEF Operation
<1>4. CASE op = "service_on"
  BY <1>4 DEF Operation
<1>5. CASE op = "service_off"
  BY <1>5 DEF Operation
<1> QED
  BY <1>1, <1>2, <1>3, <1>4, <1>5 DEF Operations

\* A level computed in a uint8_t fits one.
LEMMA MovedType ==
    ASSUME NEW op, NEW f \in [B : {0, 1}, level : 0 .. 999]
    PROVE  Moved(op, f) \in [B : {0, 1}, level : 0 .. 255]
<1>1. \A n \in Nat : n % 256 \in 0 .. 255
  OBVIOUS
<1>2. (f.level % 256) + 1 \in Nat /\ (f.level % 256) + 255 \in Nat
  BY <1>1
<1>3. f.B \in {0, 1}
  OBVIOUS
<1> QED
  BY <1>1, <1>2, <1>3 DEF Moved

\* Only main's own steps and an interrupt move main.
LEMMA MainStays ==
    ASSUME Control, \/ CarTcp \/ CarRun \/ Safety \/ Others \/ ControllerStarts
                    \/ \E t \in Threads : SpuriousWakeup(t)
    PROVE  pc'["main"] = pc["main"]
<1> USE DEF Threads
<1>0. pc \in [Threads -> Labels] /\ pc["main"] \notin {"asleep", "woken"}
  BY DEF Control, Counters, MainLabels, SettingUp
<1>1. ASSUME NEW t \in {"tcp", "run", "safety"}, NEW to, Signal(t, to)
      PROVE  pc'["main"] = pc["main"]
  BY <1>0, <1>1 DEF Signal, Asleep
<1>2. ASSUME NEW t \in {"tcp", "run", "safety"}, NEW to, pc' = [pc EXCEPT ![t] = to]
      PROVE  pc'["main"] = pc["main"]
  BY <1>0, <1>2
<1>3. ASSUME NEW t \in {"tcp", "run", "safety"}, NEW from, NEW to, Goto(t, from, to)
      PROVE  pc'["main"] = pc["main"]
  BY <1>2, <1>3 DEF Goto
<1>4. CASE CarTcp
  BY <1>2, <1>4 DEF CarTcp, Poll, Connect, Goto
<1>5. CASE CarRun
  BY <1>1, <1>3, <1>5 DEF CarRun, RunLock, RunWait, Relock, RunHandle, RunUnlock
<1>6. ASSUME NEW from, NEW to, NEW c, NEW d, SafetyStep(from, to, c, d)
      PROVE  pc'["main"] = pc["main"]
  BY <1>1, <1>2, <1>6 DEF SafetyStep
<1>7. CASE SafetyOpen
  BY <1>2, <1>7 DEF SafetyOpen
<1>8. CASE SafetyHeartbeat \/ SafetyObstruction \/ SafetyStop \/ SafetyOverload
           \/ SafetyConsistency
  BY <1>6, <1>8 DEF SafetyHeartbeat, SafetyObstruction, SafetyStop, SafetyOverload,
     SafetyConsistency
<1>9. CASE SafetyLock \/ SafetyFault \/ SafetyWait \/ Relock("safety") \/ SafetyTriggered
           \/ SafetyUnlock
  BY <1>3, <1>9 DEF SafetyLock, SafetyFault, SafetyWait, Relock, SafetyTriggered,
     SafetyUnlock
<1>10. CASE Others
  <2>1. SignalOnly \/ Broadcast \/ UNCHANGED pc
    BY <1>10 DEF Others, Internal, InternalMoves, InternalFloor,
       MovePastGround, WriteDestination, TestWrites, TestResets, TestSets, Test
  <2> QED
    BY <1>0, <2>1 DEF SignalOnly, Broadcast, Asleep
<1>11. CASE ControllerStarts
  BY <1>11 DEF ControllerStarts
<1>12. ASSUME NEW t \in Threads, SpuriousWakeup(t)
       PROVE  pc'["main"] = pc["main"]
  BY <1>0, <1>12 DEF SpuriousWakeup, Goto
<1> QED
  BY <1>4, <1>5, <1>7, <1>8, <1>9, <1>10, <1>11, <1>12 DEF Safety

LEMMA SafetyStepFlags ==
    ASSUME Memory, NEW from, NEW to, NEW c, NEW d, SafetyStep(from, to, c, d),
           \A f \in DOMAIN d : d[f] \in {0, 1}
    PROVE  FlagType(flags')
<1>1. FlagType(flags)
  BY DEF Memory, FlagType
<1>2. CASE flags' = flags
  BY <1>1, <1>2
<1>3. CASE flags' = [f \in FlagNames |-> IF f \in DOMAIN d THEN d[f] ELSE flags[f]]
  BY <1>1, <1>3, ChangeKeepsType
<1> QED
  BY <1>2, <1>3 DEF SafetyStep

LEMMA SafetyMemory ==
    ASSUME Memory, Safety
    PROVE  Memory'
<1>1. /\ UNCHANGED <<link, sized, current_floor, destination_floor>>
      /\ status' \in {status, "Opening"}
  <2>1. CASE SafetyOpen \/ SafetyLock \/ SafetyFault \/ SafetyWait \/ Relock("safety")
             \/ SafetyTriggered \/ SafetyUnlock
    BY <2>1 DEF SafetyOpen, SafetyLock, SafetyFault, SafetyWait, Relock, SafetyTriggered,
       SafetyUnlock, memory, floors
  <2>2. CASE SafetyHeartbeat \/ SafetyObstruction \/ SafetyStop \/ SafetyOverload
             \/ SafetyConsistency
    BY <2>2 DEF SafetyHeartbeat, SafetyObstruction, SafetyStop, SafetyOverload,
       SafetyConsistency, SafetyStep, floors
  <2> QED
    BY <2>1, <2>2 DEF Safety
<1>2. FlagType(flags')
  <2>1. CASE SafetyOpen \/ SafetyLock \/ SafetyFault \/ SafetyWait \/ Relock("safety")
             \/ SafetyTriggered \/ SafetyUnlock
    <3>1. UNCHANGED flags
      BY <2>1 DEF SafetyOpen, SafetyLock, SafetyFault, SafetyWait, Relock, SafetyTriggered,
         SafetyUnlock, memory
    <3> QED
      BY <3>1 DEF Memory, FlagType
  <2>2. CASE SafetyHeartbeat
    BY <2>2, SafetyStepFlags DEF SafetyHeartbeat
  <2>3. CASE SafetyObstruction
    <3>1. \A f \in DOMAIN <<>> : <<>>[f] \in {0, 1}
      OBVIOUS
    <3> QED
      BY <2>3, <3>1, SafetyStepFlags DEF SafetyObstruction
  <2>4. CASE SafetyStop
    BY <2>4, SafetyStepFlags DEF SafetyStop
  <2>5. CASE SafetyOverload
    BY <2>5, SafetyStepFlags DEF SafetyOverload
  <2>6. CASE SafetyConsistency
    BY <2>6, SafetyStepFlags DEF SafetyConsistency
  <2> QED
    BY <2>1, <2>2, <2>3, <2>4, <2>5, <2>6 DEF Safety
<1> QED
  BY <1>1, <1>2 DEF Memory, FlagType, Statuses

LEMMA OthersMemory ==
    ASSUME Memory, LiftType, Locals, Others
    PROVE  Memory'
<1>1. /\ UNCHANGED <<link, sized>>
      /\ status' \in Statuses \cup {Nonsense}
  <2>1. UNCHANGED <<link, sized>>
    BY DEF Others, Internal, InternalMoves, InternalFloor, MovePastGround, WriteDestination,
       TestWrites, TestResets, TestSets, Test, memory
  <2>2. status' \in {status, "Closing", "Closed"} \cup TestStatuses
    BY DEF Others, Internal, InternalMoves, InternalFloor, MovePastGround, WriteDestination,
       TestWrites, TestResets, TestSets, Test, memory
  <2> QED
    BY <2>1, <2>2, StatusAssumption DEF Memory, Statuses
<1>2. FlagType(flags')
  <2>0. FlagType(flags)
    BY DEF Memory, FlagType
  <2>1. ASSUME NEW op \in Operations, Internal(op) PROVE FlagType(flags')
    <3>1. CASE match
      <4>1. flags' = [f \in FlagNames |->
              IF f \in DOMAIN Operation(op) THEN Operation(op)[f] ELSE flags[f]]
        BY <2>1, <3>1 DEF Internal
      <4> QED
        BY <2>0, <4>1, OperationFlags, ChangeKeepsType
    <3>2. CASE ~match
      BY <2>0, <2>1, <3>2 DEF Internal
    <3> QED
      BY <3>1, <3>2
  <2>2. ASSUME NEW w \in TestFlags, TestWrites(w) PROVE FlagType(flags')
    <3>1. PICK f \in FlagNames, n \in {0, 1, 2} : w[1] = f /\ w[2] = n
      BY FlagList, ExcessAssumption DEF TestFlags
    <3>2. flags' = [flags EXCEPT ![f] = n]
      BY <2>2, <3>1 DEF TestWrites
    <3>3. n \in 0 .. 2
      OBVIOUS
    <3> QED
      BY <2>0, <3>2, <3>3, FlagList DEF FlagType
  <2>3. CASE TestResets
    BY <2>3 DEF TestResets, FlagType
  <2>4. CASE UNCHANGED flags
    BY <2>0, <2>4
  <2> QED
    BY <2>1, <2>2, <2>3, <2>4 DEF Others, InternalMoves, InternalFloor, MovePastGround,
       WriteDestination, TestSets, memory
<1>3. destination_floor' \in [B : {0, 1}, level : 0 .. 999]
  <2>1. CASE MovePastGround
    <3>1. PICK b \in {0, 1} : destination_floor' = [B |-> b, level |-> 1]
      BY <2>1 DEF MovePastGround
    <3> QED
      BY <3>1
  <2>2. CASE WriteDestination
    <3>1. lift.next \in [B : {0, 1}, level : 0 .. 255] /\ destination_floor' = lift.next
      BY <2>2 DEF WriteDestination, LiftType
    <3> QED
      BY <3>1
  <2>3. CASE TestResets
    BY <2>3 DEF TestResets
  <2>4. CASE TestSets
    <3>1. destination_floor' \in {destination_floor, NoFloor} \cup TestFloors
      BY <2>4 DEF TestSets, floors
    <3> QED
      BY <3>1, FloorTypes DEF Memory
  <2>5. CASE UNCHANGED destination_floor
    BY <2>5 DEF Memory
  <2> QED
    BY <2>1, <2>2, <2>3, <2>4, <2>5 DEF Others, Internal, InternalMoves, InternalFloor,
       TestWrites, memory, floors
<1>4. current_floor' \in Floor \cup {NoFloor}
  <2>1. CASE TestResets
    BY <2>1 DEF TestResets, Floor
  <2>2. CASE TestSets
    <3>1. current_floor' \in {current_floor, NoFloor} \cup TestFloors
      BY <2>2 DEF TestSets, floors
    <3> QED
      BY <3>1, FloorTypes DEF Memory
  <2>3. CASE UNCHANGED current_floor
    BY <2>3 DEF Memory
  <2> QED
    BY <2>1, <2>2, <2>3 DEF Others, Internal, InternalMoves, InternalFloor, MovePastGround,
       WriteDestination, TestWrites, memory, floors
<1> QED
  BY <1>1, <1>2, <1>3, <1>4 DEF Memory, FlagType

\* Of the processes beside car and safety, only up and down use lift.
LEMMA LiftSteps ==
    ASSUME Others
    PROVE  \/ \E op \in {"up", "down"} : InternalMoves(op)
           \/ InternalFloor \/ MovePastGround \/ WriteDestination
           \/ UNCHANGED lift
  BY DEF Others, Internal, TestWrites, TestResets, TestSets, Test

LEMMA OthersLocals ==
    ASSUME Memory, LiftType, Locals, Others
    PROVE  LiftType' /\ Locals'
<1>1. UNCHANGED <<seen, listening, match>>
  BY DEF Others, Internal, InternalMoves, InternalFloor, MovePastGround, WriteDestination,
     TestWrites, TestResets, TestSets, Test
<1>2. pressed' \in 0 .. Presses
  <2>1. pressed' = pressed \/ (pressed < Presses /\ pressed' = pressed + 1)
    BY DEF Others, Internal, InternalMoves, InternalFloor, MovePastGround, WriteDestination,
       TestWrites, TestResets, TestSets, Test, MayPress
  <2> QED
    BY <2>1, PressesAssumption DEF Locals
<1>3. LiftType'
  <2> DEFINE Lifts == [at : {"idle", "floor", "ground", "write"},
                       operation : {"", "up", "down"}, from : Floor \cup {NoFloor},
                       next : [B : {0, 1}, level : 0 .. 255]]
  <2> SUFFICES lift' \in Lifts
    BY DEF LiftType
  <2>n. NoFloor \in [B : {0, 1}, level : 0 .. 255] /\ NoFloor \in Floor \cup {NoFloor}
    BY DEF NoFloor
  <2>0. Idle \in Lifts
    BY <2>n DEF Idle
  <2>1. ASSUME NEW op \in {"up", "down"}, InternalMoves(op) PROVE lift' \in Lifts
    <3>1. CASE lift' = Idle
      BY <2>0, <3>1, Zenon
    <3>2. CASE lift' = [at |-> "floor", operation |-> op, from |-> NoFloor, next |-> NoFloor]
      BY <2>n, <3>2
    <3> QED
      BY <2>1, <3>1, <3>2 DEF InternalMoves
  <2>2. CASE InternalFloor
    <3> DEFINE next == Moved(lift.operation, current_floor)
    <3>1. next \in [B : {0, 1}, level : 0 .. 255]
      BY MovedType, FloorTypes DEF Memory
    <3>2. \/ lift' = Idle
          \/ \E a \in {"ground", "write"} :
               lift' = [at |-> a, operation |-> lift.operation, from |-> current_floor,
                        next |-> next]
      BY <2>2 DEF InternalFloor
    <3>3. lift.operation \in {"", "up", "down"} /\ current_floor \in Floor \cup {NoFloor}
      BY DEF LiftType, Memory
    <3> HIDE DEF next
    <3>4. ASSUME NEW a \in {"ground", "write"},
                 lift' = [at |-> a, operation |-> lift.operation, from |-> current_floor,
                          next |-> next]
          PROVE  lift' \in Lifts
      BY <3>1, <3>3, <3>4
    <3>5. CASE lift' = Idle
      BY <2>0, <3>5, Zenon
    <3> QED
      BY <3>2, <3>4, <3>5
  <2>3. CASE MovePastGround
    BY <2>3 DEF MovePastGround, LiftType
  <2>4. CASE WriteDestination
    <3>1. lift' = Idle
      BY <2>4 DEF WriteDestination
    <3> QED
      BY <2>0, <3>1, Zenon
  <2>5. CASE UNCHANGED lift
    BY <2>5 DEF LiftType
  <2> QED
    BY <2>1, <2>2, <2>3, <2>4, <2>5, LiftSteps
<1> QED
  BY <1>1, <1>2, <1>3 DEF Locals

LEMMA DataNext ==
    ASSUME Control, Data, [Next]_vars
    PROVE  Data'
<1>0. Memory /\ Clearing /\ LiftType /\ Locals
  BY DEF Data
<1>1. CASE CarTcp
  <2>1. UNCHANGED <<memory, cleared, listening, pressed, lift, match>>
        /\ seen' \in {seen, flags["safety_system"]}
    BY <1>1 DEF CarTcp, Poll, Connect, rest
  <2>2. Memory'
    BY <1>0, <2>1 DEF Memory, memory, floors
  <2>3. Clearing'
    BY <1>0, <1>1, <2>1, MainStays, ClearingKept
  <2>4. LiftType'
    BY <1>0, <2>1 DEF LiftType
  <2>5. seen' \in 0 .. 2
    BY <1>0, <2>1, FlagList DEF Locals, Memory
  <2>6. Locals'
    BY <1>0, <2>1, <2>5 DEF Locals
  <2> QED
    BY <2>2, <2>3, <2>4, <2>6 DEF Data
<1>2. CASE CarRun
  <2>1. UNCHANGED <<link, sized, status, floors, rest>>
    BY <1>2 DEF CarRun, RunLock, RunWait, Relock, RunHandle, RunUnlock, memory
  <2>2. FlagType(flags')
    <3>1. CASE RunHandle
      <4>1. flags' = [f \in FlagNames |-> IF f \in Buttons THEN 0 ELSE flags[f]]
        BY <3>1 DEF RunHandle
      <4>2. \A f \in FlagNames : (IF f \in Buttons THEN 0 ELSE flags[f]) \in 0 .. 2
        BY <1>0 DEF Memory
      <4> QED
        BY <4>1, <4>2 DEF FlagType
    <3>2. CASE UNCHANGED flags
      BY <1>0, <3>2 DEF Memory, FlagType
    <3> QED
      BY <1>2, <3>1, <3>2 DEF CarRun, RunLock, RunWait, Relock, RunUnlock, memory
  <2>3. Memory'
    BY <1>0, <2>1, <2>2 DEF Memory, FlagType, floors
  <2>4. Clearing'
    BY <1>0, <1>2, <2>1, MainStays, ClearingKept DEF rest
  <2>5. LiftType' /\ Locals'
    BY <1>0, <2>1 DEF LiftType, Locals, rest
  <2> QED
    BY <2>3, <2>4, <2>5 DEF Data
<1>3. CASE Safety
  <2>1. UNCHANGED <<cleared, seen, listening, pressed, lift, match>>
    BY <1>3 DEF Safety, SafetyOpen, SafetyLock, SafetyFault, SafetyWait, Relock,
       SafetyTriggered, SafetyHeartbeat, SafetyObstruction, SafetyStop, SafetyOverload,
       SafetyConsistency, SafetyUnlock, SafetyStep, rest
  <2>2. Memory'
    BY <1>0, <1>3, SafetyMemory
  <2>3. Clearing'
    BY <1>0, <1>3, <2>1, MainStays, ClearingKept
  <2>4. LiftType' /\ Locals'
    BY <1>0, <2>1 DEF LiftType, Locals
  <2> QED
    BY <2>2, <2>3, <2>4 DEF Data
<1>4. CASE Others
  <2>1. UNCHANGED cleared
    BY <1>4 DEF Others, Internal, InternalMoves, InternalFloor,
       MovePastGround, WriteDestination, TestWrites, TestResets, TestSets, Test
  <2>2. Clearing'
    BY <1>0, <1>4, <2>1, MainStays, ClearingKept
  <2> QED
    BY <1>0, <1>4, <2>2, OthersMemory, OthersLocals DEF Data
<1>5. CASE ControllerStarts \/ UNCHANGED vars \/ \E t \in Threads : SpuriousWakeup(t)
  <2>1. UNCHANGED <<memory, cleared, seen, pressed, lift, match>>
        /\ listening' \in {listening, TRUE}
    BY <1>5 DEF ControllerStarts, vars, rest, SpuriousWakeup
  <2>2. Memory'
    BY <1>0, <2>1 DEF Memory, memory, floors
  <2>3. pc'["main"] = pc["main"]
    BY <1>5, MainStays DEF vars
  <2>4. Clearing'
    BY <1>0, <2>1, <2>3, ClearingKept
  <2>5. LiftType' /\ Locals'
    BY <1>0, <2>1 DEF LiftType, Locals
  <2> QED
    BY <2>2, <2>4, <2>5 DEF Data
<1>6. CASE Interrupt
  <2>1. UNCHANGED <<memory, rest>> /\ pc'["main"] = "killed"
    BY <1>6 DEF Interrupt, Control, Counters, Threads
  <2>2. Memory'
    BY <1>0, <2>1 DEF Memory, memory, floors
  <2>3. Clearing'
    BY <1>0, <2>1, ClearingKept DEF rest
  <2>4. LiftType' /\ Locals'
    BY <1>0, <2>1 DEF LiftType, Locals, rest
  <2> QED
    BY <2>2, <2>3, <2>4 DEF Data
<1> QED
  BY <1>1, <1>2, <1>3, <1>4, <1>5, <1>6, MainData DEF Next

LEMMA DataAlways == Spec => [](Control /\ Data)
<1>1. Init => Control /\ Data
  BY ControlInit, DataInit
<1>2. Control /\ Data /\ [Next]_vars => (Control /\ Data)'
  BY ControlNext, DataNext
<1> QED
  BY <1>1, <1>2, PTL DEF Spec

\* The types (TypeOK): whoever writes meanwhile, the flags stay 0, 1 or 2 (which
\* stands for any value above), car_init clears the eight flags and nothing
\* behind them, and what internal computes for the next level fits its uint8_t.
THEOREM TypeCorrect == Spec => []TypeOK
<1>1. Control /\ Data => TypeOK
  <2> SUFFICES ASSUME Control, Data PROVE TypeOK
    OBVIOUS
  <2>1. /\ link \in {NoObject, Object} /\ sized \in BOOLEAN
        /\ flags \in [FlagNames -> 0 .. 2]
        /\ status \in Statuses \cup {Nonsense}
        /\ current_floor \in Floor \cup {NoFloor}
        /\ destination_floor \in [B : {0, 1}, level : 0 .. 999]
    BY DEF Data, Memory
  <2>2. /\ mutex \in {Free, Destroyed, "run", "safety"}
        /\ pc["main"] \in MainLabels /\ pc["tcp"] \in TcpLabels
        /\ pc["run"] \in RunLabels /\ pc["safety"] \in SafetyLabels
        /\ early \in BOOLEAN
    BY DEF Control, Counters, Owned
  <2>3. /\ cleared \in 0 .. 8 /\ seen \in 0 .. 2
        /\ listening \in BOOLEAN /\ pressed \in 0 .. Presses
        /\ match \in MatchCases
    BY DEF Data, Clearing, Locals
  <2>4. /\ lift.at \in {"idle", "floor", "ground", "write"}
        /\ lift.operation \in {"", "up", "down"}
        /\ lift.from \in Floor \cup {NoFloor}
        /\ lift.next \in [B : {0, 1}, level : 0 .. 255]
    BY DEF Data, LiftType
  <2> QED
    BY <2>1, <2>2, <2>3, <2>4 DEF TypeOK, MainLabels, TcpLabels, RunLabels, SafetyLabels
<1> QED
  BY DataAlways, <1>1, PTL

-----------------------------------------------------------------------------
(* safety's pass *)

\* The ifs of safety_ctrl that lie behind it.
Behind(at) ==
    CASE at = "obstruction" -> {"heartbeat"}
      [] at = "stop" -> {"heartbeat", "obstruction"}
      [] at = "overload" -> {"heartbeat", "obstruction", "stop"}
      [] at \in {"consistency", "unlock"} ->
             {"heartbeat", "obstruction", "stop", "overload"}
      [] OTHER -> {}

\* What each has left behind, and nobody can undo while safety has the mutex.
Pass ==
    ~early /\ mutex = "safety" =>
        /\ "heartbeat" \in Behind(pc["safety"]) => flags["safety_system"] = 1
        /\ "stop" \in Behind(pc["safety"]) =>
              flags["emergency_stop"] = 0 \/ flags["emergency_mode"] # 0
        /\ "overload" \in Behind(pc["safety"]) =>
              flags["overload"] = 0 \/ flags["emergency_mode"] # 0

LEMMA BehindWhat ==
    /\ Behind("obstruction") = {"heartbeat"}
    /\ Behind("stop") = {"heartbeat", "obstruction"}
    /\ Behind("overload") = {"heartbeat", "obstruction", "stop"}
    /\ Behind("consistency") = {"heartbeat", "obstruction", "stop", "overload"}
    /\ Behind("unlock") = {"heartbeat", "obstruction", "stop", "overload"}
    /\ \A at \in SafetyLabels \ {"obstruction", "stop", "overload", "consistency", "unlock"} :
          Behind(at) = {}
  BY DEF Behind, SafetyLabels

LEMMA PassKept ==
    ASSUME Pass, UNCHANGED early,
           mutex' = "safety" => mutex = "safety",
           \A f \in FlagNames \ Buttons : flags'[f] = flags[f],
           pc'["safety"] = pc["safety"]
    PROVE  Pass'
<1>1. /\ flags'["safety_system"] = flags["safety_system"]
      /\ flags'["emergency_stop"] = flags["emergency_stop"]
      /\ flags'["emergency_mode"] = flags["emergency_mode"]
      /\ flags'["overload"] = flags["overload"]
  BY FlagList DEF Buttons
<1> QED
  BY <1>1 DEF Pass

LEMMA PassElsewhere ==
    ASSUME pc'["safety"] \in SafetyLabels,
           pc'["safety"] \notin {"obstruction", "stop", "overload", "consistency", "unlock"}
    PROVE  Pass'
  BY BehindWhat DEF Pass

LEMMA PassSafety ==
    ASSUME Control, Data, Pass, Safety
    PROVE  Pass'
<1> USE DEF Threads
<1>0. /\ pc \in [Threads -> Labels]
      /\ pc["safety"] \in SafetyLabels /\ pc'["safety"] \in SafetyLabels
  BY CarSafetyControl DEF Control, Counters
<1>1. CASE SafetyOpen \/ SafetyLock \/ SafetyFault \/ SafetyWait \/ Relock("safety")
           \/ SafetyTriggered \/ SafetyUnlock
  <2>1. pc'["safety"] \in {"lock", "failed", "check", "killed", "asleep", "heartbeat", "done"}
    BY <1>0, <1>1 DEF SafetyOpen, SafetyLock, SafetyFault, SafetyWait, Relock,
       SafetyTriggered, SafetyUnlock, Goto
  <2> QED
    BY <1>0, <2>1, PassElsewhere
<1>2. ASSUME NEW from \in SafetyInside, NEW to, NEW c, NEW d, SafetyStep(from, to, c, d)
      PROVE  /\ pc["safety"] = from /\ pc'["safety"] = to
             /\ UNCHANGED <<mutex, early>>
             /\ flags' = IF c
                         THEN [f \in FlagNames |-> IF f \in DOMAIN d THEN d[f] ELSE flags[f]]
                         ELSE flags
  <2>1. pc["safety"] = from /\ from # "asleep" /\ UNCHANGED <<mutex, early>>
    BY <1>2 DEF SafetyStep, SafetyInside, rest
  <2>2. Signal("safety", to) \/ pc' = [pc EXCEPT !["safety"] = to]
    BY <1>2 DEF SafetyStep
  <2>3. pc'["safety"] = to
    BY <1>0, <2>1, <2>2 DEF Signal, Asleep
  <2> QED
    BY <1>2, <2>1, <2>3 DEF SafetyStep
<1> SUFFICES ASSUME ~early', mutex' = "safety",
                    \/ SafetyHeartbeat \/ SafetyObstruction \/ SafetyStop \/ SafetyOverload
                    \/ SafetyConsistency
             PROVE  Pass'
  BY <1>1 DEF Safety, Pass
<1> USE DEF SafetyInside
<1>3. flags \in [FlagNames -> 0 .. 2]
  BY DEF Data, Memory
<1>4. CASE SafetyHeartbeat
  <2> DEFINE d == [safety_system |-> 1]
             c == flags["safety_system"] # 1
  <2>0. SafetyStep("heartbeat", "obstruction", c, d)
    BY <1>4 DEF SafetyHeartbeat
  <2> HIDE DEF c, d
  <2>1. /\ pc'["safety"] = "obstruction"
        /\ flags' = IF c THEN [f \in FlagNames |-> IF f \in DOMAIN d THEN d[f] ELSE flags[f]]
                         ELSE flags
    BY <1>2, <2>0
  <2> USE DEF c, d
  <2>2. flags'["safety_system"] = 1
    BY <2>1, FlagList
  <2> QED
    BY <2>1, <2>2, BehindWhat DEF Pass
<1>5. CASE SafetyObstruction
  <2>1. /\ pc["safety"] = "obstruction" /\ pc'["safety"] = "stop"
        /\ UNCHANGED <<mutex, early>>
        /\ flags' = IF Obstructed
                    THEN [f \in FlagNames |-> IF f \in DOMAIN <<>> THEN <<>>[f] ELSE flags[f]]
                    ELSE flags
    BY <1>2, <1>5 DEF SafetyObstruction
  <2>2. flags' = flags
    BY <1>3, <2>1
  <2> QED
    BY <2>1, <2>2, BehindWhat DEF Pass
<1>6. CASE SafetyStop
  <2> DEFINE d == [emergency_mode |-> 1, emergency_stop |-> 0]
             c == flags["emergency_stop"] # 0 /\ flags["emergency_mode"] = 0
  <2>0. SafetyStep("stop", "overload", c, d)
    BY <1>6 DEF SafetyStop
  <2> HIDE DEF c, d
  <2>1. /\ pc["safety"] = "stop" /\ pc'["safety"] = "overload"
        /\ UNCHANGED <<mutex, early>>
        /\ flags' = IF c THEN [f \in FlagNames |-> IF f \in DOMAIN d THEN d[f] ELSE flags[f]]
                         ELSE flags
    BY <1>2, <2>0
  <2> USE DEF c, d
  <2>2. flags'["emergency_stop"] = 0 \/ flags'["emergency_mode"] # 0
    BY <1>3, <2>1, FlagList
  <2>3. flags'["safety_system"] = flags["safety_system"]
    BY <2>1, FlagList
  <2> QED
    BY <2>1, <2>2, <2>3, BehindWhat DEF Pass
<1>7. CASE SafetyOverload \/ SafetyConsistency
  <2> DEFINE d == [emergency_mode |-> 1]
  <2>1. /\ \/ SafetyOverload /\ pc["safety"] = "overload" /\ pc'["safety"] = "consistency"
           \/ SafetyConsistency /\ pc["safety"] = "consistency" /\ pc'["safety"] = "unlock"
        /\ UNCHANGED <<mutex, early>>
        /\ flags' \in {flags, [f \in FlagNames |-> IF f \in DOMAIN d THEN d[f] ELSE flags[f]]}
    BY <1>2, <1>7 DEF SafetyOverload, SafetyConsistency
  <2>2. /\ flags'["safety_system"] = flags["safety_system"]
        /\ flags'["emergency_stop"] = flags["emergency_stop"]
        /\ flags'["overload"] = flags["overload"]
        /\ flags["emergency_mode"] # 0 => flags'["emergency_mode"] # 0
    BY <2>1, FlagList
  <2>3. SafetyOverload => flags'["overload"] = 0 \/ flags'["emergency_mode"] # 0
    <3> SUFFICES ASSUME SafetyOverload
                 PROVE  flags'["overload"] = 0 \/ flags'["emergency_mode"] # 0
      OBVIOUS
    <3>1. flags' = IF flags["overload"] # 0 /\ flags["emergency_mode"] = 0
                   THEN [f \in FlagNames |-> IF f \in DOMAIN d THEN d[f] ELSE flags[f]]
                   ELSE flags
      BY <1>2 DEF SafetyOverload
    <3> QED
      BY <1>3, <3>1, FlagList
  <2> QED
    BY <2>1, <2>2, <2>3, BehindWhat DEF Pass
<1> QED
  BY <1>4, <1>5, <1>6, <1>7

LEMMA PassNext ==
    ASSUME Control, Data, Pass, [Next]_vars
    PROVE  Pass'
<1> USE DEF Threads
<1>0. pc \in [Threads -> Labels]
  BY DEF Control, Counters
<1>1. CASE Open \/ Truncate \/ Map \/ InitMutex \/ InitCond \/ ClearFlag
           \/ SetFloorsAndStatus \/ SpawnThreads
  <2>1. pc["main"] \in SettingUp /\ UNCHANGED early
    BY <1>1 DEF Open, Truncate, Map, InitMutex, InitCond, ClearFlag, SetFloorsAndStatus,
       SpawnThreads, Goto, SettingUp, rest
  <2>2. CASE early
    BY <2>1, <2>2 DEF Pass
  <2>3. CASE ~early
    <3>1. pc["safety"] = "start"
      BY <2>1, <2>3 DEF Control, Order
    <3>2. pc'["safety"] = "start"
      BY <1>0, <1>1, <3>1 DEF Open, Truncate, Map, InitMutex, InitCond, ClearFlag,
         SetFloorsAndStatus, SpawnThreads, Goto, Asleep
    <3> QED
      BY <3>2, PassElsewhere DEF SafetyLabels
  <2> QED
    BY <2>2, <2>3
<1>2. CASE Join \/ DestroyMutex \/ UnmapAndUnlink \/ CarTcp \/ ControllerStarts
           \/ Interrupt \/ UNCHANGED vars
  <2>1. /\ UNCHANGED <<early, flags>>
        /\ mutex' = "safety" => mutex = "safety"
    BY <1>2 DEF Join, DestroyMutex, UnmapAndUnlink, CarTcp, Poll, Connect, ControllerStarts,
       Interrupt, vars, memory, rest, Destroyed
  <2>2. pc'["safety"] = pc["safety"]
    BY <1>0, <1>2 DEF Join, DestroyMutex, UnmapAndUnlink, CarTcp, Poll, Connect,
       ControllerStarts, Interrupt, vars, Goto
  <2> QED
    BY <2>1, <2>2, PassKept
<1>3. CASE CarRun
  <2>1. UNCHANGED early
    BY <1>3 DEF CarRun, RunLock, RunWait, Relock, RunHandle, RunUnlock, memory, rest
  <2>2. mutex' = "safety" => mutex = "safety"
    BY <1>3 DEF CarRun, RunLock, RunWait, Relock, RunHandle, RunUnlock, Lock, Unlock, Free
  <2>3. \A f \in FlagNames \ Buttons : flags'[f] = flags[f]
    BY <1>3 DEF CarRun, RunLock, RunWait, Relock, RunHandle, RunUnlock, memory
  <2>4. pc'["safety"] \in {pc["safety"], "woken"}
    <3>1. CASE RunHandle
      BY <1>0, <3>1 DEF RunHandle, Signal
    <3> QED
      BY <1>0, <1>3, <3>1 DEF CarRun, RunLock, RunWait, Relock, RunUnlock, Goto
  <2>5. CASE pc'["safety"] = "woken"
    BY <2>5, PassElsewhere DEF SafetyLabels
  <2> QED
    BY <2>1, <2>2, <2>3, <2>4, <2>5, PassKept
<1>4. CASE Others
  <2>1. CASE mutex \in {Free, Destroyed}
    <3>1. UNCHANGED mutex
      BY <1>4 DEF Others, Internal, InternalMoves, InternalFloor,
       MovePastGround, WriteDestination, TestWrites, TestResets, TestSets, Test
    <3> QED
      BY <2>1, <3>1 DEF Pass, Free, Destroyed
  <2>2. CASE InternalFloor \/ \E op \in {"up", "down"} : InternalMoves(op)
    BY <2>2, PassKept DEF InternalFloor, InternalMoves, memory
  <2> QED
    BY <1>4, <2>1, <2>2 DEF Others, Internal, MovePastGround, WriteDestination, TestWrites,
       TestResets, TestSets, Test
<1>5. ASSUME NEW t \in Threads, SpuriousWakeup(t)
      PROVE  Pass'
  <2>1. UNCHANGED <<early, flags, mutex>>
        /\ pc'["safety"] \in {pc["safety"], "woken"}
    BY <1>0, <1>5 DEF SpuriousWakeup, Goto, memory, rest
  <2>2. CASE pc'["safety"] = "woken"
    BY <2>2, PassElsewhere DEF SafetyLabels
  <2> QED
    BY <2>1, <2>2, PassKept
<1> QED
  BY <1>1, <1>2, <1>3, <1>4, <1>5, PassSafety DEF Next, CarMain

\* safety's pass (SafetyPassComplete): when a safety that came in time is about
\* to unlock, the heartbeat is 1 and no stop or overload is pending without
\* emergency mode, whatever the others wrote before it locked and try to write
\* while it is inside.
THEOREM PassComplete == Spec => []SafetyPassComplete
<1>1. Init => Pass
  <2> SUFFICES ASSUME Init PROVE Pass
    OBVIOUS
  <2>1. mutex = Free
    BY DEF Init
  <2> QED
    BY <2>1 DEF Pass, Free
<1>2. Control /\ Data /\ Pass /\ [Next]_vars => Pass'
  BY PassNext
<1>3. Pass => SafetyPassComplete
  <2> SUFFICES ASSUME Pass, ~early, pc["safety"] = "unlock", mutex = "safety"
               PROVE  /\ flags["safety_system"] = 1
                      /\ flags["emergency_stop"] = 0 \/ flags["emergency_mode"] # 0
                      /\ flags["overload"] = 0 \/ flags["emergency_mode"] # 0
    BY DEF SafetyPassComplete
  <2> QED
    BY BehindWhat DEF Pass
<1> QED
  BY <1>1, <1>2, <1>3, DataAlways, PTL DEF Spec

-----------------------------------------------------------------------------
(* internal's up and down *)

\* The level is the one computed from the floor that was read, whatever the car's
\* floor is meanwhile, and down has refused when it is above 99.
LiftRight ==
    lift.at # "idle" =>
        /\ lift.operation \in {"up", "down"}
        /\ lift.at # "floor" =>
              /\ lift.next = Moved(lift.operation, lift.from)
              /\ lift.operation = "down" => lift.next.level <= 99

\* Arithmetic in a uint8_t, below the wrap and at it.
LEMMA Wraps ==
    ASSUME NEW n \in 0 .. 254
    PROVE  /\ ((n % 256) + 1) % 256 = n + 1
           /\ n > 0 => ((n % 256) + 255) % 256 = n - 1
           /\ n = 0 => ((n % 256) + 255) % 256 = 255
<1>1. n % 256 = n
  OBVIOUS
<1>2. (n + 1) % 256 = n + 1
  OBVIOUS
<1>3. n > 0 => (n + 255) % 256 = n - 1
  OBVIOUS
<1> QED
  BY <1>1, <1>2, <1>3

\* Below 255 a move that does not cross the ground goes to the neighbour, one that
\* does ends on level 0; and a uint8_t holds no neighbour of a floor above 254
\* but 255 for 256, from where down refuses.
LEMMA MovedRight ==
    ASSUME NEW op \in {"up", "down"}, NEW f \in Floor,
           op = "down" => Moved(op, f).level <= 99
    PROVE  Moved(op, f) \in Neighbours(op, f) <=> f.level <= 254 /\ ~CrossesGround(op, f)
<1>1. f.B \in {0, 1} /\ f.level \in 1 .. 999 /\ (f.B = 1 => f.level <= 99)
  BY DEF Floor
<1> DEFINE b == f.B
           n == f.level
           away == (op = "up") = (b = 0)
           height(g) == IF g.B = 1 THEN 1 - g.level ELSE g.level
           next == Moved(op, f)
<1>2. next \in [B : {0, 1}, level : 0 .. 255] /\ next.B = b
  <2>1. f \in [B : {0, 1}, level : 0 .. 999]
    BY FloorTypes
  <2>2. next \in [B : {0, 1}, level : 0 .. 255]
    BY <2>1, MovedType
  <2>3. next.B = b
    BY DEF Moved
  <2> QED
    BY <2>2, <2>3
<1>3. next \in Neighbours(op, f) <=>
        /\ next \in Floor
        /\ height(next) = IF op = "up" THEN height(f) + 1 ELSE height(f) - 1
  BY DEF Neighbours
<1>4. ASSUME n <= 254
      PROVE  next = [B |-> b, level |-> IF away THEN n + 1 ELSE n - 1]
  <2>1. n \in 0 .. 254 /\ n > 0
    BY <1>1, <1>4
  <2>2. CASE away
    <3>1. next = [B |-> b, level |-> ((n % 256) + 1) % 256]
      BY <2>2 DEF Moved
    <3> QED
      BY <2>1, <2>2, <3>1, Wraps
  <2>3. CASE ~away
    <3>1. next = [B |-> b, level |-> ((n % 256) + 255) % 256]
      BY <2>3 DEF Moved
    <3> QED
      BY <2>1, <2>3, <3>1, Wraps
  <2> QED
    BY <2>2, <2>3
<1> HIDE DEF next
<1>5. CASE n > 254
  <2>1. b = 0 /\ height(f) = n
    BY <1>1, <1>5
  <2>2. next.level \in 0 .. 255 /\ height(next) = next.level
    BY <1>2, <2>1
  <2>3. op = "down" => next.level <= 99
    BY DEF next
  <2>4. height(next) # IF op = "up" THEN height(f) + 1 ELSE height(f) - 1
    <3>1. CASE op = "up"
      <4>1. next.level # n + 1
        <5>1. n \in 255 .. 999
          BY <1>1, <1>5
        <5> HIDE DEF n
        <5> QED
          BY <5>1, <2>2
      <4> QED
        BY <2>1, <2>2, <3>1, <4>1
    <3>2. CASE op = "down"
      <4>1. next.level # n - 1
        BY <1>1, <1>5, <2>2, <2>3, <3>2
      <4> QED
        BY <2>1, <2>2, <3>2, <4>1
    <3> QED
      BY <3>1, <3>2
  <2>5. next \notin Neighbours(op, f)
    BY <1>3, <2>4
  <2>6. ~(f.level <= 254)
    BY <1>1, <1>5
  <2> QED
    BY <2>5, <2>6 DEF next
<1>6. CASE n <= 254 /\ CrossesGround(op, f)
  <2>1. n = 1 /\ ~away
    BY <1>1, <1>6 DEF CrossesGround
  <2>2. next.level = 0
    BY <1>4, <1>6, <2>1
  <2>3. next \notin Floor
    BY <2>2 DEF Floor
  <2> QED
    BY <1>3, <1>6, <2>3 DEF next
<1>7. CASE n <= 254 /\ ~CrossesGround(op, f)
  <2>1. next.B = b /\ next.level = IF away THEN n + 1 ELSE n - 1
    BY <1>4, <1>7
  <2>2. ~away => n > 1
    BY <1>1, <1>7 DEF CrossesGround
  <2>3. height(next) = IF op = "up" THEN height(f) + 1 ELSE height(f) - 1
    BY <1>1, <2>1
  <2>4. next.level \in 1 .. 255 /\ (b = 1 => next.level <= 99)
    <3>1. next.level \in 1 .. 255
      BY <1>1, <1>7, <2>1, <2>2
    <3>2. op = "down" => next.level <= 99
      BY DEF next
    <3> QED
      BY <1>1, <2>1, <3>1, <3>2
  <2>5. next \in Floor
    <3>1. next = [B |-> b, level |-> next.level]
      BY <1>2
    <3> QED
      BY <1>1, <2>4, <3>1 DEF Floor
  <2> QED
    BY <1>3, <1>7, <2>3, <2>5 DEF next
<1> QED
  BY <1>1, <1>5, <1>6, <1>7

LEMMA LiftNext ==
    ASSUME Data, LiftRight, [Next]_vars
    PROVE  LiftRight'
<1>0. lift \in [at : {"idle", "floor", "ground", "write"}, operation : {"", "up", "down"},
                from : Floor \cup {NoFloor}, next : [B : {0, 1}, level : 0 .. 255]]
  BY DEF Data, LiftType
<1>1. CASE UNCHANGED lift
  BY <1>1 DEF LiftRight, Moved
<1>2. ASSUME NEW op \in {"up", "down"}, InternalMoves(op)
      PROVE  LiftRight'
  <2>1. \/ lift' = Idle
        \/ lift' = [at |-> "floor", operation |-> op, from |-> NoFloor, next |-> NoFloor]
    BY <1>2 DEF InternalMoves
  <2>2. \/ lift'.at = "idle"
        \/ lift'.at = "floor" /\ lift'.operation = op
    <3>1. CASE lift' = Idle
      BY <3>1 DEF Idle
    <3>2. CASE lift' = [at |-> "floor", operation |-> op, from |-> NoFloor, next |-> NoFloor]
      BY <3>2
    <3> QED
      BY <2>1, <3>1, <3>2
  <2> QED
    BY <1>2, <2>2 DEF LiftRight
<1>3. CASE InternalFloor
  <2> DEFINE next == Moved(lift.operation, current_floor)
  <2>1. lift.operation \in {"up", "down"}
    BY <1>3 DEF InternalFloor, LiftRight
  <2>2. \/ lift' = Idle
        \/ /\ lift.operation = "down" => next.level <= 99
           /\ \E a \in {"ground", "write"} :
                lift' = [at |-> a, operation |-> lift.operation, from |-> current_floor,
                         next |-> next]
    <3>1. current_floor \in [B : {0, 1}, level : 0 .. 999]
      BY FloorTypes DEF Data, Memory
    <3>2. next \in [B : {0, 1}, level : 0 .. 255]
      BY <3>1, MovedType
    <3>3. next.level \in 0 .. 255
      BY <3>2
    <3> QED
      BY <1>3, <3>3 DEF InternalFloor
  <2>3. CASE lift' = Idle
    BY <2>3 DEF Idle, LiftRight
  <2>4. CASE lift' # Idle
    <3>1. /\ lift'.operation = lift.operation /\ lift'.from = current_floor
          /\ lift'.next = next
      <4>1. PICK a \in {"ground", "write"} :
              lift' = [at |-> a, operation |-> lift.operation, from |-> current_floor,
                       next |-> next]
        BY <2>2, <2>4
      <4> HIDE DEF next
      <4> QED
        BY <4>1
    <3>2. Moved(lift.operation, lift.from)' = next
      BY <3>1 DEF Moved
    <3> HIDE DEF next
    <3> QED
      BY <2>1, <2>2, <2>4, <3>1, <3>2 DEF LiftRight
  <2> QED
    BY <2>3, <2>4
<1>4. CASE MovePastGround
  <2>1. /\ lift.at = "ground" /\ lift'.operation = lift.operation
        /\ lift'.from = lift.from /\ lift'.next = lift.next
    BY <1>0, <1>4 DEF MovePastGround
  <2> QED
    BY <2>1 DEF LiftRight, Moved
<1>5. CASE WriteDestination
  BY <1>5 DEF WriteDestination, LiftRight, Idle
<1>6. CASE Others
  BY <1>1, <1>2, <1>3, <1>4, <1>5, <1>6, LiftSteps
<1>7. CASE ~Others
  <2>1. UNCHANGED lift
    BY <1>7 DEF Next, CarMain, Open, Truncate, Map, InitMutex, InitCond, ClearFlag,
       SetFloorsAndStatus, SpawnThreads, Join, DestroyMutex, UnmapAndUnlink, CarTcp, Poll,
       Connect, CarRun, RunLock, RunWait, Relock, RunHandle, RunUnlock, Safety, SafetyOpen,
       SafetyLock, SafetyFault, SafetyWait, SafetyTriggered, SafetyHeartbeat,
       SafetyObstruction, SafetyStop, SafetyOverload, SafetyConsistency, SafetyUnlock,
       SafetyStep, ControllerStarts, Interrupt, SpuriousWakeup, vars, rest
  <2> QED
    BY <1>1, <2>1
<1> QED
  BY <1>6, <1>7

\* up and down (MovesOneFloor): where they do not refuse, the destination they
\* leave is the neighbour of the floor they read exactly when the move does not
\* cross the ground and does not start above 254, on every floor and whoever
\* writes between their steps.
THEOREM OneFloorAtATime == Spec => MovesOneFloor
<1> DEFINE Right ==
      WriteDestination /\ lift.from \in Floor =>
         (destination_floor' \in Neighbours(lift.operation, lift.from)
            <=> lift.from.level <= 254 /\ ~CrossesGround(lift.operation, lift.from))
<1>1. Init => LiftRight
  <2> SUFFICES ASSUME Init PROVE LiftRight
    OBVIOUS
  <2>1. lift = Idle
    BY DEF Init
  <2> QED
    BY <2>1 DEF LiftRight, Idle
<1>2. Data /\ LiftRight /\ [Next]_vars => LiftRight'
  BY LiftNext
<1>3. LiftRight => Right
  <2> SUFFICES ASSUME LiftRight, WriteDestination, lift.from \in Floor
               PROVE  destination_floor' \in Neighbours(lift.operation, lift.from)
                        <=> /\ lift.from.level <= 254
                            /\ ~CrossesGround(lift.operation, lift.from)
    OBVIOUS
  <2>1. /\ lift.operation \in {"up", "down"}
        /\ lift.next = Moved(lift.operation, lift.from)
        /\ lift.operation = "down" => Moved(lift.operation, lift.from).level <= 99
        /\ destination_floor' = lift.next
    <3>1. lift.at = "write" /\ destination_floor' = lift.next
      BY DEF WriteDestination
    <3>2. /\ lift.operation \in {"up", "down"}
          /\ lift.next = Moved(lift.operation, lift.from)
          /\ lift.operation = "down" => lift.next.level <= 99
      <4>1. lift.at # "idle" /\ lift.at # "floor"
        BY <3>1
      <4> QED
        BY <4>1, Zenon DEF LiftRight
    <3> QED
      BY <3>1, <3>2
  <2> DEFINE op == lift.operation
             f == lift.from
  <2>2. op \in {"up", "down"} /\ f \in Floor /\ (op = "down" => Moved(op, f).level <= 99)
    BY <2>1
  <2> HIDE DEF op, f
  <2>3. Moved(op, f) \in Neighbours(op, f) <=> f.level <= 254 /\ ~CrossesGround(op, f)
    BY <2>2, MovedRight
  <2> QED
    BY <2>1, <2>3 DEF op, f
<1> HIDE DEF Right
<1>4. Spec => [][Right]_vars
  BY <1>1, <1>2, <1>3, DataAlways, PTL DEF Spec
<1> QED
  BY <1>4 DEF MovesOneFloor, Right
-----------------------------------------------------------------------------
(* What the liveness of PressReset rests on *)

\* The mutex is held by someone who will give it back, or by a car_run that
\* an interrupt ended inside.
HolderInside ==
    /\ mutex = "run" => pc["run"] \in {"check", "unlock", "dead"}
    /\ mutex = "safety" => pc["safety"] \in SafetyInside

\* As compiled, car_run does not sleep through a press.
PressSeen == ~match /\ ButtonDown => pc["run"] # "asleep"

\* The steps that move car_run: its own, being spawned, interrupted or woken.
LEMMA RunMoves ==
    ASSUME Control, [Next]_vars
    PROVE  \/ CarRun
           \/ pc["run"] = "none" /\ pc'["run"] \in {"none", "lock"}
           \/ pc'["run"] \in {pc["run"], "dead"}
           \/ pc["run"] = "asleep" /\ pc'["run"] = "woken"
<1> USE DEF Threads
<1>0. Counters /\ pc \in [Threads -> Labels]
  BY DEF Control, Counters
<1>1. ASSUME Wakes PROVE pc'["run"] = pc["run"] \/ (pc["run"] = "asleep" /\ pc'["run"] = "woken")
  BY <1>1 DEF Wakes
<1>2. CASE CarMain
  <2>1. CASE Join \/ DestroyMutex \/ UnmapAndUnlink
    BY <1>0, <2>1 DEF Join, DestroyMutex, UnmapAndUnlink, Goto
  <2>2. CASE ~(Join \/ DestroyMutex \/ UnmapAndUnlink)
    <3>1. pc["main"] \in SettingUp
      BY <1>2, <2>2 DEF CarMain, Open, Truncate, Map, InitMutex, InitCond, ClearFlag,
         SetFloorsAndStatus, SpawnThreads, Goto, SettingUp
    <3>2. pc["run"] = "none"
      BY <3>1 DEF Control, Order
    <3>3. pc'["run"] \in {"none", "lock"}
      BY <1>0, <1>2, <2>2, <3>2 DEF CarMain, Open, Truncate, Map, InitMutex, InitCond,
         ClearFlag, SetFloorsAndStatus, SpawnThreads, Goto, Asleep
    <3> QED
      BY <3>2, <3>3
  <2> QED
    BY <2>1, <2>2
<1>3. CASE CarTcp \/ ControllerStarts \/ Interrupt \/ UNCHANGED vars
  BY <1>0, <1>3 DEF CarTcp, Poll, Connect, ControllerStarts, Interrupt, vars, Goto
<1>4. CASE Safety
  <2>1. ASSUME NEW from \in SafetyInside, NEW to \in Labels, NEW c, NEW d,
               SafetyStep(from, to, c, d)
        PROVE  Steps("safety", to)
    <3>1. pc["safety"] # "asleep" /\ (Signal("safety", to) \/ pc' = [pc EXCEPT !["safety"] = to])
      BY <2>1 DEF SafetyStep, SafetyInside
    <3> QED
      BY <1>0, <3>1, Signals
  <2>2. CASE SafetyHeartbeat \/ SafetyObstruction \/ SafetyStop \/ SafetyOverload
             \/ SafetyConsistency
    <3>1. \E to \in Labels : Steps("safety", to)
      BY <2>1, <2>2 DEF SafetyHeartbeat, SafetyObstruction, SafetyStop, SafetyOverload,
         SafetyConsistency, SafetyInside, Labels, SafetyLabels
    <3> QED
      BY <3>1, Others4
  <2>3. CASE SafetyOpen \/ SafetyLock \/ SafetyFault \/ SafetyWait \/ Relock("safety")
             \/ SafetyTriggered \/ SafetyUnlock
    BY <1>0, <2>3 DEF SafetyOpen, SafetyLock, SafetyFault, SafetyWait, Relock,
       SafetyTriggered, SafetyUnlock, Goto
  <2> QED
    BY <1>4, <2>2, <2>3 DEF Safety
<1>5. CASE Others
  <2>1. SignalOnly \/ Broadcast \/ UNCHANGED pc
    BY <1>5 DEF Others, Internal, InternalMoves, InternalFloor,
       MovePastGround, WriteDestination, TestWrites, TestResets, TestSets, Test
  <2> QED
    BY <1>0, <1>1, <2>1, SignalsOnly
<1>6. ASSUME NEW t \in Threads, SpuriousWakeup(t)
      PROVE  pc'["run"] = pc["run"] \/ (pc["run"] = "asleep" /\ pc'["run"] = "woken")
  BY <1>0, <1>6 DEF SpuriousWakeup, Goto
<1> QED
  BY <1>2, <1>3, <1>4, <1>5, <1>6 DEF Next

\* The same for safety; a sleeper may be forgotten by an early pthread_cond_init.
LEMMA SafetyMoves ==
    ASSUME Control, [Next]_vars
    PROVE  \/ Safety
           \/ pc'["safety"] = pc["safety"]
           \/ pc["safety"] = "asleep" /\ pc'["safety"] \in {"woken", "lost"}
<1> USE DEF Threads
<1>0. Counters /\ pc \in [Threads -> Labels] /\ pc["main"] # "asleep"
  BY DEF Control, Counters, MainLabels, SettingUp
<1>1. CASE CarMain
  BY <1>0, <1>1 DEF CarMain, Open, Truncate, Map, InitMutex, InitCond, ClearFlag,
     SetFloorsAndStatus, SpawnThreads, Join, DestroyMutex, UnmapAndUnlink, Goto, Asleep
<1>2. CASE CarTcp \/ ControllerStarts \/ Interrupt \/ UNCHANGED vars
  BY <1>0, <1>2 DEF CarTcp, Poll, Connect, ControllerStarts, Interrupt, vars, Goto
<1>3. CASE CarRun
  <2>1. CASE RunHandle
    BY <1>0, <2>1 DEF RunHandle, Signal, Asleep
  <2> QED
    BY <1>0, <1>3, <2>1 DEF CarRun, RunLock, RunWait, Relock, RunUnlock, Goto
<1>4. CASE Others
  <2>1. SignalOnly \/ Broadcast \/ UNCHANGED pc
    BY <1>4 DEF Others, Internal, InternalMoves, InternalFloor,
       MovePastGround, WriteDestination, TestWrites, TestResets, TestSets, Test
  <2>2. Wakes
    BY <1>0, <2>1, SignalsOnly
  <2> QED
    BY <2>2 DEF Wakes
<1>5. ASSUME NEW t \in Threads, SpuriousWakeup(t)
      PROVE  pc'["safety"] = pc["safety"] \/ (pc["safety"] = "asleep" /\ pc'["safety"] = "woken")
  BY <1>0, <1>5 DEF SpuriousWakeup, Goto
<1> QED
  BY <1>1, <1>2, <1>3, <1>4, <1>5 DEF Next

\* Only a thread on its way in takes the mutex.
LEMMA MutexMoves ==
    ASSUME [Next]_vars
    PROVE  \/ mutex' \in {mutex, Free, Destroyed}
           \/ mutex' = "run" /\ (RunLock \/ Relock("run"))
           \/ mutex' = "safety" /\ (SafetyLock \/ Relock("safety"))
<1>1. CASE CarMain
  BY <1>1 DEF CarMain, Open, Truncate, Map, InitMutex, InitCond, ClearFlag,
     SetFloorsAndStatus, SpawnThreads, Join, DestroyMutex, UnmapAndUnlink, rest
<1>2. CASE CarTcp \/ ControllerStarts \/ Interrupt \/ UNCHANGED vars
           \/ \E t \in Threads : SpuriousWakeup(t)
  BY <1>2 DEF CarTcp, Poll, Connect, ControllerStarts, Interrupt, vars, SpuriousWakeup
<1>3. CASE CarRun
  BY <1>3 DEF CarRun, RunLock, RunWait, Relock, RunHandle, RunUnlock, Lock, Unlock
<1>4. CASE Safety
  BY <1>4 DEF Safety, SafetyOpen, SafetyLock, SafetyFault, SafetyWait, Relock,
     SafetyTriggered, SafetyHeartbeat, SafetyObstruction, SafetyStop, SafetyOverload,
     SafetyConsistency, SafetyUnlock, SafetyStep, Lock, Unlock
<1>5. CASE Others
  BY <1>5 DEF Others, Internal, InternalMoves, InternalFloor,
       MovePastGround, WriteDestination, TestWrites, TestResets, TestSets, Test
<1> QED
  BY <1>1, <1>2, <1>3, <1>4, <1>5 DEF Next

LEMMA HolderNext ==
    ASSUME Control, HolderInside, [Next]_vars
    PROVE  HolderInside'
<1> USE DEF Threads
<1>0. Counters /\ pc \in [Threads -> Labels]
  BY DEF Control, Counters
<1>1. ASSUME mutex' = "run" PROVE pc'["run"] \in {"check", "unlock", "dead"}
  <2>1. CASE RunLock \/ Relock("run")
    BY <1>0, <2>1 DEF RunLock, Relock, Goto
  <2>2. CASE ~(RunLock \/ Relock("run"))
    <3>1. mutex = "run"
      BY <1>1, <2>2, MutexMoves DEF Free, Destroyed
    <3>2. pc["run"] \in {"check", "unlock", "dead"}
      BY <3>1 DEF HolderInside
    <3>3. CASE CarRun
      <4>1. CASE RunWait \/ RunUnlock
        BY <1>1, <4>1 DEF RunWait, RunUnlock, Unlock, Free, Destroyed
      <4>2. CASE RunHandle
        BY <1>0, <4>2 DEF RunHandle, Signal, Asleep
      <4> QED
        BY <2>2, <3>3, <4>1, <4>2 DEF CarRun
    <3> QED
      BY <3>2, <3>3, RunMoves
  <2> QED
    BY <2>1, <2>2
<1>2. ASSUME mutex' = "safety" PROVE pc'["safety"] \in SafetyInside
  <2>1. CASE SafetyLock \/ Relock("safety")
    BY <1>0, <2>1 DEF SafetyLock, Relock, Goto, SafetyInside
  <2>2. CASE ~(SafetyLock \/ Relock("safety"))
    <3>1. mutex = "safety"
      BY <1>2, <2>2, MutexMoves DEF Free, Destroyed
    <3>2. pc["safety"] \in SafetyInside
      BY <3>1 DEF HolderInside
    <3>3. CASE Safety
      <4>1. CASE SafetyWait \/ SafetyUnlock
        BY <1>2, <4>1 DEF SafetyWait, SafetyUnlock, Unlock, Free, Destroyed
      <4>2. CASE SafetyOpen \/ SafetyFault
        BY <3>2, <4>2 DEF SafetyOpen, SafetyFault, Goto, SafetyInside
      <4>3. CASE SafetyTriggered
        BY <1>0, <4>3 DEF SafetyTriggered, Goto, SafetyInside
      <4>4. ASSUME NEW from, NEW to \in SafetyInside, NEW c, NEW d,
                   SafetyStep(from, to, c, d)
            PROVE  pc'["safety"] \in SafetyInside
        BY <1>0, <3>2, <4>4 DEF SafetyStep, Signal, Asleep, SafetyInside
      <4>5. CASE SafetyHeartbeat \/ SafetyObstruction \/ SafetyStop \/ SafetyOverload
                 \/ SafetyConsistency
        BY <4>4, <4>5 DEF SafetyHeartbeat, SafetyObstruction, SafetyStop, SafetyOverload,
           SafetyConsistency, SafetyInside
      <4> QED
        BY <2>2, <3>3, <4>1, <4>2, <4>3, <4>5 DEF Safety
    <3> QED
      BY <3>2, <3>3, SafetyMoves DEF SafetyInside
  <2> QED
    BY <2>1, <2>2
<1> QED
  BY <1>1, <1>2 DEF HolderInside

LEMMA PressSeenNext ==
    ASSUME Control, Data, PressSeen, [Next]_vars
    PROVE  PressSeen'
<1> SUFFICES ASSUME ~match', pc'["run"] = "asleep" PROVE ~ButtonDown'
  BY DEF PressSeen
<1> USE DEF Threads
<1>0. pc \in [Threads -> Labels] /\ {"open_button", "close_button"} \subseteq FlagNames
  BY FlagList DEF Control, Counters
<1>1. UNCHANGED match
  BY DEF Next, CarMain, Open, Truncate, Map, InitMutex, InitCond, ClearFlag,
     SetFloorsAndStatus, SpawnThreads, Join, DestroyMutex, UnmapAndUnlink, CarTcp, Poll,
     Connect, CarRun, RunLock, RunWait, Relock, RunHandle, RunUnlock, Safety, SafetyOpen,
     SafetyLock, SafetyFault, SafetyWait, SafetyTriggered, SafetyHeartbeat,
     SafetyObstruction, SafetyStop, SafetyOverload, SafetyConsistency, SafetyUnlock,
     SafetyStep, Others, Internal, InternalMoves, InternalFloor,
       MovePastGround, WriteDestination, TestWrites, TestResets, TestSets, Test, ControllerStarts, Interrupt, SpuriousWakeup, vars, rest
<1>2. CASE RunWait
  BY <1>2 DEF RunWait, ButtonDown, memory
<1>3. CASE ~RunWait
  <2>1. pc["run"] = "asleep"
    <3>1. CASE CarRun
      <4>1. CASE RunHandle
        BY <1>0, <4>1 DEF RunHandle, Signal, Asleep
      <4> QED
        BY <1>0, <1>3, <3>1, <4>1 DEF CarRun, RunLock, Relock, RunUnlock, Goto
    <3> QED
      BY <3>1, RunMoves
  <2>2. ~ButtonDown
    BY <1>1, <2>1 DEF PressSeen
  <2>3. pc["main"] \notin SettingUp
    BY <2>1 DEF Control, Order
  <2>4. CASE UNCHANGED flags
    BY <2>2, <2>4 DEF ButtonDown
  <2>5. CASE Safety
    <3>1. ASSUME NEW from, NEW to, NEW c, NEW d, SafetyStep(from, to, c, d),
                 DOMAIN d \cap Buttons = {}
          PROVE  ~ButtonDown'
      BY <1>0, <2>2, <3>1 DEF SafetyStep, ButtonDown, Buttons
    <3>2. CASE SafetyHeartbeat \/ SafetyStop \/ SafetyOverload \/ SafetyConsistency
      BY <3>1, <3>2 DEF SafetyHeartbeat, SafetyStop, SafetyOverload, SafetyConsistency,
         Buttons
    <3>3. CASE SafetyObstruction
      <4>1. DOMAIN <<>> \cap Buttons = {}
        OBVIOUS
      <4> QED
        BY <3>1, <3>3, <4>1 DEF SafetyObstruction
    <3> QED
      BY <2>4, <2>5, <3>2, <3>3 DEF Safety, SafetyOpen, SafetyLock, SafetyFault, SafetyWait,
         Relock, SafetyTriggered, SafetyUnlock, memory
  <2>6. CASE CarRun
    BY <1>0, <1>3, <2>1, <2>6 DEF CarRun, RunLock, Relock, RunHandle, RunUnlock, Goto
  <2>7. CASE Others
    <3>1. ASSUME NEW w \in TestFlags, TestWrites(w) PROVE FALSE
      BY <1>0, <2>1, <3>1 DEF TestWrites, Broadcast
    <3>2. CASE TestResets
      BY <1>0, <3>2 DEF TestResets, ButtonDown, Buttons
    <3>3. CASE ~(TestResets \/ \E w \in TestFlags : TestWrites(w))
      BY <1>1, <2>4, <2>7, <3>3 DEF Others, Internal, InternalMoves, InternalFloor,
         MovePastGround, WriteDestination, TestSets, memory
    <3> QED
      BY <3>1, <3>2, <3>3
  <2>8. CASE CarMain
    BY <2>3, <2>4, <2>8 DEF CarMain, Open, Truncate, Map, InitMutex, InitCond, ClearFlag,
       SetFloorsAndStatus, SpawnThreads, Join, DestroyMutex, UnmapAndUnlink, Goto,
       SettingUp, memory
  <2>9. CASE CarTcp \/ ControllerStarts \/ Interrupt \/ UNCHANGED vars
             \/ \E t \in Threads : SpuriousWakeup(t)
    BY <2>4, <2>9 DEF CarTcp, Poll, Connect, ControllerStarts, Interrupt, vars,
       SpuriousWakeup, memory
  <2> QED
    BY <2>5, <2>6, <2>7, <2>8, <2>9 DEF Next
<1> QED
  BY <1>2, <1>3

\* What PressReset says of single states.  While a press waits for car_run,
\* car_run is not asleep, and the mutex it needs is free, its own, or held by a
\* safety that is inside and will unlock: never by a thread that ended or sleeps.
THEOREM PressOnItsWay ==
    Spec => [](~match /\ pc["run"] \in {"lock", "check", "asleep", "woken"} /\ ButtonDown =>
                  /\ pc["run"] # "asleep"
                  /\ \/ mutex = Free
                     \/ mutex = "run" /\ pc["run"] = "check"
                     \/ mutex = "safety" /\ pc["safety"] \in SafetyInside)
<1> DEFINE OnItsWay ==
      ~match /\ pc["run"] \in {"lock", "check", "asleep", "woken"} /\ ButtonDown =>
         /\ pc["run"] # "asleep"
         /\ \/ mutex = Free
            \/ mutex = "run" /\ pc["run"] = "check"
            \/ mutex = "safety" /\ pc["safety"] \in SafetyInside
<1>1. Init => HolderInside /\ PressSeen
  BY DEF Init, HolderInside, PressSeen, Threads, Free
<1>2. Control /\ Data /\ HolderInside /\ PressSeen /\ [Next]_vars
         => HolderInside' /\ PressSeen'
  BY HolderNext, PressSeenNext
<1>3. Control /\ HolderInside /\ PressSeen => OnItsWay
  BY DEF Control, Owned, HolderInside, PressSeen
<1> HIDE DEF OnItsWay
<1>4. Spec => []OnItsWay
  BY <1>1, <1>2, <1>3, DataAlways, PTL DEF Spec
<1> QED
  BY <1>4 DEF OnItsWay

=============================================================================
