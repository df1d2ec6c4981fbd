----------------------------- MODULE TaskProofs -----------------------------
(***************************************************************************)
(* Proofs about the scheduler, for a task table of any size, a time slice  *)
(* of any length and any set of processes.                                 *)
(***************************************************************************)
EXTENDS Task, WellFoundedInduction, TLAPS

\* A non-empty set of naturals has a least element: what makes the scans of
\* find_free_slot and pick_next_runnable return a slot.
LEMMA LeastExists ==
  ASSUME NEW S, S \subseteq Nat, S # {}
  PROVE  \E x \in S : \A y \in S : x <= y
<1> DEFINE R == OpToRel(<, Nat)
<1>1. IsWellFoundedOn(R, Nat)
  BY NatLessThanWellFounded, Zenon
<1>2. \E x \in S : \A y \in S : ~(<<y, x>> \in R)
  <2> HIDE DEF R
  <2> QED BY <1>1, WFMin, Zenon
<1>3. \A x, y \in Nat : <<y, x>> \in R <=> y < x
  BY DEF OpToRel
<1>4. PICK x \in S : \A y \in S : ~(<<y, x>> \in R)
  BY <1>2, Zenon
<1>5. ASSUME NEW y \in S PROVE x <= y
  <2>1. x \in Nat /\ y \in Nat
    OBVIOUS
  <2>2. ~(y < x)
    <3> HIDE DEF R
    <3> QED BY <1>3, <1>4, <2>1, Zenon
  <2> QED BY <2>1, <2>2
<1> QED BY <1>5

\* The scan of pick_next_runnable returns a ready task whenever the idle task
\* is ready.
LEMMA PickIsReady ==
  ASSUME NEW ts \in [Tids -> TaskRecord], NEW cur \in Tids \cup {-1},
         Ready(ts[IDLE])
  PROVE  /\ pick_next_runnable(ts, cur) \in Tids
         /\ Ready(ts[pick_next_runnable(ts, cur)])
<1> DEFINE ready == {i \in Tids : Ready(ts[i])}
           D == {ScanDistance(cur, i) : i \in ready}
<1>1. IDLE \in ready
  BY TaskAssumption DEF Tids, IDLE
<1>2. D \subseteq Nat /\ D # {}
  BY <1>1, TaskAssumption DEF ScanDistance, Tids
<1>3. PICK d \in D : \A e \in D : d <= e
  <2> HIDE DEF D
  <2> QED BY <1>2, LeastExists, Zenon
<1>4. \E i \in ready : \A j \in ready : ScanDistance(cur, i) <= ScanDistance(cur, j)
  BY <1>3
<1>5. pick_next_runnable(ts, cur) \in ready
  BY <1>1, <1>4 DEF pick_next_runnable
<1> QED BY <1>5

\* What a context switch does to the task table.
LEMMA SwitchEffect ==
  ASSUME NEW ts \in [Tids -> TaskRecord], NEW cur \in Tids \cup {-1},
         Ready(ts[IDLE])
  PROVE  LET s == SwitchFrom(ts, cur)
         IN  /\ s.current \in Tids
             /\ s.tasks \in [Tids -> TaskRecord]
             /\ Ready(ts[s.current])
             /\ \A i \in Tids :
                  /\ s.tasks[i].state =
                       IF i = s.current THEN "RUNNING"
                       ELSE IF i = cur /\ ts[i].state = "RUNNING" THEN "RUNNABLE"
                       ELSE ts[i].state
                  /\ s.tasks[i].pid = ts[i].pid
                  /\ s.tasks[i].is_user = ts[i].is_user
                  /\ s.tasks[i].address_space = ts[i].address_space
                  /\ s.tasks[i].kernel_stack = ts[i].kernel_stack
<1> DEFINE saved == IF cur >= 0 /\ ts[cur].state = "RUNNING"
                    THEN SetState(ts, cur, "RUNNABLE") ELSE ts
           next == pick_next_runnable(saved, cur)
           s == SwitchFrom(ts, cur)
<1>1. saved \in [Tids -> TaskRecord]
  BY TaskAssumption DEF SetState, TaskRecord, TaskState, Tids
<1>2. \A i \in Tids : Ready(saved[i]) <=> Ready(ts[i])
  BY TaskAssumption DEF SetState, Ready, TaskRecord, TaskState, Tids
<1>3. IDLE \in Tids
  BY TaskAssumption DEF Tids, IDLE
<1>4. next \in Tids /\ Ready(saved[next])
  <2> HIDE DEF saved
  <2> QED BY <1>1, <1>2, <1>3, PickIsReady
<1>5. s.current = next /\ s.tasks = SetState(saved, next, "RUNNING")
  BY <1>4, TaskAssumption DEF SwitchFrom, Tids
<1>6. s.tasks \in [Tids -> TaskRecord]
  <2> HIDE DEF saved, next, s
  <2> QED BY ONLY <1>1, <1>4, <1>5, SMTT(60) DEF SetState, TaskRecord, TaskState
<1>7. ASSUME NEW i \in Tids
      PROVE  /\ saved[i].state = IF i = cur /\ ts[i].state = "RUNNING"
                                 THEN "RUNNABLE" ELSE ts[i].state
             /\ saved[i].pid = ts[i].pid
             /\ saved[i].is_user = ts[i].is_user
             /\ saved[i].address_space = ts[i].address_space
             /\ saved[i].kernel_stack = ts[i].kernel_stack
  BY TaskAssumption DEF SetState, TaskRecord, Tids
<1>8. ASSUME NEW i \in Tids
      PROVE  /\ s.tasks[i].state = IF i = next THEN "RUNNING" ELSE saved[i].state
             /\ s.tasks[i].pid = saved[i].pid
             /\ s.tasks[i].is_user = saved[i].is_user
             /\ s.tasks[i].address_space = saved[i].address_space
             /\ s.tasks[i].kernel_stack = saved[i].kernel_stack
  <2> HIDE DEF saved, next, s
  <2> QED BY <1>1, <1>4, <1>5 DEF SetState, TaskRecord
<1> HIDE DEF saved, next, s
<1>9. Ready(ts[s.current]) /\ s.current \in Tids
  BY <1>2, <1>4, <1>5
<1> QED BY <1>5, <1>6, <1>7, <1>8, <1>9 DEF s

-----------------------------------------------------------------------------
(* The invariant. *)

\* TaskInv holds when the scheduler starts.
LEMMA InitInv == Init => TaskInv
<1> SUFFICES ASSUME Init PROVE TaskInv
  OBVIOUS
<1>1. KernelTask \in TaskRecord /\ NewTask \in TaskRecord
  BY DEF KernelTask, NewTask, TaskRecord, TaskState
<1>2. SHELL \in Tids /\ IDLE \in Tids
  BY TaskAssumption DEF SHELL, IDLE, Tids
<1>3. TypeOK
  BY <1>1, TaskAssumption DEF Init, TypeOK
<1>4. \A i \in Tids : tasks[i] = IF i \in {SHELL, IDLE} THEN KernelTask ELSE NewTask
  BY DEF Init
<1>5. IdleIsReady
  BY <1>2, <1>4 DEF IdleIsReady, Ready, KernelTask
<1>6. CurrentIsRunning /\ Cr3IsCurrent /\ AliveHasStack
  BY <1>2, <1>4, TaskAssumption
  DEF Init, CurrentIsRunning, Cr3IsCurrent, AliveHasStack, Alive, KernelTask, NewTask
<1>7. SlotsOK
  BY <1>2, <1>4 DEF Init, SlotsOK, Alive, KernelTask, NewTask
<1> QED BY <1>3, <1>5, <1>6, <1>7 DEF TaskInv

\* A context switch keeps the invariant when the caller has at most made the
\* current user task runnable or a zombie before.
LEMMA SwitchInv ==
  ASSUME TaskInv,
         NEW ts \in [Tids -> TaskRecord],
         \A i \in Tids :
           /\ ts[i].pid = tasks[i].pid
           /\ ts[i].is_user = tasks[i].is_user
           /\ ts[i].address_space = tasks[i].address_space
           /\ ts[i].kernel_stack = tasks[i].kernel_stack
           /\ \/ ts[i].state = tasks[i].state
              \/ /\ i = current_tid /\ tasks[i].is_user
                 /\ ts[i].state \in {"RUNNABLE", "ZOMBIE"},
         context_switch_from(ts),
         slice_ticks' \in 0 .. TICKS_PER_SLICE - 1,
         new_slot' = new_slot
  PROVE  TaskInv' /\ ZombiesStay
<1> DEFINE s == SwitchFrom(ts, current_tid)
<1>1. /\ SHELL \in Tids /\ IDLE \in Tids /\ IDLE # SHELL
      /\ current_tid \in Tids \cup {-1}
      /\ new_slot \in Tids \cup {-1}
  BY TaskAssumption DEF TaskInv, TypeOK, Tids, SHELL, IDLE
<1>2. Ready(ts[IDLE])
  BY <1>1 DEF TaskInv, IdleIsReady, SlotsOK, Ready
<1>3. /\ s.current \in Tids
      /\ s.tasks \in [Tids -> TaskRecord]
      /\ Ready(ts[s.current])
      /\ \A i \in Tids :
           /\ s.tasks[i].state =
                IF i = s.current THEN "RUNNING"
                ELSE IF i = current_tid /\ ts[i].state = "RUNNING" THEN "RUNNABLE"
                ELSE ts[i].state
           /\ s.tasks[i].pid = ts[i].pid
           /\ s.tasks[i].is_user = ts[i].is_user
           /\ s.tasks[i].address_space = ts[i].address_space
           /\ s.tasks[i].kernel_stack = ts[i].kernel_stack
  BY <1>1, <1>2, SwitchEffect
<1>4. /\ tasks' = s.tasks /\ current_tid' = s.current
      /\ cr3' = IF s.current # current_tid
                THEN AddressSpaceOf(s.tasks[s.current]) ELSE cr3
  BY DEF context_switch_from
<1> HIDE DEF s
<1>5. \A i \in Tids : Ready(ts[i]) => Alive(tasks[i])
  BY DEF TaskInv, CurrentIsRunning, SlotsOK, Ready, Alive, SHELL, Tids
<1>6. IdleIsReady'
  BY <1>1, <1>2, <1>3, <1>4 DEF IdleIsReady, Ready
<1>7. CurrentIsRunning'
  BY <1>1, <1>3, <1>4 DEF TaskInv, CurrentIsRunning
<1>8. cr3' = AddressSpaceOf(tasks'[current_tid'])
  <2>1. CASE s.current # current_tid
    BY <1>4, <2>1
  <2>2. CASE s.current = current_tid
    <3>1. cr3' = AddressSpaceOf(tasks[current_tid])
      BY <1>3, <1>4, <2>2 DEF TaskInv, Cr3IsCurrent, Tids
    <3> QED BY <1>3, <1>4, <2>2, <3>1 DEF AddressSpaceOf
  <2> QED BY <2>1, <2>2
<1>9. \A i \in Tids : Alive(tasks'[i]) => Alive(tasks[i])
  <2> SUFFICES ASSUME NEW i \in Tids, Alive(tasks'[i]) PROVE Alive(tasks[i])
    OBVIOUS
  <2>1. CASE i = s.current
    BY <1>3, <1>5, <2>1
  <2>2. CASE i # s.current
    BY <1>3, <1>4, <1>5, <2>2 DEF Alive, Ready
  <2> QED BY <2>1, <2>2
<1>10. Cr3IsCurrent'
  BY <1>3, <1>4, <1>8, <1>9 DEF TaskInv, Cr3IsCurrent, Tids
<1>11. AliveHasStack'
  BY <1>3, <1>4, <1>9 DEF TaskInv, AliveHasStack
<1>12. SlotsOK'
  <2>1. \A i \in {SHELL, IDLE} : Alive(tasks'[i])
    BY <1>1, <1>3, <1>4 DEF TaskInv, SlotsOK, Alive
  <2> QED BY <1>1, <1>3, <1>4, <1>9, <2>1, SMTT(60) DEF TaskInv, SlotsOK, Tids
<1>13. TypeOK'
  <2>1. cr3' \in AddressSpaces \cup {kernel_address_space}
    BY <1>3, <1>4, <1>8 DEF TaskInv, SlotsOK, AddressSpaceOf
  <2> QED BY <1>1, <1>3, <1>4, <2>1 DEF TypeOK
<1>14. ZombiesStay
  <2> SUFFICES ASSUME NEW i \in Tids, tasks[i].state = "ZOMBIE"
               PROVE  tasks'[i].state = "ZOMBIE"
    BY DEF ZombiesStay
  <2>1. i # s.current
    BY <1>3, <1>5 DEF Alive
  <2>2. ts[i].state = "ZOMBIE"
    BY DEF TaskInv, CurrentIsRunning, Tids
  <2> QED BY <1>3, <1>4, <2>1, <2>2
<1> QED BY <1>6, <1>7, <1>10, <1>11, <1>12, <1>13, <1>14 DEF TaskInv

\* The operations that change the state of one slot and switch to no other
\* task keep the invariant.
LEMMA OtherStepInv ==
  ASSUME TaskInv,
         \/ task_sleep
         \/ task_wake(SHELL)
         \/ \E tid \in Tids : task_kill(tid)
         \/ task_create_slot
         \/ \E pid \in Pids, as \in AddressSpaces : task_create_user(pid, as)
         \/ task_create_fails
  PROVE  TaskInv'
<1>1. /\ SHELL \in Tids /\ IDLE \in Tids /\ IDLE # SHELL
      /\ tasks \in [Tids -> TaskRecord]
      /\ current_tid \in Tids \cup {-1}
      /\ new_slot \in Tids \cup {-1}
  BY TaskAssumption DEF TaskInv, TypeOK, Tids, SHELL, IDLE
<1>2. CASE task_sleep \/ task_wake(SHELL)
  <2>1. PICK st \in {"WAITING", "RUNNABLE"} :
          /\ tasks' = [tasks EXCEPT ![SHELL].state = st]
          /\ st = "RUNNABLE" => tasks[SHELL].state = "WAITING"
          /\ UNCHANGED <<slice_ticks, cr3, new_slot, current_tid>>
          /\ st = "WAITING" => InShell
    BY <1>2 DEF task_sleep, task_wake, SetState
  <2>2. /\ tasks' \in [Tids -> TaskRecord]
        /\ \A i \in Tids : i # SHELL => tasks'[i] = tasks[i]
        /\ tasks'[SHELL].state = st
        /\ tasks'[SHELL].is_user = tasks[SHELL].is_user
        /\ tasks'[SHELL].address_space = tasks[SHELL].address_space
        /\ tasks'[SHELL].kernel_stack = tasks[SHELL].kernel_stack
    BY <1>1, <2>1 DEF TaskRecord, TaskState
  <2>3. TypeOK' /\ IdleIsReady'
    BY <1>1, <2>1, <2>2 DEF TaskInv, TypeOK, IdleIsReady
  <2>4. CurrentIsRunning'
    BY <1>1, <2>1, <2>2 DEF TaskInv, CurrentIsRunning, InShell
  <2>5. AliveHasStack' /\ SlotsOK'
    BY <1>1, <2>1, <2>2 DEF TaskInv, AliveHasStack, SlotsOK, Alive, Tids
  <2>6. Cr3IsCurrent'
    BY <1>1, <2>1, <2>2 DEF TaskInv, Cr3IsCurrent, SlotsOK, Alive, AddressSpaceOf, Tids
  <2> QED BY <2>3, <2>4, <2>5, <2>6 DEF TaskInv
<1>3. ASSUME NEW tid \in Tids, task_kill(tid) PROVE TaskInv'
  <2>1. /\ tasks' = [tasks EXCEPT ![tid].state = "ZOMBIE"]
        /\ UNCHANGED <<slice_ticks, cr3, new_slot, current_tid>>
        /\ current_tid = SHELL /\ tasks[tid].is_user
    BY <1>3 DEF task_kill, SetState, InShell
  <2>2. tid # SHELL /\ tid # IDLE
    BY <2>1 DEF TaskInv, SlotsOK
  <2>3. /\ tasks' \in [Tids -> TaskRecord]
        /\ \A i \in Tids : i # tid => tasks'[i] = tasks[i]
        /\ tasks'[tid].state = "ZOMBIE"
        /\ tasks'[tid].is_user = tasks[tid].is_user
        /\ tasks'[tid].address_space = tasks[tid].address_space
    BY <1>1, <2>1, ZenonT(60) DEF TaskRecord, TaskState
  <2>4. TypeOK' /\ IdleIsReady'
    BY <1>1, <2>1, <2>2, <2>3 DEF TaskInv, TypeOK, IdleIsReady
  <2>5. CurrentIsRunning' /\ Cr3IsCurrent'
    BY <1>1, <2>1, <2>2, <2>3 DEF TaskInv, CurrentIsRunning, Cr3IsCurrent, Alive
  <2>6. AliveHasStack' /\ SlotsOK'
    BY <1>1, <2>1, <2>2, <2>3 DEF TaskInv, AliveHasStack, SlotsOK, Alive, Tids
  <2> QED BY <2>4, <2>5, <2>6 DEF TaskInv
<1>4. CASE task_create_slot
  <2> DEFINE n == find_free_slot(tasks)
  <2>1. /\ new_slot' = n /\ n >= 0
        /\ tasks' = [tasks EXCEPT ![n].kernel_stack = FALSE]
        /\ UNCHANGED <<slice_ticks, cr3, current_tid>>
    BY <1>4 DEF task_create_slot
  <2>2. n \in Tids /\ ~Alive(tasks[n])
    <3> DEFINE unused == {i \in Tids : ~Alive(tasks[i]) /\ ~tasks[i].kernel_stack}
               zombies == {i \in Tids : tasks[i].state = "ZOMBIE"}
    <3>1. unused # {} => Least(unused) \in unused
      <4>1. unused \subseteq Nat
        BY TaskAssumption DEF Tids
      <4> HIDE DEF unused
      <4> QED BY <4>1, LeastExists, Zenon DEF Least
    <3>2. zombies # {} => Least(zombies) \in zombies
      <4>1. zombies \subseteq Nat
        BY TaskAssumption DEF Tids
      <4> HIDE DEF zombies
      <4> QED BY <4>1, LeastExists, Zenon DEF Least
    <3>3. n \in unused \/ n \in zombies
      BY <2>1, <3>1, <3>2 DEF find_free_slot
    <3> QED BY <3>3 DEF Alive
  <2> HIDE DEF n
  <2>3. /\ tasks' \in [Tids -> TaskRecord]
        /\ \A i \in Tids : i # n => tasks'[i] = tasks[i]
        /\ tasks'[n].state = tasks[n].state
        /\ tasks'[n].is_user = tasks[n].is_user
        /\ tasks'[n].address_space = tasks[n].address_space
    BY <1>1, <2>1, <2>2, ZenonT(60) DEF TaskRecord
  <2>4. n # SHELL /\ n # IDLE /\ n # current_tid
    BY <1>1, <2>2 DEF TaskInv, SlotsOK, CurrentIsRunning, Alive, Tids
  <2>5. TypeOK' /\ IdleIsReady'
    BY <1>1, <2>1, <2>2, <2>3, <2>4 DEF TaskInv, TypeOK, IdleIsReady
  <2>6. CurrentIsRunning' /\ Cr3IsCurrent'
    BY <1>1, <2>1, <2>2, <2>3, <2>4 DEF TaskInv, CurrentIsRunning, Cr3IsCurrent, Alive, Tids
  <2>7. AliveHasStack' /\ SlotsOK'
    BY <1>1, <2>1, <2>2, <2>3, <2>4 DEF TaskInv, AliveHasStack, SlotsOK, Alive, Tids
  <2> QED BY <2>5, <2>6, <2>7 DEF TaskInv
<1>5. ASSUME NEW pid \in Pids, NEW as \in AddressSpaces, task_create_user(pid, as)
      PROVE  TaskInv'
  <2>1. /\ tasks' = [tasks EXCEPT ![new_slot] = UserTask(pid, as)]
        /\ new_slot' = -1 /\ new_slot \in Tids
        /\ UNCHANGED <<slice_ticks, cr3, current_tid>>
    BY <1>1, <1>5 DEF task_create_user
  <2>2. UserTask(pid, as) \in TaskRecord
    BY TaskAssumption, Zenon DEF UserTask, TaskRecord, TaskState
  <2>3. new_slot # SHELL /\ new_slot # IDLE /\ new_slot # current_tid
    BY <1>1, <2>1 DEF TaskInv, SlotsOK, CurrentIsRunning, Alive, Tids
  <2>4. /\ tasks' \in [Tids -> TaskRecord]
        /\ \A i \in Tids : i # new_slot => tasks'[i] = tasks[i]
        /\ tasks'[new_slot] = UserTask(pid, as)
    BY <1>1, <2>1, <2>2, Zenon
  <2>5. TypeOK' /\ IdleIsReady'
    BY <1>1, <2>1, <2>3, <2>4, Zenon DEF TaskInv, TypeOK, IdleIsReady
  <2>6. /\ tasks'[new_slot].state = "RUNNABLE"
        /\ tasks'[new_slot].is_user = TRUE
        /\ tasks'[new_slot].kernel_stack = TRUE
        /\ tasks'[new_slot].address_space = as
    BY <2>4 DEF UserTask
  <2>7. as # NULL
    BY TaskAssumption, Zenon
  <2>8. \A i \in Tids : i # new_slot => tasks'[i] = tasks[i]
    BY <2>4
  <2>9. /\ new_slot' = -1 /\ new_slot \in Tids
        /\ cr3' = cr3 /\ current_tid' = current_tid
    BY <2>1
  <2>10. CurrentIsRunning'
    BY <1>1, <2>3, <2>6, <2>8, <2>9 DEF TaskInv, CurrentIsRunning, Tids
  <2>11. Cr3IsCurrent'
    <3>1. current_tid >= 0 => tasks'[current_tid] = tasks[current_tid]
      BY <1>1, <2>3, <2>8
    <3>2. cr3' = IF current_tid' >= 0 THEN AddressSpaceOf(tasks'[current_tid'])
                                      ELSE kernel_address_space
      BY <2>9, <3>1 DEF TaskInv, Cr3IsCurrent
    <3>3. \A i \in Tids : Alive(tasks'[i]) => tasks'[i].address_space # NULL
      BY <2>6, <2>7, <2>8, Zenon DEF TaskInv, Cr3IsCurrent
    <3> QED BY <3>2, <3>3 DEF Cr3IsCurrent
  <2>12. AliveHasStack'
    BY <2>6, <2>8 DEF TaskInv, AliveHasStack
  <2>13. SlotsOK'
    <3>1. \A i \in {SHELL, IDLE} : tasks'[i] = tasks[i]
      BY <1>1, <2>3, <2>8
    <3>2. \A i \in Tids : tasks'[i].is_user => tasks'[i].address_space \in AddressSpaces
      BY <2>6, <2>8, Zenon DEF TaskInv, SlotsOK
    <3>3. \A i \in Tids \ {SHELL, IDLE} : Alive(tasks'[i]) => tasks'[i].is_user
      BY <2>6, <2>8 DEF TaskInv, SlotsOK
    <3>4. ~(new_slot' >= 0)
      BY <2>9
    <3> QED BY <3>1, <3>2, <3>3, <3>4 DEF TaskInv, SlotsOK
  <2> QED BY <2>5, <2>10, <2>11, <2>12, <2>13 DEF TaskInv
<1>6. CASE task_create_fails
  BY <1>1, <1>6 DEF task_create_fails, TaskInv, TypeOK, IdleIsReady, CurrentIsRunning,
     Cr3IsCurrent, AliveHasStack, SlotsOK
<1> QED BY <1>2, <1>3, <1>4, <1>5, <1>6

\* They revive no zombie either, except by filling its slot anew.
LEMMA OtherStepZombies ==
  ASSUME TaskInv,
         \/ task_sleep
         \/ task_wake(SHELL)
         \/ \E tid \in Tids : task_kill(tid)
         \/ task_create_slot
         \/ \E pid \in Pids, as \in AddressSpaces : task_create_user(pid, as)
         \/ task_create_fails
  PROVE  ZombiesStay
<1> SUFFICES ASSUME NEW i \in Tids,
                    tasks[i].state = "ZOMBIE", tasks'[i].state # "ZOMBIE"
             PROVE  i = new_slot /\ tasks'[i].state = "RUNNABLE"
  BY DEF ZombiesStay
<1>1. tasks \in [Tids -> TaskRecord] /\ i # SHELL
  BY DEF TaskInv, TypeOK, SlotsOK, Alive
<1>2. CASE task_sleep \/ task_wake(SHELL)
  BY <1>1, <1>2 DEF task_sleep, task_wake, SetState
<1>3. CASE \E tid \in Tids : task_kill(tid)
  BY <1>1, <1>3 DEF task_kill, SetState, TaskRecord
<1>4. CASE task_create_slot
  <2>1. PICK n : tasks' = [tasks EXCEPT ![n].kernel_stack = FALSE]
    BY <1>4 DEF task_create_slot
  <2> QED BY <1>1, <2>1 DEF TaskRecord
<1>5. CASE \E pid \in Pids, as \in AddressSpaces : task_create_user(pid, as)
  BY <1>1, <1>5 DEF task_create_user, UserTask
<1>6. CASE task_create_fails
  BY <1>6 DEF task_create_fails
<1> QED BY <1>2, <1>3, <1>4, <1>5, <1>6, Zenon

\* TaskInv is inductive, and no step revives a zombie.
LEMMA NextInv == TaskInv /\ [Next]_taskVars => TaskInv' /\ [ZombiesStay]_taskVars
<1> SUFFICES ASSUME TaskInv, [Next]_taskVars PROVE TaskInv' /\ [ZombiesStay]_taskVars
  OBVIOUS
<1>1. /\ tasks \in [Tids -> TaskRecord]
      /\ slice_ticks \in 0 .. TICKS_PER_SLICE - 1
  BY DEF TaskInv, TypeOK
<1>2. CASE timer_tick
  <2>1. CASE SliceRemains
    <3>1. slice_ticks' = slice_ticks + 1 /\ slice_ticks' < TICKS_PER_SLICE
      BY <1>2, <2>1 DEF timer_tick, schedule_on_tick, SliceRemains
    <3>2. UNCHANGED <<tasks, current_tid, cr3, new_slot>>
      BY <1>2, <2>1 DEF timer_tick, schedule_on_tick
    <3>3. slice_ticks' \in 0 .. TICKS_PER_SLICE - 1
      BY <1>1, <3>1, TaskAssumption
    <3> QED BY <3>2, <3>3, Zenon DEF TaskInv, TypeOK, IdleIsReady, CurrentIsRunning,
               Cr3IsCurrent, AliveHasStack, SlotsOK, ZombiesStay
  <2>2. CASE ~SliceRemains
    <3>1. /\ context_switch_from(tasks) /\ slice_ticks' = 0 /\ new_slot' = new_slot
      BY <1>2, <2>2 DEF timer_tick, schedule_on_tick
    <3>2. slice_ticks' \in 0 .. TICKS_PER_SLICE - 1
      BY <3>1, TaskAssumption
    <3> QED BY <1>1, <3>1, <3>2, SwitchInv
  <2> QED BY <2>1, <2>2
<1>3. CASE schedule
  <2>1. /\ context_switch_from(tasks)
        /\ slice_ticks' = slice_ticks /\ new_slot' = new_slot
    BY <1>3 DEF schedule
  <2> QED BY <1>1, <2>1, SwitchInv
<1>4. CASE syscall_yield \/ syscall_exit
  <2>1. PICK st \in {"RUNNABLE", "ZOMBIE"} :
          context_switch_from([tasks EXCEPT ![current_tid].state = st])
    BY <1>4 DEF syscall_yield, syscall_exit, SetState
  <2> DEFINE ts == [tasks EXCEPT ![current_tid].state = st]
  <2>2. /\ slice_ticks' = slice_ticks /\ new_slot' = new_slot
        /\ current_tid \in Tids /\ tasks[current_tid].is_user
    BY <1>4 DEF syscall_yield, syscall_exit, InUser, TaskInv, TypeOK, Tids
  <2>3. ts \in [Tids -> TaskRecord]
    BY <1>1, <2>2 DEF TaskRecord, TaskState
  <2>4. \A i \in Tids :
           /\ ts[i].pid = tasks[i].pid
           /\ ts[i].is_user = tasks[i].is_user
           /\ ts[i].address_space = tasks[i].address_space
           /\ ts[i].kernel_stack = tasks[i].kernel_stack
           /\ ts[i].state = IF i = current_tid THEN st ELSE tasks[i].state
    BY <1>1, <2>2 DEF TaskRecord
  <2> HIDE DEF ts
  <2>5. context_switch_from(ts)
    BY <2>1 DEF ts
  <2> QED BY <1>1, <2>2, <2>3, <2>4, <2>5, SwitchInv
<1>5. CASE UNCHANGED taskVars
  BY <1>5 DEF taskVars, TaskInv, TypeOK, IdleIsReady, CurrentIsRunning,
     Cr3IsCurrent, AliveHasStack, SlotsOK
<1> QED BY <1>2, <1>3, <1>4, <1>5, OtherStepInv, OtherStepZombies DEF Next

\* The scheduler keeps its invariant for every table size and slice length:
\* the table is well formed, the idle task stays in the rotation, only the
\* current task is RUNNING, CR3 belongs to it, and tasks that may run keep
\* their stacks.
THEOREM SchedulerInvariant == Spec => []TaskInv
BY InitInv, NextInv, PTL DEF Spec

\* The CPU always translates with the address space of the task it runs, and
\* the kasserts of task_switch_address_space never fail.
THEOREM AddressSpaceIsLoaded == Spec => []Cr3IsCurrent
<1>1. TaskInv => Cr3IsCurrent
  BY DEF TaskInv
<1> QED BY <1>1, SchedulerInvariant, PTL

\* find_free_slot frees only the stack of a task that never runs again.
THEOREM StacksAreKept == Spec => []AliveHasStack
<1>1. TaskInv => AliveHasStack
  BY DEF TaskInv
<1> QED BY <1>1, SchedulerInvariant, PTL

\* Only the current task is RUNNING, the kasserts of task_switch_address_space
\* hold, and a switch frees no stack in use.
THEOREM SchedulerSafety ==
  Spec => [](CurrentIsRunning /\ Cr3IsCurrent /\ AliveHasStack /\ IdleIsReady)
<1>1. TaskInv => CurrentIsRunning /\ Cr3IsCurrent /\ AliveHasStack /\ IdleIsReady
  BY DEF TaskInv
<1> QED BY <1>1, SchedulerInvariant, PTL

\* The command schedcheck never reports a failure: whenever the shell runs,
\* it is the only running task, and no task lacks its address space.
THEOREM SelfCheckNeverFails == Spec => []SelfCheckPasses
<1>1. TaskInv => SelfCheckPasses
  <2> SUFFICES ASSUME TaskInv, InShell
               PROVE  task_self_check
    BY DEF SelfCheckPasses
  <2>1. \A i, j \in Tids :
          tasks[i].state = "RUNNING" /\ tasks[j].state = "RUNNING" => i = j
    BY DEF TaskInv, CurrentIsRunning
  <2>2. \A i \in Tids : tasks[i].is_user => tasks[i].address_space # NULL
    BY TaskAssumption DEF TaskInv, SlotsOK
  <2>3. current_tid < MAX_TASKS /\ tasks[current_tid].state = "RUNNING"
    BY TaskAssumption DEF InShell, SHELL
  <2> QED BY <2>1, <2>2, <2>3 DEF task_self_check
<1> QED BY <1>1, SchedulerInvariant, PTL

\* No context switch, wake-up or kill brings a finished task back: a zombie's
\* slot changes state only when task_create_user fills it with a new task.
THEOREM ZombiesNeverRun == Spec => NoResurrection
<1>1. TaskInv /\ [Next]_taskVars => [ZombiesStay]_taskVars
  BY NextInv
<1> QED BY <1>1, SchedulerInvariant, PTL DEF Spec, NoResurrection
=============================================================================
