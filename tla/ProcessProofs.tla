--------------------------- MODULE ProcessProofs ---------------------------
(***************************************************************************)
(* Proofs about the process table, for tables of any size and any number   *)
(* of processes: it drives the scheduler as Task allows, and no address    *)
(* space is destroyed early or leaked, wherever context switches interrupt *)
(* the shell.                                                              *)
(***************************************************************************)
EXTENDS Process, TaskProofs

-----------------------------------------------------------------------------
(* What a step does to the tasks. *)

\* No task comes to life and none changes its process.
TasksFade ==
  \A t \in Tids :
    /\ tasks'[t].pid = tasks[t].pid
    /\ tasks'[t].is_user = tasks[t].is_user
    /\ tasks'[t].address_space = tasks[t].address_space
    /\ Alive(tasks'[t]) => Alive(tasks[t])

\* A context switch on a table that differs in states of live tasks only.
LEMMA SwitchFades ==
  ASSUME TaskInv,
         NEW ts \in [Tids -> TaskRecord],
         \A t \in Tids :
           /\ ts[t].pid = tasks[t].pid
           /\ ts[t].is_user = tasks[t].is_user
           /\ ts[t].address_space = tasks[t].address_space
           /\ Ready(ts[t]) => Alive(tasks[t])
           /\ Alive(ts[t]) => Alive(tasks[t]),
         Ready(ts[IDLE]),
         context_switch_from(ts)
  PROVE  /\ TasksFade
         /\ \A t \in Tids : ~Alive(ts[t]) => ~Alive(tasks'[t])
<1> DEFINE s == SwitchFrom(ts, current_tid)
<1>1. current_tid \in Tids \cup {-1}
  BY DEF TaskInv, TypeOK
<1>2. /\ s.current \in Tids
      /\ Ready(ts[s.current])
      /\ \A i \in Tids :
           /\ s.tasks[i].state =
                IF i = s.current THEN "RUNNING"
                ELSE IF i = current_tid /\ ts[i].state = "RUNNING" THEN "RUNNABLE"
                ELSE ts[i].state
           /\ s.tasks[i].pid = ts[i].pid
           /\ s.tasks[i].is_user = ts[i].is_user
           /\ s.tasks[i].address_space = ts[i].address_space
  BY <1>1, SwitchEffect
<1>3. tasks' = s.tasks
  BY DEF context_switch_from
<1> HIDE DEF s
<1>4. \A t \in Tids : Alive(tasks'[t]) => Alive(ts[t])
  BY <1>2, <1>3 DEF Alive, Ready
<1> QED BY <1>2, <1>3, <1>4 DEF TasksFade

\* A system call comes from a live task of the table.
LEMMA CallerKnown == TaskInv /\ InUser => current_tid \in Tids /\ Alive(tasks[current_tid])
BY TaskAssumption
DEF TaskInv, TypeOK, InUser, CurrentIsRunning, SlotsOK, Alive, Tids, SHELL, IDLE


\* A system call marks its caller before it switches.
LEMMA CallFades ==
  ASSUME TaskInv, InUser, NEW st \in {"RUNNABLE", "ZOMBIE"},
         context_switch_from(SetState(tasks, current_tid, st))
  PROVE  TasksFade /\ (st = "ZOMBIE" => ~Alive(tasks'[current_tid]))
<1> DEFINE ts == SetState(tasks, current_tid, st)
<1>1. /\ tasks \in [Tids -> TaskRecord]
      /\ IDLE \in Tids /\ Ready(tasks[IDLE]) /\ ~tasks[IDLE].is_user
  BY TaskAssumption DEF TaskInv, TypeOK, IdleIsReady, SlotsOK, Tids, IDLE
<1>2. current_tid \in Tids /\ Alive(tasks[current_tid]) /\ current_tid # IDLE
  BY <1>1, CallerKnown DEF InUser
<1>3. ts \in [Tids -> TaskRecord]
  BY <1>1, <1>2 DEF SetState, TaskRecord, TaskState
<1>4. \A t \in Tids :
         /\ ts[t].pid = tasks[t].pid
         /\ ts[t].is_user = tasks[t].is_user
         /\ ts[t].address_space = tasks[t].address_space
         /\ ts[t].state = IF t = current_tid THEN st ELSE tasks[t].state
  BY <1>1, <1>2 DEF SetState, TaskRecord
<1> HIDE DEF ts
<1>5. context_switch_from(ts)
  BY DEF ts
<1>6. \A t \in Tids : /\ Ready(ts[t]) => Alive(tasks[t])
                      /\ Alive(ts[t]) => Alive(tasks[t])
  BY <1>1, <1>2, <1>4 DEF Ready, Alive
<1>7. Ready(ts[IDLE])
  BY <1>1, <1>2, <1>4 DEF Ready
<1>8. st = "ZOMBIE" => ~Alive(ts[current_tid])
  BY <1>2, <1>4 DEF Alive
<1> QED BY <1>2, <1>3, <1>4, <1>5, <1>6, <1>7, <1>8, SwitchFades

\* No step of the scheduler but the creation of a task brings one to life.
LEMMA StepFades ==
  ASSUME TaskInv,
         \/ timer_tick \/ schedule \/ syscall_yield \/ syscall_exit
         \/ task_sleep \/ task_wake(SHELL)
         \/ \E tid \in Tids : task_kill(tid)
         \/ task_create_slot \/ task_create_fails
         \/ UNCHANGED taskVars
  PROVE  TasksFade
<1>1. /\ tasks \in [Tids -> TaskRecord]
      /\ SHELL \in Tids /\ IDLE \in Tids /\ Ready(tasks[IDLE])
      /\ Alive(tasks[SHELL])
      /\ \A t \in Tids : Ready(tasks[t]) => Alive(tasks[t])
  BY TaskAssumption
  DEF TaskInv, TypeOK, IdleIsReady, SlotsOK, Tids, SHELL, IDLE, Ready, Alive
<1>2. CASE timer_tick \/ schedule
  <2>1. CASE context_switch_from(tasks)
    BY <1>1, <2>1, SwitchFades
  <2>2. CASE UNCHANGED tasks
    BY <2>2 DEF TasksFade
  <2> QED BY <1>2, <2>1, <2>2 DEF timer_tick, schedule_on_tick, schedule
<1>3. CASE syscall_yield \/ syscall_exit
  BY <1>3, CallFades DEF syscall_yield, syscall_exit
<1>4. CASE task_sleep \/ task_wake(SHELL)
  <2>1. PICK st : tasks' = [tasks EXCEPT ![SHELL].state = st]
    BY <1>4 DEF task_sleep, task_wake, SetState
  <2> QED BY <1>1, <2>1 DEF TasksFade, TaskRecord
<1>5. ASSUME NEW tid \in Tids, task_kill(tid) PROVE TasksFade
  <2>1. tasks' = [tasks EXCEPT ![tid].state = "ZOMBIE"]
    BY <1>5 DEF task_kill, SetState
  <2> QED BY <1>1, <2>1 DEF TasksFade, TaskRecord, Alive
<1>6. CASE task_create_slot
  <2>1. PICK n : tasks' = [tasks EXCEPT ![n].kernel_stack = FALSE]
    BY <1>6, Zenon DEF task_create_slot
  <2> QED BY <1>1, <2>1 DEF TasksFade, TaskRecord, Alive
<1>7. CASE task_create_fails \/ UNCHANGED taskVars
  BY <1>7 DEF task_create_fails, taskVars, TasksFade
<1> QED BY <1>2, <1>3, <1>4, <1>5, <1>6, <1>7

\* The address space the CPU translates with exists if those of the tasks do.
LEMMA TasksKeepLoaded ==
  ASSUME TaskInv',
         \A t \in Tids :
           Alive(tasks'[t]) /\ tasks'[t].is_user => tasks'[t].address_space \in live'
  PROVE  NoDangling'
<1>1. cr3' \in live' \cup {kernel_address_space}
  BY TaskAssumption
  DEF TaskInv, TypeOK, Cr3IsCurrent, CurrentIsRunning, SlotsOK, AddressSpaceOf, Alive, Tids
<1> QED BY <1>1 DEF NoDangling

-----------------------------------------------------------------------------
(* Context switches and what they reap. *)

\* Pids are numbers.
LEMMA PidIsNat == \A n \in Pids \cup {0} : n \in Nat
BY TaskAssumption

\* What reaping and marking do to an entry, field by field.
LEMMA ReapedEffect ==
  ASSUME NEW p \in ProcessRecord
  PROVE  /\ Reaped(p) \in ProcessRecord
         /\ Reaped(p).used = p.used
         /\ Reaped(p).pid = p.pid
         /\ Reaped(p).exited = p.exited
         /\ Reaped(p).address_space = NULL
         /\ Reaped(p).main_tid = -1
         /\ Reaped(p).reap_pending = FALSE
BY Zenon DEF Reaped, ProcessRecord

\* MarkExited changes two flags of one entry.
LEMMA MarkEffect ==
  ASSUME NEW pt \in [Procs -> ProcessRecord], NEW k \in Procs
  PROVE  /\ MarkExited(pt, k) \in [Procs -> ProcessRecord]
         /\ MarkExited(pt, k)[k].exited /\ MarkExited(pt, k)[k].reap_pending
         /\ \A i \in Procs :
              /\ MarkExited(pt, k)[i].used = pt[i].used
              /\ MarkExited(pt, k)[i].pid = pt[i].pid
              /\ MarkExited(pt, k)[i].address_space = pt[i].address_space
              /\ MarkExited(pt, k)[i].main_tid = pt[i].main_tid
              /\ i # k => MarkExited(pt, k)[i] = pt[i]
<1> DEFINE q == [pt[k] EXCEPT !.exited = TRUE, !.reap_pending = TRUE]
<1>1. MarkExited(pt, k) = [pt EXCEPT ![k] = q]
  BY Zenon DEF MarkExited
<1>2. q.exited /\ q.reap_pending
  BY DEF ProcessRecord
<1>3. q.used = pt[k].used /\ q.pid = pt[k].pid
  BY DEF ProcessRecord
<1>4. q.address_space = pt[k].address_space /\ q.main_tid = pt[k].main_tid
  BY DEF ProcessRecord
<1>5. q \in ProcessRecord
  BY Zenon DEF ProcessRecord
<1> HIDE DEF q
<1> QED BY <1>1, <1>2, <1>3, <1>4, <1>5

\* What process_reap_deferred makes of the table pt.
LEMMA ReapEffect ==
  ASSUME NEW pt \in [Procs -> ProcessRecord], process_reap_deferred(pt)
  PROVE  /\ proc_table' \in [Procs -> ProcessRecord]
         /\ \A i \in Procs :
              /\ proc_table'[i].used = pt[i].used
              /\ proc_table'[i].pid = pt[i].pid
              /\ proc_table'[i].exited = pt[i].exited
              /\ MustReap(pt[i]) =>
                   /\ proc_table'[i].address_space = NULL
                   /\ proc_table'[i].main_tid = -1
                   /\ proc_table'[i].reap_pending = FALSE
              /\ ~MustReap(pt[i]) => proc_table'[i] = pt[i]
         /\ \A a : a \in live' <=>
              a \in live /\ \A i \in Procs : MustReap(pt[i]) => pt[i].address_space # a
         /\ next_pid' = next_pid
<1>1. proc_table' = [i \in Procs |-> IF MustReap(pt[i]) THEN Reaped(pt[i]) ELSE pt[i]]
  BY DEF process_reap_deferred
<1>2. ASSUME NEW i \in Procs
      PROVE  /\ Reaped(pt[i]) \in ProcessRecord
             /\ Reaped(pt[i]).used = pt[i].used
             /\ Reaped(pt[i]).pid = pt[i].pid
             /\ Reaped(pt[i]).exited = pt[i].exited
             /\ Reaped(pt[i]).address_space = NULL
             /\ Reaped(pt[i]).main_tid = -1
             /\ Reaped(pt[i]).reap_pending = FALSE
  BY ReapedEffect, Zenon
<1>3. \A a : a \in live' <=>
         a \in live /\ \A i \in Procs : MustReap(pt[i]) => pt[i].address_space # a
  BY DEF process_reap_deferred
<1>4. next_pid' = next_pid
  BY DEF process_reap_deferred
<1> QED BY <1>1, <1>2, <1>3, <1>4, Zenon

\* A context switch that reaps keeps the invariant, wherever the shell is.  The
\* table pt it reaps differs from the present one in entries that the step marks
\* as exited, whose tasks do not outlive the step.
LEMMA SwitchKeeps ==
  ASSUME TaskInv, TaskInv', ProcInv, TasksFade,
         NEW pt \in [Procs -> ProcessRecord],
         \A i \in Procs :
           /\ pt[i].used = proc_table[i].used
           /\ pt[i].pid = proc_table[i].pid
           /\ pt[i].address_space = proc_table[i].address_space
           /\ pt[i].main_tid = proc_table[i].main_tid
           /\ \/ pt[i] = proc_table[i]
              \/ /\ pt[i].used /\ pt[i].exited /\ pt[i].reap_pending
                 /\ \A t \in Tids : Alive(tasks'[t]) => pt[i].main_tid # t
                 /\ pc = "spawn_table" /\ i = sh.slot => ~Alive(tasks'[sh.tid]),
         process_reap_deferred(pt),
         sh' = sh, boot' = boot,
         pc' = pc \/ (pc = "wait_yield" /\ pc' = "reap")
  PROVE  ProcInv'
<1> DEFINE M(i) == MustReap(pt[i])
<1>e. process_reap_deferred(pt) /\ pt \in [Procs -> ProcessRecord]
  OBVIOUS
<1>a. /\ proc_table' \in [Procs -> ProcessRecord]
      /\ next_pid' = next_pid
      /\ \A i \in Procs :
           /\ proc_table'[i].used = pt[i].used
           /\ proc_table'[i].pid = pt[i].pid
           /\ M(i) =>
                /\ proc_table'[i].address_space = NULL
                /\ proc_table'[i].main_tid = -1
                /\ proc_table'[i].reap_pending = FALSE
           /\ ~M(i) => proc_table'[i] = pt[i]
      /\ \A a : a \in live' <=>
           a \in live /\ \A i \in Procs : M(i) => pt[i].address_space # a
  BY ONLY <1>e, ReapEffect, Zenon
<1>b. \A i \in Procs :
        /\ pt[i].used = proc_table[i].used
        /\ pt[i].pid = proc_table[i].pid
        /\ pt[i].address_space = proc_table[i].address_space
        /\ pt[i].main_tid = proc_table[i].main_tid
  OBVIOUS
<1>c. \A i \in Procs : M(i) => pt[i].reap_pending /\ pt[i].used
  BY DEF MustReap
<1>d. \A i \in Procs :
        pt[i].used /\ pt[i].reap_pending /\ pt[i].address_space = NULL => M(i)
  BY Zenon DEF MustReap
<1> HIDE DEF M
<1>1. /\ proc_table' \in [Procs -> ProcessRecord]
      /\ next_pid' = next_pid
      /\ \A i \in Procs :
           /\ proc_table'[i].used = proc_table[i].used
           /\ proc_table'[i].pid = proc_table[i].pid
           /\ M(i) =>
                /\ proc_table'[i].address_space = NULL
                /\ proc_table'[i].main_tid = -1
                /\ proc_table'[i].reap_pending = FALSE
           /\ ~M(i) =>
                /\ proc_table'[i] = pt[i]
                /\ proc_table'[i].address_space = proc_table[i].address_space
                /\ proc_table'[i].main_tid = proc_table[i].main_tid
  BY ONLY <1>a, <1>b
<1>2. \A a : a \in live' <=>
        a \in live /\ \A i \in Procs : M(i) => proc_table[i].address_space # a
  BY ONLY <1>a, <1>b
<1>3. \A i \in Procs : M(i) => pt[i].reap_pending /\ proc_table[i].used
  BY ONLY <1>b, <1>c, Zenon
<1>4. \A i \in Procs :
        /\ proc_table[i].used /\ pt[i].reap_pending /\ proc_table[i].address_space = NULL => M(i)
  BY <1>b, <1>d, Zenon
<1>5. /\ proc_table \in [Procs -> ProcessRecord]
      /\ live \subseteq AddressSpaces /\ NULL \notin live
  BY TaskAssumption, Zenon DEF ProcInv, ProcTypeOK
<1>6. \A i \in Procs : proc_table[i].address_space # NULL => proc_table[i].used
  BY DEF ProcInv, TableOK, Blank
<1>7. \A i, j \in Procs :
        i # j /\ proc_table[i].address_space # NULL =>
          proc_table[i].address_space # proc_table[j].address_space
  BY <1>6, Zenon DEF ProcInv, PidsUnique
<1>8. ASSUME NEW t \in Tids, Alive(tasks'[t]), tasks'[t].is_user
      PROVE  \/ pc = "spawn_table" /\ sh.tid = t /\ sh.pid = tasks[t].pid
             \/ \E i \in Procs : Lists(proc_table[i], t) /\ ~M(i) /\ pt[i] = proc_table[i]
  <2>1. Alive(tasks[t]) /\ tasks[t].is_user
    BY <1>8 DEF TasksFade
  <2>2. CASE pc = "spawn_table" /\ sh.tid = t /\ sh.pid = tasks[t].pid
    BY ONLY <2>2
  <2>3. ASSUME NEW i \in Procs, Lists(proc_table[i], t)
        PROVE  ~M(i) /\ pt[i] = proc_table[i]
    BY <1>3, <1>8, <2>3, Zenon DEF Lists
  <2> QED BY <2>1, <2>2, <2>3, Zenon DEF ProcInv, AliveIsListed
<1>9. AliveIsListed'
  BY <1>1, <1>8 DEF AliveIsListed, Lists, TasksFade
<1>10. ASSUME NEW t \in Tids, Alive(tasks'[t]), tasks'[t].is_user
       PROVE  tasks'[t].address_space \in live'
  <2>1. /\ Alive(tasks[t]) /\ tasks[t].is_user
        /\ tasks'[t].address_space = tasks[t].address_space
        /\ tasks[t].address_space \in live
    BY <1>10 DEF TasksFade, ProcInv, NoDangling
  <2>2. ASSUME NEW i \in Procs, M(i), proc_table[i].address_space = tasks[t].address_space
        PROVE  FALSE
    <3>1. CASE pc = "spawn_table" /\ sh.tid = t
      <4>1. /\ tasks[t].address_space = sh.as /\ ~proc_table[sh.slot].reap_pending
            /\ \A k \in Procs \ {sh.slot} : proc_table[k].address_space # sh.as
        BY <2>1, <3>1, Zenon DEF ProcInv, FillOK
      <4> QED BY <1>3, <1>10, <2>2, <3>1, <4>1
    <3>2. ASSUME NEW k \in Procs, Lists(proc_table[k], t), ~M(k)
          PROVE  FALSE
      BY ONLY <1>5, <1>7, <2>1, <2>2, <3>2 DEF Lists
    <3> QED BY <1>8, <1>10, <3>1, <3>2, Zenon
  <2> QED BY ONLY <1>2, <2>1, <2>2, Zenon
<1>11. NoDangling'
  BY <1>10, TasksKeepLoaded, Zenon
<1>12. ProcTypeOK' /\ TaskPids' /\ PidsUnique'
  <2>1. ProcTypeOK'
    BY <1>1, <1>2, <1>5, Zenon DEF ProcInv, ProcTypeOK, WaitLabels, ReapLabels
  <2>2. TaskPids'
    BY DEF ProcInv, TaskPids, TasksFade
  <2>3. PidsUnique'
    BY <1>1 DEF ProcInv, PidsUnique
  <2> QED BY <2>1, <2>2, <2>3, Zenon
<1>13. LocalsOK'
  BY ProcessAssumption DEF ProcInv, LocalsOK, SpawnLabels, OwnerLabels, PidLabels,
     KillLabels, ReapLabels
<1>14. TableOK'
  <2>1. \A i \in Procs : ~proc_table'[i].used => Blank(proc_table'[i])
    BY <1>1, <1>3 DEF ProcInv, TableOK
  <2>2. \A i \in Procs : proc_table'[i].pid < next_pid'
    BY <1>1, ZenonT(60) DEF ProcInv, TableOK
  <2>3. ASSUME NEW i \in Procs, proc_table'[i].address_space # NULL
        PROVE  proc_table'[i].address_space \in live' \/ (pc' = "reap_clear" /\ i = sh'.i)
    BY <1>1, <1>2, <1>7, <2>3 DEF ProcInv, TableOK
  <2>4. \A i \in Procs : ~(proc_table'[i].reap_pending /\ proc_table'[i].address_space = NULL)
    BY <1>1, <1>4 DEF ProcInv, TableOK, Blank
  <2> QED BY <2>1, <2>2, <2>3, <2>4, ZenonT(60) DEF TableOK
<1>15. NoLeak'
  <2> SUFFICES ASSUME NEW a \in live'
               PROVE  \/ \E i \in Procs : proc_table'[i].address_space = a
                      \/ pc' \in SpawnLabels /\ sh'.as = a
    BY DEF NoLeak
  <2>1. \/ \E i \in Procs : proc_table[i].address_space = a
        \/ pc \in SpawnLabels /\ sh.as = a
    BY <1>2 DEF ProcInv, NoLeak
  <2> QED BY <1>1, <1>2, <2>1 DEF SpawnLabels
<1>16. SecondDestroyIsIdle'
  BY <1>1, TaskAssumption DEF ProcInv, SecondDestroyIsIdle, TasksFade
<1>17. ASSUME pc \in SpawnLabels \ {"spawn_slot"}, sh.i <= 2
       PROVE  /\ proc_table'[sh.slot].address_space = NULL
              /\ ~proc_table'[sh.slot].reap_pending
              /\ proc_table'[sh.slot].main_tid = -1
  <2>1. /\ sh.slot \in Procs
        /\ proc_table[sh.slot].address_space = NULL
        /\ ~proc_table[sh.slot].reap_pending
        /\ proc_table[sh.slot].main_tid = -1
    BY <1>17, Zenon DEF ProcInv, SpawnOK, LocalsOK
  <2>2. CASE M(sh.slot)
    BY ONLY <1>1, <2>1, <2>2
  <2>3. CASE ~M(sh.slot)
    <3>1. pt[sh.slot] = proc_table[sh.slot]
      BY <1>4, <1>b, <2>1, <2>3, ZenonT(60)
    <3> QED BY ONLY <1>1, <2>1, <2>3, <3>1
  <2> QED BY <2>2, <2>3
<1>18. SpawnOK'
  <2>1. ASSUME pc' \in OwnerLabels
        PROVE  /\ sh'.as \in live'
               /\ \A i \in Procs : proc_table'[i].address_space # sh'.as
               /\ \A t \in Tids : Alive(tasks'[t]) => tasks'[t].address_space # sh'.as
    <3>1. /\ pc \in OwnerLabels /\ sh.as \in live /\ sh.as # NULL
          /\ \A i \in Procs : proc_table[i].address_space # sh.as
          /\ \A t \in Tids : Alive(tasks[t]) => tasks[t].address_space # sh.as
      BY <1>5, <2>1, ZenonT(60) DEF ProcInv, SpawnOK, OwnerLabels
    <3> QED BY <1>1, <1>2, <3>1 DEF TasksFade
  <2>2. pc' \in PidLabels =>
          /\ sh'.pid < next_pid'
          /\ \A i \in Procs :
               proc_table'[i].pid = sh'.pid => pc' = "spawn_table" /\ i = sh'.slot /\ sh'.i >= 2
    BY <1>1 DEF ProcInv, SpawnOK, PidLabels
  <2>3. pc' \in SpawnLabels \ {"spawn_slot"} => pc \in SpawnLabels \ {"spawn_slot"}
    BY DEF SpawnLabels
  <2> QED BY <1>17, <2>1, <2>2, <2>3, Zenon DEF SpawnOK
<1>19. FillOK'
  <2> SUFFICES ASSUME pc = "spawn_table"
               PROVE  FillOK'
    BY Zenon DEF FillOK
  <2> DEFINE p == proc_table[sh.slot]
             q == proc_table'[sh.slot]
             t == tasks[sh.tid]
             u == tasks'[sh.tid]
  <2>1. /\ sh.slot \in Procs /\ sh.tid \in Tids /\ sh.i \in 0 .. 5
        /\ sh.as \in AddressSpaces /\ sh.as # NULL
    BY TaskAssumption, ZenonT(60)
    DEF ProcInv, LocalsOK, SpawnLabels, OwnerLabels, PidLabels, KillLabels, ReapLabels
  <2>2. /\ t.is_user /\ t.pid = sh.pid /\ t.address_space = sh.as
        /\ \A i \in Procs \ {sh.slot} : proc_table[i].address_space # sh.as
        /\ sh.i >= 1 => p.used
        /\ sh.i >= 2 => p.pid = sh.pid
        /\ sh.i <= 2 => sh.as \in live
        /\ sh.i >= 3 => p.address_space = IF sh.as \in live THEN sh.as ELSE NULL
        /\ sh.i <= 3 => p.main_tid = -1
        /\ p.main_tid \in {-1, sh.tid}
        /\ Alive(t) =>
             /\ sh.as \in live
             /\ ~p.reap_pending
             /\ sh.i >= 4 => p.main_tid = sh.tid
             /\ sh.i = 5 => ~p.exited
    BY Zenon DEF ProcInv, FillOK
  <2>3. u.is_user /\ u.pid = sh.pid /\ u.address_space = sh.as
    BY <2>1, <2>2, ZenonT(60) DEF TasksFade
  <2>4. \A i \in Procs \ {sh.slot} : proc_table'[i].address_space # sh.as
    BY ONLY <1>1, <2>1, <2>2
  <2>5. q.used = p.used /\ q.pid = p.pid
    BY <1>1, <2>1, Zenon
  <2>6. /\ sh.i <= 2 => sh.as \in live'
        /\ sh.i >= 3 => q.address_space = IF sh.as \in live' THEN sh.as ELSE NULL
    <3>1. sh.i <= 2 => p.address_space = NULL
      BY <2>1, Zenon DEF ProcInv, SpawnOK, SpawnLabels
    <3>2. sh.as \in live' <=> sh.as \in live /\ ~(M(sh.slot) /\ p.address_space = sh.as)
      BY ONLY <1>2, <2>1, <2>2
    <3> QED BY ONLY <1>1, <2>1, <2>2, <3>1, <3>2
  <2>7. q.main_tid \in {-1, sh.tid} /\ (sh.i <= 3 => q.main_tid = -1)
    BY <1>1, <2>1, <2>2, Zenon
  <2>8. ASSUME Alive(u)
        PROVE  /\ sh.as \in live' /\ ~q.reap_pending
               /\ sh.i >= 4 => q.main_tid = sh.tid
               /\ sh.i = 5 => ~q.exited
    <3>1. Alive(t) /\ pt[sh.slot] = p
      BY <2>1, <2>8, Zenon DEF TasksFade
    <3>2. ~M(sh.slot)
      BY <1>3, <2>1, <2>2, <3>1, Zenon
    <3>3. q = p
      BY ONLY <1>1, <2>1, <3>1, <3>2, Zenon
    <3>4. sh.as \in live'
      BY ONLY <1>10, <2>1, <2>3, <2>8, Zenon
    <3> QED BY <2>2, <3>1, <3>3, <3>4
  <2> HIDE DEF p, q, t, u
  <2>9. FillOK' = (pc' = "spawn_table" =>
          /\ u.is_user /\ u.pid = sh.pid /\ u.address_space = sh.as
          /\ \A i \in Procs \ {sh.slot} : proc_table'[i].address_space # sh.as
          /\ sh.i >= 1 => q.used
          /\ sh.i >= 2 => q.pid = sh.pid
          /\ sh.i <= 2 => sh.as \in live'
          /\ sh.i >= 3 => q.address_space = IF sh.as \in live' THEN sh.as ELSE NULL
          /\ sh.i <= 3 => q.main_tid = -1
          /\ q.main_tid \in {-1, sh.tid}
          /\ Alive(u) =>
               /\ sh.as \in live'
               /\ ~q.reap_pending
               /\ sh.i >= 4 => q.main_tid = sh.tid
               /\ sh.i = 5 => ~q.exited)
    BY DEF FillOK, q, u
  <2> QED BY <2>2, <2>3, <2>4, <2>5, <2>6, <2>7, <2>8, <2>9, Zenon
<1>20. KillOK'
  BY <1>1, Zenon DEF ProcInv, KillOK, LocalsOK, KillLabels, TasksFade
<1>21. ReapOK'
  BY <1>1, <1>2, <1>3, <1>5 DEF ProcInv, ReapOK, LocalsOK, ReapLabels
<1> QED BY <1>9, <1>11, <1>12, <1>13, <1>14, <1>15, <1>16, <1>18, <1>19, <1>20, <1>21, ZenonT(60)
        DEF ProcInv

-----------------------------------------------------------------------------
(* Steps of the shell that leave the table alone. *)

\* What such a step keeps whatever label it leads to, when the shell is not
\* filling an entry or reaping, and takes its new address space along.
LEMMA QuietKeeps ==
  ASSUME TaskInv, TaskInv', ProcInv, TasksFade, UNCHANGED procVars,
         pc \notin ReapLabels \cup {"spawn_table"},
         pc \in OwnerLabels => pc' \in SpawnLabels /\ sh'.as = sh.as
  PROVE  TableOK' /\ PidsUnique' /\ TaskPids' /\ AliveIsListed' /\ NoDangling' /\ NoLeak'
<1>1. proc_table' = proc_table /\ next_pid' = next_pid /\ live' = live
  BY Zenon DEF procVars
<1>2. TableOK' /\ PidsUnique'
  <2>1. PidsUnique'
    BY <1>1 DEF ProcInv, PidsUnique
  <2> QED BY <1>1, <2>1 DEF ProcInv, TableOK, ReapLabels
<1>3. TaskPids'
  BY DEF ProcInv, TaskPids, TasksFade
<1>4. AliveIsListed'
  BY <1>1 DEF ProcInv, AliveIsListed, TasksFade, Lists
<1>5. NoDangling'
  <2>1. \A t \in Tids : Alive(tasks'[t]) /\ tasks'[t].is_user => tasks'[t].address_space \in live'
    BY <1>1 DEF ProcInv, NoDangling, TasksFade
  <2> QED BY <2>1, TasksKeepLoaded, Zenon
<1>6. NoLeak'
  <2>1. pc \notin OwnerLabels => sh.as \notin live
    BY TaskAssumption DEF ProcInv, ProcTypeOK, LocalsOK, ReapLabels, OwnerLabels
  <2> QED BY <1>1, <2>1 DEF ProcInv, NoLeak
<1> QED BY <1>2, <1>3, <1>4, <1>5, <1>6

\* The end of a command or of a spawn leaves no obligation to the shell.
LEMMA LandKeeps ==
  ASSUME sh' = NoLocals, pc' \in {"reap", "spawn_slot", "sleep"}
  PROVE  /\ sh' \in ShellRecord
         /\ pc' \in SpawnLabels \cup ReapLabels \cup KillLabels \cup WaitLabels
                      \cup {"sleep", "drain"}
         /\ LocalsOK' /\ SecondDestroyIsIdle' /\ SpawnOK' /\ FillOK' /\ KillOK' /\ ReapOK'
<1> USE DEF NoLocals, SpawnLabels, ReapLabels, KillLabels, WaitLabels, OwnerLabels, PidLabels
<1>1. sh' \in ShellRecord
  BY DEF ShellRecord
<1>2. LocalsOK'
  BY ProcessAssumption DEF LocalsOK
<1>3. SecondDestroyIsIdle' /\ SpawnOK' /\ FillOK' /\ KillOK' /\ ReapOK'
  BY DEF SecondDestroyIsIdle, SpawnOK, FillOK, KillOK, ReapOK
<1> QED BY <1>1, <1>2, <1>3

\* Where a command or a spawn of kernel_main returns to.
LEMMA SpawnReturnsLands ==
  ASSUME ProcTypeOK, SpawnReturns \/ EndCommand
  PROVE  sh' = NoLocals /\ pc' \in {"reap", "spawn_slot", "sleep"} /\ boot' \in Nat
BY DEF SpawnReturns, EndCommand, Goto, ProcTypeOK

\* A command or a spawn that ends without having changed anything.
LEMMA EndKeeps ==
  ASSUME TaskInv, TaskInv', ProcInv, TasksFade, UNCHANGED procVars,
         pc \notin ReapLabels \cup OwnerLabels \cup {"spawn_table"},
         SpawnReturns \/ EndCommand
  PROVE  ProcInv'
<1>1. sh' = NoLocals /\ pc' \in {"reap", "spawn_slot", "sleep"} /\ boot' \in Nat
  BY SpawnReturnsLands, Zenon DEF ProcInv
<1>2. TableOK' /\ PidsUnique' /\ TaskPids' /\ AliveIsListed' /\ NoDangling' /\ NoLeak'
  BY QuietKeeps
<1>3. ProcTypeOK'
  BY <1>1, LandKeeps DEF ProcInv, ProcTypeOK, procVars
<1> QED BY <1>1, <1>2, <1>3, LandKeeps DEF ProcInv

\* The scheduler moves and the shell does not, or goes on to a label at which
\* it has nothing in hand.
LEMMA IdleKeeps ==
  ASSUME TaskInv, TaskInv', ProcInv, TasksFade, UNCHANGED procVars, sh' = sh,
         boot' = boot,
         \/ pc = "wait_yield" /\ pc' = "reap"
         \/ pc = "sleep" /\ pc' = "drain"
         \/ pc = "drain" /\ pc' \in {"sleep", "spawn_slot"}
  PROVE  ProcInv'
<1> USE DEF SpawnLabels, ReapLabels, KillLabels, WaitLabels, OwnerLabels, PidLabels
<1>1. TableOK' /\ PidsUnique' /\ TaskPids' /\ AliveIsListed' /\ NoDangling' /\ NoLeak'
  BY QuietKeeps
<1>2. ProcTypeOK'
  BY DEF ProcInv, ProcTypeOK, procVars
<1>3. LocalsOK'
  BY ProcessAssumption DEF ProcInv, LocalsOK
<1>4. SecondDestroyIsIdle' /\ SpawnOK' /\ FillOK' /\ KillOK' /\ ReapOK'
  BY <1>2, Zenon DEF SecondDestroyIsIdle, SpawnOK, FillOK, KillOK, ReapOK
<1> QED BY <1>1, <1>2, <1>3, <1>4 DEF ProcInv

\* An interrupt that neither switches nor reaps.
LEMMA InterruptKeeps ==
  ASSUME TaskInv, TaskInv', ProcInv, TasksFade, UNCHANGED <<procVars, shellVars>>
  PROVE  ProcInv'
<1>1. /\ proc_table' = proc_table /\ next_pid' = next_pid /\ live' = live
      /\ boot' = boot /\ pc' = pc /\ sh' = sh
  BY DEF procVars, shellVars
<1>2. ProcTypeOK' /\ LocalsOK' /\ TableOK' /\ PidsUnique' /\ NoLeak' /\ ReapOK'
  BY <1>1 DEF ProcInv, ProcTypeOK, LocalsOK, TableOK, PidsUnique, NoLeak, ReapOK
<1>3. TaskPids' /\ AliveIsListed'
  BY <1>1 DEF ProcInv, TaskPids, AliveIsListed, TasksFade, Lists
<1>4. NoDangling'
  <2>1. \A t \in Tids : Alive(tasks'[t]) /\ tasks'[t].is_user => tasks'[t].address_space \in live'
    BY <1>1, Zenon DEF ProcInv, NoDangling, TasksFade
  <2> QED BY <2>1, TasksKeepLoaded, Zenon
<1>5. SecondDestroyIsIdle' /\ SpawnOK' /\ KillOK'
  BY <1>1 DEF ProcInv, SecondDestroyIsIdle, SpawnOK, KillOK, LocalsOK, TasksFade, KillLabels
<1>6. FillOK'
  <2>1. pc = "spawn_table" => sh.tid \in Tids
    BY DEF ProcInv, LocalsOK
  <2> QED BY <1>1, <2>1, ZenonT(60) DEF ProcInv, FillOK, TasksFade
<1> QED BY <1>2, <1>3, <1>4, <1>5, <1>6 DEF ProcInv

-----------------------------------------------------------------------------
(* process_spawn_from_elf. *)

\* The step has not changed the tasks.
LEMMA SameTasksFade ==
  ASSUME UNCHANGED taskVars PROVE TasksFade /\ UNCHANGED <<tasks, current_tid, cr3>>
BY DEF taskVars, TasksFade

\* The search of a table entry keeps ProcInv.
LEMMA SpawnSlotKeeps ==
  ASSUME TaskInv, TaskInv', ProcInv, SpawnSlot
  PROVE  ProcInv'
<1> USE DEF SpawnLabels, ReapLabels, KillLabels, WaitLabels, OwnerLabels, PidLabels
<1> DEFINE s == alloc_process_slot
<1>1. /\ pc = "spawn_slot" /\ UNCHANGED procVars /\ TasksFade
  BY SameTasksFade DEF SpawnSlot, At
<1>2. CASE SpawnReturns
  BY <1>1, <1>2, EndKeeps
<1>3. CASE s >= 0 /\ Goto("spawn_as") /\ sh' = [sh EXCEPT !.slot = s]
  <2>1. s \in Procs /\ FreeProcess(proc_table[s])
    <3> DEFINE free == {i \in Procs : FreeProcess(proc_table[i])}
    <3>1. free \subseteq Nat
      BY DEF Procs
    <3>2. free # {} => Least(free) \in free
      <4> HIDE DEF free
      <4> QED BY <3>1, LeastExists, Zenon DEF Least
    <3> QED BY <1>3, <3>2 DEF alloc_process_slot
  <2> HIDE DEF s
  <2>2. /\ sh \in ShellRecord /\ sh.as = NULL /\ sh.i = 0
        /\ pc' = "spawn_as" /\ boot' = boot
    BY <1>1, <1>3 DEF ProcInv, ProcTypeOK, LocalsOK, Goto
  <2>3. /\ sh' \in ShellRecord
        /\ sh'.slot = s /\ sh'.as = NULL /\ sh'.i = 0
    BY <1>3, <2>1, <2>2 DEF ShellRecord
  <2>4. TableOK' /\ PidsUnique' /\ TaskPids' /\ AliveIsListed' /\ NoDangling' /\ NoLeak'
    BY <1>1, QuietKeeps, ZenonT(60)
  <2>5. ProcTypeOK'
    BY <1>1, <2>2, <2>3 DEF ProcInv, ProcTypeOK, procVars
  <2>6. LocalsOK'
    BY <2>1, <2>2, <2>3 DEF LocalsOK
  <2>7. SpawnOK'
    <3>1. /\ proc_table[s].address_space = NULL
          /\ ~proc_table[s].reap_pending
          /\ proc_table[s].main_tid = -1
      <4>1. proc_table[s] \in ProcessRecord
        BY <2>1, Zenon DEF ProcInv, ProcTypeOK
      <4>2. CASE ~proc_table[s].used
        BY <2>1, <4>2 DEF ProcInv, TableOK, Blank
      <4>3. CASE proc_table[s].used
        <5>1. proc_table[s].address_space = NULL /\ proc_table[s].main_tid < 0
          BY ONLY <2>1, <4>3 DEF FreeProcess
        <5>2. ~proc_table[s].reap_pending
          BY <1>1, <2>1, <5>1, Zenon DEF ProcInv, TableOK
        <5> QED BY ONLY <4>1, <5>1, <5>2 DEF ProcessRecord, Tids
      <4> QED BY <4>2, <4>3
    <3> QED BY <1>1, <2>1, <2>2, <2>3, <3>1 DEF SpawnOK, procVars
  <2>8. SecondDestroyIsIdle' /\ FillOK' /\ KillOK' /\ ReapOK'
    BY <2>2 DEF SecondDestroyIsIdle, FillOK, KillOK, ReapOK
  <2> QED BY <2>4, <2>5, <2>6, <2>7, <2>8 DEF ProcInv
<1> QED BY <1>2, <1>3 DEF SpawnSlot

\* Creating the address space, or failing to, keeps ProcInv.
LEMMA SpawnAddressSpaceKeeps ==
  ASSUME TaskInv, TaskInv', ProcInv, SpawnAddressSpace
  PROVE  ProcInv'
<1> USE DEF SpawnLabels, ReapLabels, KillLabels, WaitLabels, OwnerLabels, PidLabels
<1>1. /\ pc = "spawn_as" /\ TasksFade
      /\ proc_table' = proc_table /\ next_pid' = next_pid
      /\ UNCHANGED tasks
  BY SameTasksFade DEF SpawnAddressSpace, At
<1>2. CASE SpawnReturns /\ UNCHANGED live
  BY <1>1, <1>2, EndKeeps DEF procVars
<1>3. ASSUME NEW as \in AddressSpaces \ live, live' = live \cup {as},
             sh' = [sh EXCEPT !.as = as], Goto("spawn_load")
      PROVE  ProcInv'
  <2>1. /\ sh \in ShellRecord /\ sh.slot \in Procs /\ sh.i = 0 /\ sh.as = NULL
        /\ pc' = "spawn_load" /\ boot' = boot
    BY <1>1, <1>3 DEF ProcInv, ProcTypeOK, LocalsOK, Goto
  <2>2. /\ sh' \in ShellRecord
        /\ sh'.as = as /\ sh'.slot = sh.slot /\ sh'.i = 0
    BY <1>3, <2>1, Zenon DEF ShellRecord
  <2>3. /\ \A i \in Procs : proc_table[i].address_space # as
        /\ \A t \in Tids : Alive(tasks[t]) => tasks[t].address_space # as
    <3>1. \A i \in Procs : proc_table[i].address_space # NULL => proc_table[i].address_space \in live
      BY <1>1 DEF ProcInv, TableOK
    <3>2. \A t \in Tids : Alive(tasks[t]) /\ tasks[t].is_user => tasks[t].address_space \in live
      BY Zenon DEF ProcInv, NoDangling
    <3>3. \A t \in Tids : Alive(tasks[t]) /\ ~tasks[t].is_user =>
            tasks[t].address_space = kernel_address_space
      BY DEF TaskInv, SlotsOK
    <3> QED BY ONLY <3>1, <3>2, <3>3, TaskAssumption, Zenon
  <2>4. ProcTypeOK' /\ LocalsOK'
    BY <1>1, <1>3, <2>1, <2>2, Zenon DEF ProcInv, ProcTypeOK, LocalsOK
  <2>5. TableOK' /\ PidsUnique' /\ TaskPids'
    BY <1>1, <1>3, <2>1, ZenonT(60) DEF ProcInv, TableOK, PidsUnique, TaskPids
  <2>6. AliveIsListed'
    BY <1>1, <2>1 DEF ProcInv, AliveIsListed, Lists
  <2>7. NoDangling'
    BY <1>1, <1>3, TasksKeepLoaded, Zenon DEF ProcInv, NoDangling
  <2>8. NoLeak'
    BY <1>1, <1>3, <2>1, <2>2, TaskAssumption, ZenonT(60) DEF ProcInv, ProcTypeOK, NoLeak
  <2>9. SpawnOK'
    <3>1. /\ proc_table[sh.slot].address_space = NULL
          /\ ~proc_table[sh.slot].reap_pending
          /\ proc_table[sh.slot].main_tid = -1
      BY <1>1, <2>1 DEF ProcInv, SpawnOK
    <3>2. as \in live' /\ tasks' = tasks /\ pc' \notin PidLabels
      BY <1>1, <1>3, <2>1, Zenon
    <3> QED BY <1>1, <2>2, <2>3, <3>1, <3>2, Zenon DEF SpawnOK
  <2>10. SecondDestroyIsIdle' /\ FillOK' /\ KillOK' /\ ReapOK'
    BY <2>1, Zenon DEF SecondDestroyIsIdle, FillOK, KillOK, ReapOK
  <2> QED BY <2>4, <2>5, <2>6, <2>7, <2>8, <2>9, <2>10, Zenon DEF ProcInv
<1> QED BY <1>2, <1>3 DEF SpawnAddressSpace

\* A spawn that fails gives back the address space that only it knows.
LEMMA SpawnFailsKeeps ==
  ASSUME TaskInv, TaskInv', ProcInv, TasksFade, UNCHANGED <<proc_table, next_pid>>,
         pc \in OwnerLabels, SpawnFails
  PROVE  ProcInv'
<1> USE DEF SpawnLabels, ReapLabels, KillLabels, WaitLabels, OwnerLabels, PidLabels
<1>1. /\ sh' = NoLocals /\ pc' \in {"reap", "spawn_slot", "sleep"} /\ boot' \in Nat
      /\ live' = live \ {sh.as}
  BY SpawnReturnsLands, Zenon DEF ProcInv, SpawnFails
<1>2. /\ sh.as \in live
      /\ \A i \in Procs : proc_table[i].address_space # sh.as
      /\ \A t \in Tids : Alive(tasks[t]) => tasks[t].address_space # sh.as
  BY DEF ProcInv, SpawnOK
<1>3. ProcTypeOK'
  BY <1>1, LandKeeps, Zenon DEF ProcInv, ProcTypeOK
<1>4. TableOK' /\ PidsUnique'
  <2>1. PidsUnique'
    BY Zenon DEF ProcInv, PidsUnique
  <2> QED BY <1>1, <1>2, <2>1, Zenon DEF ProcInv, TableOK
<1>5. TaskPids' /\ AliveIsListed'
  BY SMTT(60) DEF ProcInv, TaskPids, AliveIsListed, TasksFade, Lists
<1>6. NoDangling'
  BY <1>1, <1>2, TasksKeepLoaded, ZenonT(60) DEF ProcInv, NoDangling, TasksFade
<1>7. NoLeak'
  BY <1>1, <1>2 DEF ProcInv, NoLeak
<1> QED BY <1>1, <1>3, <1>4, <1>5, <1>6, <1>7, LandKeeps DEF ProcInv

\* Loading the image, or failing to, keeps ProcInv.
LEMMA SpawnLoadKeeps ==
  ASSUME TaskInv, TaskInv', ProcInv, SpawnLoad
  PROVE  ProcInv'
<1> USE DEF SpawnLabels, ReapLabels, KillLabels, WaitLabels, OwnerLabels, PidLabels
<1>1. /\ pc = "spawn_load" /\ TasksFade /\ UNCHANGED <<tasks, proc_table, next_pid>>
  BY SameTasksFade DEF SpawnLoad, At
<1>2. CASE SpawnFails
  BY <1>1, <1>2, SpawnFailsKeeps
<1>3. CASE Goto("spawn_pid") /\ UNCHANGED <<live, sh>>
  <2>1. pc' = "spawn_pid" /\ boot' = boot /\ live' = live /\ sh' = sh
    BY <1>3 DEF Goto
  <2>2. TableOK' /\ PidsUnique' /\ TaskPids' /\ AliveIsListed' /\ NoDangling' /\ NoLeak'
    BY <1>1, <2>1, QuietKeeps DEF procVars
  <2>3. ProcTypeOK' /\ LocalsOK'
    BY <1>1, <2>1, Zenon DEF ProcInv, ProcTypeOK, LocalsOK
  <2>4. SpawnOK'
    BY <1>1, <2>1, ZenonT(60) DEF ProcInv, SpawnOK
  <2>5. SecondDestroyIsIdle' /\ FillOK' /\ KillOK' /\ ReapOK'
    BY <2>1 DEF SecondDestroyIsIdle, FillOK, KillOK, ReapOK
  <2> QED BY <2>2, <2>3, <2>4, <2>5 DEF ProcInv
<1> QED BY <1>1, <1>2, <1>3 DEF SpawnLoad

\* Taking a pid keeps ProcInv.
LEMMA SpawnPidKeeps ==
  ASSUME TaskInv, TaskInv', ProcInv, SpawnPid
  PROVE  ProcInv'
<1> USE DEF SpawnLabels, ReapLabels, KillLabels, WaitLabels, OwnerLabels, PidLabels
<1>1. /\ pc = "spawn_pid" /\ pc' = "spawn_task_slot" /\ boot' = boot
      /\ TasksFade /\ UNCHANGED <<tasks, proc_table, live>>
      /\ next_pid \in Pids /\ next_pid' = next_pid + 1
  BY SameTasksFade DEF SpawnPid, At, Goto
<1>2. sh \in ShellRecord /\ next_pid \in Nat /\ sh' = [sh EXCEPT !.pid = next_pid]
  BY DEF ProcInv, ProcTypeOK, SpawnPid
<1>3. /\ sh' \in ShellRecord /\ sh'.pid = next_pid
      /\ sh'.slot = sh.slot /\ sh'.as = sh.as /\ sh'.i = sh.i
  BY <1>1, <1>2, Zenon DEF ShellRecord
<1>4. proc_table \in [Procs -> ProcessRecord] /\ \A i \in Procs : proc_table[i].pid < next_pid
  BY DEF ProcInv, ProcTypeOK, TableOK
<1>5. \A i \in Procs : proc_table[i].pid \in Nat
  <2>1. \A i \in Procs : proc_table[i].pid \in Pids \cup {0}
    BY <1>4 DEF ProcessRecord
  <2> QED BY <2>1, PidIsNat
<1>6. ProcTypeOK' /\ LocalsOK'
  <2>1. ProcTypeOK'
    BY <1>1, <1>2, <1>3 DEF ProcInv, ProcTypeOK
  <2> QED BY <1>1, <1>3, <2>1 DEF ProcInv, LocalsOK
<1>7. PidsUnique' /\ TaskPids'
  BY <1>1, Zenon DEF ProcInv, PidsUnique, TaskPids
<1>8. TableOK'
  <2>1. \A i \in Procs : proc_table'[i].pid < next_pid'
    BY <1>1, <1>2, <1>4, <1>5
  <2> QED BY <1>1, <2>1 DEF ProcInv, TableOK
<1>9. AliveIsListed' /\ NoLeak'
  BY <1>1, <1>3 DEF ProcInv, AliveIsListed, Lists, NoLeak
<1>10. NoDangling'
  BY <1>1, TasksKeepLoaded, Zenon DEF ProcInv, NoDangling
<1>11. SpawnOK'
  <2>1. \A i \in Procs : proc_table'[i].pid # sh'.pid
    BY <1>1, <1>2, <1>3, <1>4, <1>5
  <2>2. sh'.pid < next_pid'
    BY ONLY <1>1, <1>2, <1>3
  <2> QED BY <1>1, <1>3, <2>1, <2>2, Zenon DEF ProcInv, SpawnOK
<1>12. SecondDestroyIsIdle' /\ FillOK' /\ KillOK' /\ ReapOK'
  BY <1>1 DEF SecondDestroyIsIdle, FillOK, KillOK, ReapOK
<1> QED BY <1>6, <1>7, <1>8, <1>9, <1>10, <1>11, <1>12, Zenon DEF ProcInv

\* The choice of a slot by task_create_user keeps ProcInv.
LEMMA SpawnTaskSlotKeeps ==
  ASSUME TaskInv, TaskInv', ProcInv, SpawnTaskSlot
  PROVE  ProcInv'
<1> USE DEF SpawnLabels, ReapLabels, KillLabels, WaitLabels, OwnerLabels, PidLabels
<1>1. /\ pc = "spawn_task_slot" /\ UNCHANGED <<proc_table, next_pid>>
      /\ TasksFade
  BY StepFades DEF SpawnTaskSlot, At
<1>2. CASE SpawnFails
  BY <1>1, <1>2, SpawnFailsKeeps, Zenon
<1>3. CASE Goto("spawn_task") /\ UNCHANGED <<live, sh>>
  <2>1. pc' = "spawn_task" /\ boot' = boot /\ live' = live /\ sh' = sh
    BY <1>3 DEF Goto
  <2>2. TableOK' /\ PidsUnique' /\ TaskPids' /\ AliveIsListed' /\ NoDangling' /\ NoLeak'
    BY <1>1, <2>1, QuietKeeps DEF procVars
  <2>3. ProcTypeOK' /\ LocalsOK'
    BY <1>1, <2>1, Zenon DEF ProcInv, ProcTypeOK, LocalsOK
  <2>4. SpawnOK'
    BY <1>1, <2>1, ZenonT(60) DEF ProcInv, SpawnOK, TasksFade
  <2>5. SecondDestroyIsIdle' /\ FillOK' /\ KillOK' /\ ReapOK'
    BY <2>1 DEF SecondDestroyIsIdle, FillOK, KillOK, ReapOK
  <2> QED BY <2>2, <2>3, <2>4, <2>5 DEF ProcInv
<1> QED BY <1>1, <1>2, <1>3 DEF SpawnTaskSlot

\* Filling the slot, which makes the task runnable, keeps ProcInv.
LEMMA SpawnTaskKeeps ==
  ASSUME TaskInv, TaskInv', ProcInv, SpawnTask
  PROVE  ProcInv'
<1> USE DEF SpawnLabels, ReapLabels, KillLabels, WaitLabels, OwnerLabels, PidLabels
<1>1. pc = "spawn_task" /\ UNCHANGED <<proc_table, next_pid>>
  BY DEF SpawnTask, At
<1>2. CASE task_create_fails /\ SpawnFails
  BY <1>1, <1>2, StepFades, SpawnFailsKeeps, Zenon
<1>3. CASE /\ task_create_user(sh.pid, sh.as)
           /\ sh' = [sh EXCEPT !.tid = new_slot]
           /\ Goto("spawn_table")
           /\ UNCHANGED live
  <2>1. /\ new_slot \in Tids /\ ~Alive(tasks[new_slot])
        /\ tasks \in [Tids -> TaskRecord]
    BY <1>3 DEF task_create_user, TaskInv, TypeOK, SlotsOK, Tids
  <2>2. /\ tasks'[new_slot].is_user = TRUE
        /\ tasks'[new_slot].pid = sh.pid
        /\ tasks'[new_slot].address_space = sh.as
        /\ \A t \in Tids : t # new_slot => tasks'[t] = tasks[t]
    BY <1>3, <2>1 DEF task_create_user, UserTask
  <2>3. /\ sh \in ShellRecord /\ sh.slot \in Procs /\ sh.i = 0
        /\ sh.as \in AddressSpaces /\ sh.pid \in Pids
        /\ pc' = "spawn_table" /\ boot' = boot /\ live' = live
    BY <1>1, <1>3 DEF ProcInv, ProcTypeOK, LocalsOK, Goto
  <2>4. /\ sh' \in ShellRecord /\ sh'.tid = new_slot
        /\ sh'.slot = sh.slot /\ sh'.as = sh.as /\ sh'.i = 0 /\ sh'.pid = sh.pid
    BY <1>3, <2>1, <2>3, ZenonT(60) DEF ShellRecord
  <2>5. /\ sh.as \in live
        /\ \A i \in Procs : proc_table[i].address_space # sh.as
        /\ proc_table[sh.slot].address_space = NULL
        /\ ~proc_table[sh.slot].reap_pending
        /\ proc_table[sh.slot].main_tid = -1
    BY <1>1, <2>3 DEF ProcInv, SpawnOK
  <2>6. ProcTypeOK' /\ LocalsOK'
    <3>1. ProcTypeOK'
      BY <1>1, <2>3, <2>4, Zenon DEF ProcInv, ProcTypeOK
    <3> QED BY <2>1, <2>3, <2>4, <3>1 DEF LocalsOK
  <2>7. TableOK' /\ PidsUnique'
    BY <1>1, <2>3, Zenon DEF ProcInv, TableOK, PidsUnique
  <2>8. TaskPids'
    BY <2>2, <2>3, ZenonT(60) DEF ProcInv, TaskPids
  <2>9. AliveIsListed'
    BY <1>1, <2>2, <2>3, <2>4 DEF ProcInv, AliveIsListed, Lists
  <2>10. NoDangling'
    BY <2>2, <2>3, <2>5, TasksKeepLoaded, Zenon DEF ProcInv, NoDangling
  <2>11. NoLeak'
    BY <1>1, <2>3, <2>4 DEF ProcInv, NoLeak
  <2>12. SpawnOK'
    BY <1>1, <2>3, <2>4, <2>5, ZenonT(60) DEF ProcInv, SpawnOK
  <2>13. FillOK'
    BY ONLY <1>1, <2>2, <2>3, <2>4, <2>5 DEF FillOK
  <2>14. SecondDestroyIsIdle' /\ KillOK' /\ ReapOK'
    BY <2>3 DEF SecondDestroyIsIdle, KillOK, ReapOK
  <2> QED BY ONLY <2>6, <2>7, <2>8, <2>9, <2>10, <2>11, <2>12, <2>13, <2>14 DEF ProcInv
<1> QED BY <1>2, <1>3 DEF SpawnTask

\* The assignments that fill the entry keep the invariant although context
\* switches may see the entry half filled, and the new task may already exit.
LEMMA SpawnTableKeeps ==
  ASSUME TaskInv, TaskInv', ProcInv, SpawnTable
  PROVE  ProcInv'
<1> USE DEF SpawnLabels, ReapLabels, KillLabels, WaitLabels, OwnerLabels, PidLabels
<1> DEFINE p == proc_table[sh.slot]
           q == proc_table'[sh.slot]
           t == tasks[sh.tid]
<1>1. /\ pc = "spawn_table" /\ TasksFade /\ UNCHANGED <<tasks, next_pid, live>>
      /\ proc_table \in [Procs -> ProcessRecord] /\ sh \in ShellRecord
      /\ sh.slot \in Procs /\ sh.tid \in Tids /\ sh.i \in 0 .. 5
      /\ sh.as \in AddressSpaces /\ sh.as # NULL /\ NULL \notin live /\ sh.pid \in Pids
      /\ sh.pid # 0
  BY SameTasksFade, TaskAssumption, Zenon DEF SpawnTable, At, ProcInv, ProcTypeOK, LocalsOK
<1>2. /\ t.is_user /\ t.pid = sh.pid /\ t.address_space = sh.as
      /\ \A i \in Procs \ {sh.slot} : proc_table[i].address_space # sh.as
      /\ sh.i >= 1 => p.used
      /\ sh.i >= 2 => p.pid = sh.pid
      /\ sh.i <= 2 => sh.as \in live
      /\ sh.i >= 3 => p.address_space = IF sh.as \in live THEN sh.as ELSE NULL
      /\ sh.i <= 3 => p.main_tid = -1
      /\ p.main_tid \in {-1, sh.tid}
      /\ Alive(t) =>
           /\ sh.as \in live
           /\ ~p.reap_pending
           /\ sh.i >= 4 => p.main_tid = sh.tid
           /\ sh.i = 5 => ~p.exited
  BY <1>1, Zenon DEF ProcInv, FillOK
<1>3. /\ sh.i <= 2 => p.address_space = NULL /\ ~p.reap_pending
      /\ \A i \in Procs : proc_table[i].pid = sh.pid => i = sh.slot /\ sh.i >= 2
      /\ sh.pid < next_pid
      /\ p.reap_pending => p.address_space # NULL
      /\ ~p.used => p.pid = 0
  BY <1>1, Zenon DEF ProcInv, SpawnOK, TableOK, Blank
<1>4. /\ sh.i = 0 => q.used
      /\ sh.i # 0 => (q.used <=> p.used)
      /\ sh.i = 1 => q.pid = sh.pid
      /\ sh.i # 1 => q.pid = p.pid
      /\ sh.i = 2 => q.address_space = sh.as
      /\ sh.i # 2 => q.address_space = p.address_space
      /\ sh.i = 3 => q.main_tid = sh.tid
      /\ sh.i # 3 => q.main_tid = p.main_tid
      /\ sh.i = 4 => ~q.exited
      /\ sh.i # 4 => (q.exited <=> p.exited)
      /\ sh.i = 5 => ~q.reap_pending
      /\ sh.i # 5 => (q.reap_pending <=> p.reap_pending)
      /\ q \in ProcessRecord
  <2>1. p \in ProcessRecord /\ q = FilledEntry(p, sh.i)
    BY <1>1, Zenon DEF SpawnTable
  <2> HIDE DEF p, q
  <2>2. CASE sh.i = 0
    <3>1. q = [p EXCEPT !.used = TRUE]
      BY <2>1, <2>2 DEF FilledEntry
    <3>2. /\ q.used
          /\ q.pid = p.pid
          /\ q.address_space = p.address_space
          /\ q.main_tid = p.main_tid
          /\ q.exited = p.exited
          /\ q.reap_pending = p.reap_pending
      BY <2>1, <3>1 DEF ProcessRecord
    <3>3. q \in ProcessRecord
      BY <2>1, <3>1, Zenon DEF ProcessRecord
    <3> QED BY <2>2, <3>2, <3>3
  <2>3. CASE sh.i = 1
    BY <1>1, <2>1, <2>3 DEF FilledEntry, ProcessRecord
  <2>4. CASE sh.i = 2
    BY <1>1, <2>1, <2>4 DEF FilledEntry, ProcessRecord
  <2>5. CASE sh.i = 3
    BY ONLY <1>1, <2>1, <2>5 DEF FilledEntry, ProcessRecord
  <2>6. CASE sh.i = 4
    <3>1. q = [p EXCEPT !.exited = FALSE]
      BY <2>1, <2>6 DEF FilledEntry
    <3>2. /\ ~q.exited
          /\ q.used = p.used
          /\ q.pid = p.pid
          /\ q.address_space = p.address_space
          /\ q.main_tid = p.main_tid
          /\ q.reap_pending = p.reap_pending
      BY <2>1, <3>1 DEF ProcessRecord
    <3>3. q \in ProcessRecord
      BY ONLY <2>1, <3>1, Zenon DEF ProcessRecord
    <3> QED BY <2>6, <3>2, <3>3
  <2>7. CASE sh.i = 5
    <3>1. q = [p EXCEPT !.reap_pending = FALSE]
      BY <2>1, <2>7 DEF FilledEntry
    <3>2. /\ ~q.reap_pending
          /\ q.used = p.used
          /\ q.pid = p.pid
          /\ q.address_space = p.address_space
          /\ q.main_tid = p.main_tid
          /\ q.exited = p.exited
      BY <2>1, <3>1 DEF ProcessRecord
    <3>3. q \in ProcessRecord
      BY <2>1, <3>1, Zenon DEF ProcessRecord
    <3> QED BY <2>7, <3>2, <3>3
  <2>8. sh.i = 0 \/ sh.i = 1 \/ sh.i = 2 \/ sh.i = 3 \/ sh.i = 4 \/ sh.i = 5
    BY ONLY <1>1
  <2> QED BY ONLY <2>2, <2>3, <2>4, <2>5, <2>6, <2>7, <2>8, ZenonT(60)
<1>5. /\ proc_table' \in [Procs -> ProcessRecord]
      /\ \A i \in Procs \ {sh.slot} : proc_table'[i] = proc_table[i]
  BY <1>1, <1>4, ZenonT(60) DEF SpawnTable
<1> HIDE DEF p, q, t
<1>6. /\ \A i \in Procs \ {sh.slot} :
           /\ proc_table'[i] = proc_table[i]
           /\ proc_table[i].pid # sh.pid /\ proc_table[i].address_space # sh.as
      /\ proc_table[sh.slot] = p /\ proc_table'[sh.slot] = q
      /\ tasks[sh.tid] = t
  BY ONLY <1>2, <1>3, <1>5, Zenon DEF p, q, t
<1>a. /\ sh.i \in 0 .. 5 /\ sh.as # NULL
      /\ tasks' = tasks /\ next_pid' = next_pid /\ live' = live
  BY ONLY <1>1, ZenonT(60)
<1>b. q.used
  BY ONLY <1>a, <1>2, <1>4
<1>c. /\ sh.i >= 1 => p.used
      /\ sh.i >= 2 => p.pid = sh.pid
      /\ sh.i <= 2 => sh.as \in live
      /\ sh.i \in 0 .. 5
  BY ONLY <1>a, <1>2, Zenon
<1>d. /\ sh.i <= 3 => p.main_tid = -1
      /\ p.main_tid \in {-1, sh.tid}
      /\ Alive(t) /\ sh.i >= 4 => p.main_tid = sh.tid
      /\ Alive(t) /\ sh.i = 5 => ~p.exited
      /\ Alive(t) => sh.as \in live /\ ~p.reap_pending
      /\ sh.i \in 0 .. 5
  BY ONLY <1>a, <1>2, Zenon
<1>e. /\ sh.i = 1 => q.pid = sh.pid
      /\ sh.i # 1 => q.pid = p.pid
  BY ONLY <1>4, Zenon
<1>f. /\ sh.i = 2 => q.address_space = sh.as
      /\ sh.i # 2 => q.address_space = p.address_space
  BY ONLY <1>4, Zenon
<1>g. /\ sh.i = 3 => q.main_tid = sh.tid
      /\ sh.i # 3 => q.main_tid = p.main_tid
  BY ONLY <1>4, Zenon
<1>h. sh.i # 4 => (q.exited <=> p.exited)
  BY ONLY <1>4, Zenon
<1>k. /\ sh.i = 5 => ~q.reap_pending
      /\ sh.i # 5 => (q.reap_pending <=> p.reap_pending)
  BY ONLY <1>4, Zenon
<1>m. sh.i <= 2 => p.address_space = NULL /\ ~p.reap_pending
  BY ONLY <1>3, Zenon
<1>7. TableOK'
  <2>1. ASSUME NEW i \in Procs
        PROVE  /\ ~proc_table'[i].used => Blank(proc_table'[i])
               /\ proc_table'[i].pid < next_pid'
               /\ proc_table'[i].address_space # NULL => proc_table'[i].address_space \in live'
               /\ ~(proc_table'[i].reap_pending /\ proc_table'[i].address_space = NULL)
    <3>1. /\ ~proc_table[i].used => Blank(proc_table[i])
          /\ proc_table[i].pid < next_pid
          /\ proc_table[i].address_space # NULL => proc_table[i].address_space \in live
          /\ ~(proc_table[i].reap_pending /\ proc_table[i].address_space = NULL)
      BY <1>1 DEF ProcInv, TableOK
    <3>2. CASE i = sh.slot
      <4>1. /\ proc_table[i] = p /\ proc_table'[i] = q
            /\ next_pid' = next_pid /\ live' = live
        BY <1>1, <1>6, <3>2, Zenon
      <4>3. q.pid < next_pid
        BY ONLY <1>3, <1>4, <3>1, <4>1, ZenonT(60)
      <4>4. q.address_space # NULL => q.address_space \in live
        BY ONLY <1>c, <1>4, <3>1, <4>1
      <4>5. ~(q.reap_pending /\ q.address_space = NULL)
        BY ONLY <1>a, <1>3, <1>4, Zenon
      <4> QED BY ONLY <1>b, <4>1, <4>3, <4>4, <4>5, Zenon
    <3>3. CASE i # sh.slot
      BY ONLY <1>1, <1>6, <3>1, <3>3, Zenon
    <3> QED BY <3>2, <3>3, ZenonT(60)
  <2> QED BY <2>1 DEF TableOK
<1>8. PidsUnique'
  <2>1. ASSUME NEW j \in Procs \ {sh.slot}, proc_table'[j].used
        PROVE  /\ q.pid # 0 => q.pid # proc_table'[j].pid
               /\ q.address_space # NULL => q.address_space # proc_table'[j].address_space
    <3>1. /\ q.pid = sh.pid \/ q.pid = p.pid
          /\ q.address_space = sh.as \/ q.address_space = p.address_space
      BY ONLY <1>4, Zenon
    <3>2. /\ proc_table'[j] = proc_table[j]
          /\ proc_table[j].pid # sh.pid /\ proc_table[j].address_space # sh.as
      BY ONLY <1>6, Zenon
    <3>3. p.used => /\ p.pid # 0 => p.pid # proc_table[j].pid
                    /\ p.address_space # NULL =>
                         p.address_space # proc_table[j].address_space
      BY <1>1, <1>6, <2>1, <3>2, Zenon DEF ProcInv, PidsUnique
    <3>4. ~p.used => p.pid = 0 /\ p.address_space = NULL
      BY ONLY <1>c, <1>3
    <3> QED BY ONLY <3>1, <3>2, <3>3, <3>4, Zenon
  <2> SUFFICES ASSUME NEW i \in Procs, NEW j \in Procs, i # j,
                      proc_table'[i].used, proc_table'[j].used
               PROVE  /\ proc_table'[i].pid # 0 => proc_table'[i].pid # proc_table'[j].pid
                      /\ proc_table'[i].address_space # NULL =>
                           proc_table'[i].address_space # proc_table'[j].address_space
    BY DEF PidsUnique
  <2>2. CASE i = sh.slot
    BY ONLY <1>6, <2>1, <2>2, i # j, j \in Procs, proc_table'[j].used, Zenon
  <2>3. CASE j = sh.slot
    <3>1. /\ q.pid # 0 => q.pid # proc_table'[i].pid
          /\ q.address_space # NULL => q.address_space # proc_table'[i].address_space
      BY ONLY <2>1, <2>3, i # j, i \in Procs, proc_table'[i].used, Zenon
    <3> QED BY ONLY <1>6, <2>3, <3>1, Zenon
  <2>4. CASE i # sh.slot /\ j # sh.slot
    <3>1. proc_table'[i] = proc_table[i] /\ proc_table'[j] = proc_table[j]
      BY ONLY <1>6, <2>4, i \in Procs, j \in Procs, Zenon
    <3> QED BY <3>1, Zenon DEF ProcInv, PidsUnique
  <2> QED BY ONLY <2>2, <2>3, <2>4, Zenon
<1>9. TaskPids' /\ NoDangling'
  BY <1>1, TasksKeepLoaded, ZenonT(60) DEF ProcInv, TaskPids, NoDangling
<1>10. ASSUME NEW u \in Tids, Alive(tasks'[u]), tasks'[u].is_user, u # sh.tid
       PROVE  \E i \in Procs : Lists(proc_table[i], u)' 
  <2>1. PICK i \in Procs : Lists(proc_table[i], u)
    BY <1>1, <1>10, ZenonT(60) DEF ProcInv, AliveIsListed
  <2>2. i # sh.slot
    <3>1. u # -1
      BY ONLY u \in Tids, TaskAssumption DEF Tids
    <3>2. proc_table[i].main_tid = u
      BY ONLY <2>1, Zenon DEF Lists
    <3> QED BY ONLY <1>d, <1>6, <1>10, <3>1, <3>2, Zenon
  <2> QED BY ONLY <1>1, <1>6, <2>1, <2>2, SMTT(60) DEF Lists
<1>11. CASE sh.i < 5
  <2>1. /\ pc' = "spawn_table" /\ boot' = boot
        /\ sh' = [sh EXCEPT !.i = sh.i + 1]
    BY <1>11 DEF SpawnTable, Goto
  <2>2. /\ sh' \in ShellRecord /\ sh'.slot = sh.slot /\ sh'.as = sh.as
        /\ sh'.pid = sh.pid /\ sh'.tid = sh.tid /\ sh'.i = sh.i + 1
    BY <1>1, <2>1 DEF ShellRecord
  <2>3. ProcTypeOK' /\ LocalsOK'
    <3>1. ProcTypeOK'
      BY <1>1, <1>5, <2>1, <2>2, Zenon DEF ProcInv, ProcTypeOK
    <3> QED BY ONLY <1>1, <1>11, <2>1, <2>2, <3>1 DEF LocalsOK
  <2>4. AliveIsListed'
    BY ONLY <1>1, <1>2, <1>6, <1>10, <2>1, <2>2, Zenon DEF AliveIsListed
  <2>5. NoLeak'
    <3> SUFFICES ASSUME NEW a \in live, a # sh.as
                 PROVE  \E i \in Procs : proc_table'[i].address_space = a
      BY <1>1, <2>1, <2>2, Zenon DEF NoLeak
    <3>1. PICK i \in Procs : proc_table[i].address_space = a
      BY <1>1, ZenonT(60) DEF ProcInv, NoLeak
    <3>2. proc_table'[i].address_space = a
      <4>1. CASE i # sh.slot
        BY ONLY <1>6, <3>1, <4>1, i \in Procs, Zenon
      <4>2. CASE i = sh.slot
        <5>1. a # NULL
          BY <1>1, Zenon
        <5>2. p.address_space = a /\ proc_table'[i] = q
          BY ONLY <1>6, <3>1, <4>2, Zenon
        <5>3. sh.i # 2
          BY ONLY <1>m, <5>1, <5>2
        <5> QED BY ONLY <1>f, <5>2, <5>3, Zenon
      <4> QED BY ONLY <4>1, <4>2, Zenon
    <3> QED BY <3>2
  <2>i. sh'.i = sh.i + 1 /\ sh.i \in 0 .. 5
    BY ONLY <1>a, <2>2, Zenon
  <2>6. SpawnOK'
    <3>1. sh'.i <= 2 => q.address_space = NULL /\ ~q.reap_pending /\ q.main_tid = -1
      <4>1. sh'.i <= 2 => sh.i <= 2 /\ sh.i <= 3 /\ sh.i # 2 /\ sh.i # 3 /\ sh.i # 5
        BY ONLY <2>i
      <4> QED BY ONLY <1>d, <1>f, <1>g, <1>k, <1>m, <4>1, Zenon
    <3>2. \A i \in Procs : proc_table'[i].pid = sh.pid => i = sh.slot /\ sh'.i >= 2
      <4>1. p.pid = sh.pid => sh.i >= 2
        BY ONLY <1>1, <1>3, <1>6, Zenon
      <4>2. q.pid = sh.pid => sh'.i >= 2
        BY ONLY <1>e, <2>i, <4>1
      <4> QED BY ONLY <1>6, <4>2, Zenon
    <3> QED BY <1>1, <1>3, <1>6, <2>1, <2>2, <3>1, <3>2 DEF SpawnOK
  <2>7. FillOK'
    <3>1. /\ \A i \in Procs \ {sh.slot} : proc_table'[i].address_space # sh.as
          /\ q.used
          /\ sh'.i >= 2 => q.pid = sh.pid
          /\ sh'.i <= 2 => sh.as \in live'
          /\ sh'.i >= 3 => q.address_space = IF sh.as \in live' THEN sh.as ELSE NULL
          /\ sh'.i <= 3 => q.main_tid = -1
          /\ q.main_tid \in {-1, sh.tid}
      <4>1. /\ \A i \in Procs \ {sh.slot} : proc_table'[i].address_space # sh.as
            /\ q.used
        BY ONLY <1>b, <1>6, ZenonT(60)
      <4>2. sh'.i >= 2 => q.pid = sh.pid
        BY ONLY <1>c, <1>e, <2>i
      <4>3. sh'.i <= 2 => sh.as \in live'
        BY ONLY <1>a, <1>c, <2>i
      <4>4. sh'.i >= 3 => q.address_space = IF sh.as \in live' THEN sh.as ELSE NULL
        <5>1. CASE sh.i = 2
          BY ONLY <1>a, <1>c, <1>f, <5>1
        <5>2. CASE sh.i >= 3
          <6>1. p.address_space = IF sh.as \in live THEN sh.as ELSE NULL
            BY ONLY <1>2, <5>2, Zenon
          <6>2. sh.i # 2
            BY ONLY <1>a, <5>2
          <6> QED BY ONLY <1>a, <1>f, <6>1, <6>2, Zenon
        <5> QED BY ONLY <1>a, <2>i, <5>1, <5>2
      <4>5. sh'.i <= 3 => q.main_tid = -1
        BY ONLY <1>d, <1>g, <2>i
      <4>6. q.main_tid \in {-1, sh.tid}
        BY ONLY <1>d, <1>g, Zenon
      <4> QED BY ONLY <4>1, <4>2, <4>3, <4>4, <4>5, <4>6, Zenon
    <3>2. Alive(t) =>
             /\ sh.as \in live'
             /\ ~q.reap_pending
             /\ sh'.i >= 4 => q.main_tid = sh.tid
             /\ sh'.i = 5 => ~q.exited
      <4> SUFFICES ASSUME Alive(t)
                   PROVE  /\ sh.as \in live'
                          /\ ~q.reap_pending
                          /\ sh'.i >= 4 => q.main_tid = sh.tid
                          /\ sh'.i = 5 => ~q.exited
        BY Zenon
      <4>1. sh.as \in live' /\ ~q.reap_pending
        BY ONLY <1>a, <1>d, <1>k, Alive(t), ZenonT(60)
      <4>2. sh'.i >= 4 => q.main_tid = sh.tid
        BY ONLY <1>d, <1>g, <2>i, Alive(t)
      <4>3. sh'.i = 5 => ~q.exited
        <5>1. sh'.i = 5 => sh.i = 4
          BY ONLY <2>i
        <5> QED BY ONLY <1>4, <5>1, Zenon
      <4> QED BY ONLY <4>1, <4>2, <4>3, Zenon
    <3>3. tasks'[sh'.tid] = t /\ proc_table'[sh'.slot] = q
      BY <1>1, <1>6, <2>2, Zenon
    <3>4. /\ t.is_user /\ t.pid = sh.pid /\ t.address_space = sh.as
          /\ sh'.slot = sh.slot /\ sh'.as = sh.as /\ sh'.pid = sh.pid /\ sh'.tid = sh.tid
      BY ONLY <1>2, <2>2, Zenon
    <3> QED BY ONLY <3>1, <3>2, <3>3, <3>4, ZenonT(60) DEF FillOK
  <2>8. SecondDestroyIsIdle' /\ KillOK' /\ ReapOK'
    BY ONLY <2>1, Zenon DEF SecondDestroyIsIdle, KillOK, ReapOK
  <2> QED BY <1>7, <1>8, <1>9, <2>3, <2>4, <2>5, <2>6, <2>7, <2>8 DEF ProcInv
<1>12. CASE sh.i = 5
  <2>1. sh' = NoLocals /\ pc' \in {"reap", "spawn_slot", "sleep"} /\ boot' \in Nat
    BY <1>12, SpawnReturnsLands DEF ProcInv, SpawnTable
  <2>2. ProcTypeOK'
    BY <1>1, <1>5, <2>1, LandKeeps, ZenonT(60) DEF ProcInv, ProcTypeOK
  <2>3. AliveIsListed'
    <3>1. ASSUME NEW u \in Tids, u = sh.tid, Alive(tasks'[u])
          PROVE  \E i \in Procs : Lists(proc_table[i], u)'
      <4>1. PICK k \in Procs : k = sh.slot
        BY <1>1, Zenon
      <4>a. Alive(t)
        BY ONLY <1>a, <1>6, <3>1, Zenon
      <4>b. q.used /\ ~q.exited /\ ~q.reap_pending /\ q.pid = sh.pid /\ q.main_tid = u
        <5>1. sh.i >= 2 /\ sh.i >= 4 /\ sh.i # 1 /\ sh.i # 3 /\ sh.i # 4
          BY ONLY <1>12
        <5> QED BY ONLY <1>b, <1>c, <1>d, <1>e, <1>g, <1>h, <1>k, <1>12, <3>1, <4>a, <5>1, Zenon
      <4>c. q.address_space = sh.as
        <5>1. p.address_space = IF sh.as \in live THEN sh.as ELSE NULL
          BY ONLY <1>2, <1>12
        <5> QED BY ONLY <1>d, <1>4, <1>12, <4>a, <5>1, Zenon
      <4>2. /\ q.used /\ ~q.exited /\ ~q.reap_pending
            /\ q.pid = t.pid /\ q.main_tid = u /\ q.address_space = t.address_space
        BY ONLY <1>2, <4>b, <4>c, ZenonT(60)
      <4>3. Lists(proc_table[k], u)'
        BY <1>1, <1>6, <3>1, <4>1, <4>2 DEF Lists
      <4> QED BY <4>3
    <3> QED BY <1>1, <1>10, <3>1, Zenon DEF AliveIsListed
  <2>4. NoLeak'
    <3> SUFFICES ASSUME NEW a \in live
                 PROVE  \E i \in Procs : proc_table'[i].address_space = a
      BY <1>1, ZenonT(60) DEF NoLeak
    <3>1. PICK i \in Procs : proc_table[i].address_space = a
      <4>1. CASE a = sh.as
        <5>1. sh.i >= 3
          BY ONLY <1>12
        <5>2. p.address_space = sh.as
          BY ONLY <1>2, <4>1, <5>1, a \in live, Zenon
        <5> QED BY ONLY <1>1, <1>6, <4>1, <5>2, Zenon
      <4>2. CASE a # sh.as
        BY <1>1, <4>2, ZenonT(60) DEF ProcInv, NoLeak
      <4> QED BY ONLY <4>1, <4>2, Zenon
    <3>2. proc_table'[i].address_space = a
      <4>1. sh.i # 2
        BY ONLY <1>12
      <4> QED BY ONLY <1>6, <1>f, <3>1, <4>1, i \in Procs, Zenon
    <3> QED BY ONLY <3>2, Zenon
  <2> QED BY ONLY <1>7, <1>8, <1>9, <2>1, <2>2, <2>3, <2>4, LandKeeps, Zenon DEF ProcInv
<1> QED BY <1>1, <1>11, <1>12

-----------------------------------------------------------------------------
(* The commands of the shell. *)

\* Entering a command and the sleep of the shell keep ProcInv.
LEMMA InputKeeps ==
  ASSUME TaskInv, TaskInv', ProcInv, ShellInput \/ ShellSleep
  PROVE  ProcInv'
<1> USE DEF SpawnLabels, ReapLabels, KillLabels, WaitLabels, OwnerLabels, PidLabels
<1>1. CASE NoInput \/ SpawnCommand
  BY <1>1, SameTasksFade, IdleKeeps DEF NoInput, SpawnCommand, At, Goto
<1>2. CASE ShellSleep
  BY <1>2, StepFades, IdleKeeps, Zenon DEF ShellSleep, At, Goto
<1>3. ASSUME NEW pid \in Pids, KillCommand(pid) \/ WaitCommand(pid)
      PROVE  ProcInv'
  <2>1. /\ pc = "drain" /\ pc' \in {"kill_find", "reap"} /\ boot' = boot
        /\ TasksFade /\ UNCHANGED procVars
    BY <1>3, SameTasksFade DEF KillCommand, WaitCommand, At, Goto
  <2>2. sh' \in ShellRecord /\ sh'.pid = pid /\ sh'.as = NULL /\ sh'.i = 0
    <3>1. NoLocals \in ShellRecord /\ NoLocals.as = NULL /\ NoLocals.i = 0
      BY DEF NoLocals, ShellRecord
    <3>2. CASE KillCommand(pid)
      BY <3>1, <3>2 DEF KillCommand, ShellRecord
    <3>3. CASE WaitCommand(pid)
      BY <3>1, <3>3, ZenonT(60) DEF WaitCommand, ShellRecord
    <3> QED BY ONLY <1>3, <3>2, <3>3
  <2>3. TableOK' /\ PidsUnique' /\ TaskPids' /\ AliveIsListed' /\ NoDangling' /\ NoLeak'
    BY <2>1, QuietKeeps
  <2>4. ProcTypeOK'
    BY <2>1, <2>2 DEF ProcInv, ProcTypeOK, procVars
  <2>5. LocalsOK'
    BY <2>1, <2>2, ProcessAssumption DEF LocalsOK
  <2>6. SecondDestroyIsIdle' /\ SpawnOK' /\ FillOK' /\ KillOK' /\ ReapOK'
    BY <2>1, ZenonT(60) DEF SecondDestroyIsIdle, SpawnOK, FillOK, KillOK, ReapOK
  <2> QED BY <2>3, <2>4, <2>5, <2>6 DEF ProcInv
<1> QED BY <1>1, <1>2, <1>3 DEF ShellInput

\* What find_process_by_pid returns.
LEMMA FindProcess ==
  ASSUME NEW pid
  PROVE  LET k == find_process_by_pid(pid)
         IN  \/ k = -1 /\ \A i \in Procs : ~(proc_table[i].used /\ proc_table[i].pid = pid)
             \/ k \in Procs /\ proc_table[k].used /\ proc_table[k].pid = pid
<1> DEFINE found == {i \in Procs : proc_table[i].used /\ proc_table[i].pid = pid}
<1>1. found \subseteq Nat
  BY DEF Procs
<1>2. found # {} => Least(found) \in found
  <2> HIDE DEF found
  <2> QED BY <1>1, LeastExists, Zenon DEF Least
<1> QED BY <1>2 DEF find_process_by_pid

\* The search of process_kill keeps ProcInv.
LEMMA KillFindKeeps ==
  ASSUME TaskInv, TaskInv', ProcInv, KillFind
  PROVE  ProcInv'
<1> USE DEF SpawnLabels, ReapLabels, KillLabels, WaitLabels, OwnerLabels, PidLabels
<1> DEFINE k == find_process_by_pid(sh.pid)
<1>1. pc = "kill_find" /\ TasksFade /\ UNCHANGED procVars
  BY SameTasksFade DEF KillFind, At
<1>2. CASE EndCommand
  BY <1>1, <1>2, EndKeeps, Zenon
<1>3. CASE ~(k < 0) /\ Goto("kill_task") /\ sh' = [sh EXCEPT !.slot = k]
  <2>1. k \in Procs /\ proc_table[k].used /\ proc_table[k].pid = sh.pid
    BY <1>3, FindProcess
  <2> HIDE DEF k
  <2>2. /\ sh \in ShellRecord /\ sh.as = NULL /\ sh.i = 0 /\ sh.pid \in Pids
        /\ pc' = "kill_task" /\ boot' = boot
    BY <1>1, <1>3, Zenon DEF ProcInv, ProcTypeOK, LocalsOK, Goto
  <2>3. /\ sh' \in ShellRecord /\ sh'.slot = k
        /\ sh'.as = NULL /\ sh'.i = 0 /\ sh'.pid = sh.pid
    BY <1>3, <2>1, <2>2 DEF ShellRecord
  <2>4. TableOK' /\ PidsUnique' /\ TaskPids' /\ AliveIsListed' /\ NoDangling' /\ NoLeak'
    BY <1>1, QuietKeeps, ZenonT(60)
  <2>5. ProcTypeOK'
    BY <1>1, <2>2, <2>3 DEF ProcInv, ProcTypeOK, procVars
  <2>6. LocalsOK'
    BY ONLY <2>1, <2>2, <2>3 DEF LocalsOK
  <2>7. KillOK'
    BY <1>1, <2>1, <2>2, <2>3 DEF KillOK, procVars
  <2>8. SecondDestroyIsIdle' /\ SpawnOK' /\ FillOK' /\ ReapOK'
    BY <2>2, Zenon DEF SecondDestroyIsIdle, SpawnOK, FillOK, ReapOK
  <2> QED BY ONLY <2>4, <2>5, <2>6, <2>7, <2>8 DEF ProcInv
<1> QED BY <1>2, <1>3 DEF KillFind

\* Killing the task keeps ProcInv.
LEMMA KillTaskKeeps ==
  ASSUME TaskInv, TaskInv', ProcInv, KillTask
  PROVE  ProcInv'
<1> USE DEF SpawnLabels, ReapLabels, KillLabels, WaitLabels, OwnerLabels, PidLabels
<1> DEFINE found == {i \in Tids : tasks[i].pid = sh.pid /\ Alive(tasks[i])}
           t == Least(found)
<1>1. pc = "kill_task" /\ TasksFade /\ UNCHANGED <<procVars, tasks>>
  BY SameTasksFade DEF KillTask, At
<1>2. CASE EndCommand
  BY <1>1, <1>2, EndKeeps, Zenon
<1>3. CASE found # {} /\ Goto("kill_mark") /\ sh' = [sh EXCEPT !.tid = t]
  <2>1. t \in Tids /\ tasks[t].pid = sh.pid /\ Alive(tasks[t])
    <3>1. found \subseteq Nat
      BY DEF Tids
    <3>2. t \in found
      <4> HIDE DEF found
      <4> QED BY <1>3, <3>1, LeastExists, Zenon DEF Least
    <3> QED BY ONLY <3>2
  <2> HIDE DEF found, t
  <2>2. /\ sh \in ShellRecord /\ sh.as = NULL /\ sh.i = 0 /\ sh.pid \in Pids
        /\ sh.slot \in Procs /\ sh.pid # 0
        /\ pc' = "kill_mark" /\ boot' = boot
    BY <1>1, <1>3, TaskAssumption, Zenon DEF ProcInv, ProcTypeOK, LocalsOK, Goto
  <2>3. /\ sh' \in ShellRecord /\ sh'.slot = sh.slot /\ sh'.tid = t
        /\ sh'.as = NULL /\ sh'.i = 0 /\ sh'.pid = sh.pid
    BY ONLY <1>3, <2>1, <2>2 DEF ShellRecord
  <2>4. TableOK' /\ PidsUnique' /\ TaskPids' /\ AliveIsListed' /\ NoDangling' /\ NoLeak'
    BY <1>1, QuietKeeps, ZenonT(60)
  <2>5. ProcTypeOK'
    BY <1>1, <2>2, <2>3 DEF ProcInv, ProcTypeOK, procVars
  <2>6. LocalsOK'
    BY <2>1, <2>2, <2>3, Zenon DEF LocalsOK
  <2>7. KillOK'
    <3>1. tasks[t].is_user
      BY <2>1, <2>2 DEF ProcInv, TaskPids
    <3>2. PICK j \in Procs : Lists(proc_table[j], t)
      BY <1>1, <2>1, <3>1, ZenonT(60) DEF ProcInv, AliveIsListed
    <3>3. proc_table[sh.slot].used /\ proc_table[sh.slot].pid = sh.pid
      BY <1>1, Zenon DEF ProcInv, KillOK
    <3>4. j = sh.slot
      BY <2>1, <2>2, <3>2, <3>3, Zenon DEF ProcInv, PidsUnique, Lists
    <3>5. proc_table[sh.slot].main_tid = t
      BY <3>2, <3>4 DEF Lists
    <3> QED BY <1>1, <2>2, <2>3, <3>3, <3>5, Zenon DEF KillOK, procVars
  <2>8. SecondDestroyIsIdle' /\ SpawnOK' /\ FillOK' /\ ReapOK'
    BY <2>2, Zenon DEF SecondDestroyIsIdle, SpawnOK, FillOK, ReapOK
  <2> QED BY <2>4, <2>5, <2>6, <2>7, <2>8 DEF ProcInv
<1> QED BY <1>2, <1>3 DEF KillTask

\* Marking the entry of the killed task keeps ProcInv.
LEMMA KillMarkKeeps ==
  ASSUME TaskInv, TaskInv', ProcInv, KillMark
  PROVE  ProcInv'
<1> USE DEF SpawnLabels, ReapLabels, KillLabels, WaitLabels, OwnerLabels, PidLabels
<1>1. /\ pc = "kill_mark" /\ pc' = "kill_exited" /\ boot' = boot
      /\ UNCHANGED procVars /\ sh' = sh /\ task_kill(sh.tid)
  BY DEF KillMark, At, Goto
<1>2. sh.tid \in Tids
  BY <1>1 DEF ProcInv, LocalsOK
<1>3. TasksFade
  BY <1>1, <1>2, StepFades, Zenon
<1>4. ~Alive(tasks'[sh.tid])
  BY <1>1, <1>2, Zenon DEF task_kill, SetState, Alive, TaskInv, TypeOK, TaskRecord
<1>5. TableOK' /\ PidsUnique' /\ TaskPids' /\ AliveIsListed' /\ NoDangling' /\ NoLeak'
  BY <1>1, <1>3, QuietKeeps
<1>6. ProcTypeOK' /\ LocalsOK'
  BY <1>1, Zenon DEF ProcInv, ProcTypeOK, LocalsOK, procVars
<1>7. KillOK'
  BY <1>1, <1>4 DEF ProcInv, KillOK, procVars
<1>8. SecondDestroyIsIdle' /\ SpawnOK' /\ FillOK' /\ ReapOK'
  BY <1>1, Zenon DEF SecondDestroyIsIdle, SpawnOK, FillOK, ReapOK
<1> QED BY ONLY <1>5, <1>6, <1>7, <1>8 DEF ProcInv

\* The kill's second half: its task is gone by then, so that the entry may be
\* marked although the process may have exited and been reaped on its own.
LEMMA KillExitedKeeps ==
  ASSUME TaskInv, TaskInv', ProcInv, KillExited
  PROVE  ProcInv'
<1> USE DEF SpawnLabels, ReapLabels, KillLabels, WaitLabels, OwnerLabels, PidLabels
<1>1. /\ pc = "kill_exited" /\ TasksFade /\ UNCHANGED <<tasks, next_pid, live>>
      /\ sh' = NoLocals /\ pc' = "reap" /\ boot' = boot
  BY SameTasksFade DEF KillExited, At, EndCommand, Goto
<1>2. /\ sh.slot \in Procs /\ sh.tid \in Tids /\ ~Alive(tasks[sh.tid])
      /\ proc_table[sh.slot].used /\ proc_table[sh.slot].main_tid \in {-1, sh.tid}
      /\ proc_table \in [Procs -> ProcessRecord]
      /\ sh.as = NULL /\ NULL \notin live
  BY <1>1, TaskAssumption DEF ProcInv, ProcTypeOK, LocalsOK, KillOK
<1>3. /\ proc_table' \in [Procs -> ProcessRecord]
      /\ \A i \in Procs :
           /\ proc_table'[i].used = proc_table[i].used
           /\ proc_table'[i].pid = proc_table[i].pid
           /\ proc_table'[i].address_space = proc_table[i].address_space
           /\ proc_table'[i].main_tid = proc_table[i].main_tid
           /\ i # sh.slot => proc_table'[i] = proc_table[i]
  BY <1>2, MarkEffect DEF KillExited
<1>4. ProcTypeOK'
  BY <1>1, <1>3, LandKeeps, Zenon DEF ProcInv, ProcTypeOK
<1>5. TableOK' /\ PidsUnique'
  <2>1. PidsUnique'
    BY <1>3, SMTT(60) DEF ProcInv, PidsUnique
  <2>2. \A i \in Procs : ~proc_table'[i].used => Blank(proc_table'[i])
    BY <1>2, <1>3, Zenon DEF ProcInv, TableOK
  <2>3. \A i \in Procs : pc' \in ReapLabels /\ sh'.i <= i
    BY ONLY <1>1 DEF Procs, NoLocals
  <2> QED BY <1>1, <1>3, <2>1, <2>2, <2>3, ZenonT(60) DEF ProcInv, TableOK
<1>6. TaskPids' /\ NoDangling'
  BY <1>1, TasksKeepLoaded, Zenon DEF ProcInv, TaskPids, NoDangling
<1>7. AliveIsListed'
  <2> SUFFICES ASSUME NEW t \in Tids, Alive(tasks[t]), tasks[t].is_user
               PROVE  \E i \in Procs : Lists(proc_table[i], t)'
    BY <1>1 DEF AliveIsListed
  <2>1. PICK i \in Procs : Lists(proc_table[i], t)
    BY <1>1, Zenon DEF ProcInv, AliveIsListed
  <2>2. i # sh.slot
    BY <1>2, <2>1 DEF Lists, Tids
  <2> QED BY ONLY <1>1, <1>3, <2>1, <2>2 DEF Lists
<1>8. NoLeak'
  BY <1>1, <1>2, <1>3 DEF ProcInv, NoLeak
<1> QED BY ONLY <1>1, <1>4, <1>5, <1>6, <1>7, <1>8, LandKeeps DEF ProcInv

\* A look of process_wait at the entry keeps ProcInv.
LEMMA WaitPollKeeps ==
  ASSUME TaskInv, TaskInv', ProcInv, WaitPoll
  PROVE  ProcInv'
<1> USE DEF SpawnLabels, ReapLabels, KillLabels, WaitLabels, OwnerLabels, PidLabels
<1> DEFINE k == find_process_by_pid(sh.pid)
           p == proc_table[k]
<1>1. /\ pc = "wait_poll" /\ TasksFade /\ UNCHANGED <<tasks, next_pid, live>>
  BY SameTasksFade DEF WaitPoll, At
<1>2. CASE EndCommand /\ proc_table' = proc_table
  BY <1>1, <1>2, EndKeeps DEF procVars
<1>3. CASE Goto("wait_yield") /\ UNCHANGED <<proc_table, sh>>
  <2>1. pc' = "wait_yield" /\ boot' = boot /\ sh' = sh /\ UNCHANGED procVars
    BY <1>1, <1>3 DEF Goto, procVars
  <2>2. TableOK' /\ PidsUnique' /\ TaskPids' /\ AliveIsListed' /\ NoDangling' /\ NoLeak'
    BY <1>1, <2>1, QuietKeeps, Zenon
  <2>3. ProcTypeOK' /\ LocalsOK'
    BY <1>1, <2>1, Zenon DEF ProcInv, ProcTypeOK, LocalsOK, procVars
  <2>4. SecondDestroyIsIdle' /\ SpawnOK' /\ FillOK' /\ KillOK' /\ ReapOK'
    BY ONLY <2>1, Zenon DEF SecondDestroyIsIdle, SpawnOK, FillOK, KillOK, ReapOK
  <2> QED BY <2>2, <2>3, <2>4 DEF ProcInv
<1>4. CASE /\ k >= 0 /\ p.exited /\ ~p.reap_pending /\ p.address_space = NULL
           /\ proc_table' = [proc_table EXCEPT ![k] = NoProcess]
           /\ EndCommand
  <2>1. k \in Procs
    BY <1>4, FindProcess
  <2> HIDE DEF k
  <2>2. /\ sh' = NoLocals /\ pc' = "reap" /\ boot' = boot
        /\ sh.as = NULL /\ NULL \notin live /\ proc_table \in [Procs -> ProcessRecord]
    BY <1>1, <1>4, TaskAssumption DEF EndCommand, Goto, ProcInv, ProcTypeOK, LocalsOK
  <2>3. /\ NoProcess \in ProcessRecord /\ ~NoProcess.used /\ NoProcess.pid = 0
        /\ NoProcess.address_space = NULL /\ ~NoProcess.reap_pending
        /\ Blank(NoProcess)
    BY DEF NoProcess, ProcessRecord, Blank
  <2>4. /\ proc_table' \in [Procs -> ProcessRecord]
        /\ proc_table'[k] = NoProcess
        /\ \A i \in Procs : i # k => proc_table'[i] = proc_table[i]
    BY <1>4, <2>1, <2>2, <2>3
  <2>5. ProcTypeOK'
    BY <1>1, <2>2, <2>4, LandKeeps, ZenonT(60) DEF ProcInv, ProcTypeOK
  <2>6. TableOK' /\ PidsUnique'
    <3>1. PidsUnique'
      BY <2>3, <2>4 DEF ProcInv, PidsUnique
    <3>2. proc_table[k].pid \in Nat /\ next_pid \in Nat /\ proc_table[k].pid < next_pid
      <4>1. proc_table[k].pid \in Pids \cup {0}
        BY <2>1, <2>2 DEF ProcessRecord
      <4> QED BY <2>1, <4>1, PidIsNat, Zenon DEF ProcInv, ProcTypeOK, TableOK
    <3>3. NoProcess.pid < next_pid'
      BY <1>1, <2>3, <3>2
    <3> QED BY <1>1, <2>3, <2>4, <3>1, <3>3, ZenonT(60) DEF ProcInv, TableOK
  <2>7. TaskPids' /\ NoDangling'
    BY <1>1, TasksKeepLoaded, ZenonT(60) DEF ProcInv, TaskPids, NoDangling
  <2>8. AliveIsListed'
    <3> SUFFICES ASSUME NEW t \in Tids, Alive(tasks[t]), tasks[t].is_user
                 PROVE  \E i \in Procs : Lists(proc_table[i], t)'
      BY <1>1, Zenon DEF AliveIsListed
    <3>1. PICK i \in Procs : Lists(proc_table[i], t)
      BY <1>1, Zenon DEF ProcInv, AliveIsListed
    <3>2. i # k
      BY ONLY <1>4, <3>1 DEF Lists
    <3> QED BY <1>1, <2>4, <3>1, <3>2, Zenon DEF Lists
  <2>9. NoLeak'
    BY <1>1, <1>4, <2>2, <2>4 DEF ProcInv, NoLeak
  <2> QED BY ONLY <2>2, <2>5, <2>6, <2>7, <2>8, <2>9, LandKeeps DEF ProcInv
<1> QED BY <1>2, <1>3, <1>4, Zenon DEF WaitPoll

-----------------------------------------------------------------------------
(* process_reap_deferred in the shell. *)

\* An entry whose address space no longer exists is cleared, and the reaper
\* goes on to the next one.
LEMMA ReapedKeeps ==
  ASSUME TaskInv, TaskInv', ProcInv, UNCHANGED <<taskVars, next_pid, live>>,
         pc \in {"reap", "reap_clear"}, sh.i \in Procs, Goto("reap"),
         proc_table' = [proc_table EXCEPT ![sh.i] = Reaped(@)],
         sh' = [sh EXCEPT !.i = @ + 1],
         proc_table[sh.i].reap_pending \/ proc_table[sh.i].main_tid = -1,
         proc_table[sh.i].address_space \notin live
  PROVE  ProcInv'
<1> USE DEF SpawnLabels, ReapLabels, KillLabels, WaitLabels, OwnerLabels, PidLabels
<1>1. /\ TasksFade /\ UNCHANGED tasks /\ pc' = "reap" /\ boot' = boot
      /\ proc_table \in [Procs -> ProcessRecord] /\ sh \in ShellRecord
      /\ sh.as = NULL /\ NULL \notin live
  BY SameTasksFade, TaskAssumption DEF Goto, ProcInv, ProcTypeOK, LocalsOK
<1>2. /\ sh' \in ShellRecord /\ sh'.i = sh.i + 1 /\ sh'.as = NULL
      /\ sh'.i \in 0 .. MAX_PROCESSES
  BY <1>1, ProcessAssumption, SMTT(60) DEF ShellRecord, Procs
<1>3. PICK k \in Procs : k = sh.i
  OBVIOUS
<1>4. /\ proc_table' \in [Procs -> ProcessRecord]
      /\ \A i \in Procs : i # k => proc_table'[i] = proc_table[i]
      /\ proc_table'[k].used = proc_table[k].used
      /\ proc_table'[k].pid = proc_table[k].pid
      /\ proc_table'[k].exited = proc_table[k].exited
      /\ proc_table'[k].address_space = NULL
      /\ proc_table'[k].main_tid = -1
      /\ ~proc_table'[k].reap_pending
  <2> DEFINE r == Reaped(proc_table[k])
  <2>1. proc_table[k] \in ProcessRecord
    BY <1>1
  <2>2. /\ r \in ProcessRecord /\ r.used = proc_table[k].used /\ r.pid = proc_table[k].pid
        /\ r.exited = proc_table[k].exited /\ r.address_space = NULL
        /\ r.main_tid = -1 /\ ~r.reap_pending
    BY ONLY <2>1, ReapedEffect, Zenon
  <2>3. proc_table' = [proc_table EXCEPT ![k] = r]
    BY <1>3, Zenon
  <2> HIDE DEF r
  <2> QED BY ONLY <1>1, <1>3, <2>2, <2>3
<1>5. ProcTypeOK' /\ LocalsOK'
  BY <1>1, <1>2, <1>4, Zenon DEF ProcInv, ProcTypeOK, LocalsOK
<1>6. PidsUnique'
  BY <1>4 DEF ProcInv, PidsUnique
<1>7. TableOK'
  <2>1. ~proc_table'[k].used => Blank(proc_table'[k])
    BY <1>4 DEF ProcInv, TableOK, Blank
  <2>2. \A i \in Procs :
          i # k /\ proc_table[i].reap_pending /\ proc_table[i].address_space = NULL => sh'.i <= i
    BY <1>2, <1>3 DEF ProcInv, TableOK, Procs
  <2> QED BY <1>1, <1>3, <1>4, <2>1, <2>2, Zenon DEF ProcInv, TableOK
<1>8. TaskPids' /\ NoDangling'
  BY <1>1, TasksKeepLoaded DEF ProcInv, TaskPids, NoDangling
<1>9. AliveIsListed'
  <2> SUFFICES ASSUME NEW t \in Tids, Alive(tasks[t]), tasks[t].is_user
               PROVE  \E i \in Procs : Lists(proc_table[i], t)'
    BY <1>1 DEF AliveIsListed
  <2>1. PICK i \in Procs : Lists(proc_table[i], t)
    BY DEF ProcInv, AliveIsListed
  <2>2. i # k
    BY <1>3, <2>1 DEF Lists, Tids
  <2> QED BY <1>1, <1>4, <2>1, <2>2 DEF Lists
<1>10. NoLeak'
  BY <1>1, <1>3, <1>4 DEF ProcInv, NoLeak
<1>11. SecondDestroyIsIdle' /\ SpawnOK' /\ FillOK' /\ KillOK' /\ ReapOK'
  BY <1>1 DEF SecondDestroyIsIdle, SpawnOK, FillOK, KillOK, ReapOK
<1> QED BY ONLY <1>5, <1>6, <1>7, <1>8, <1>9, <1>10, <1>11, Zenon DEF ProcInv

\* The reaper's look at an entry keeps ProcInv.
LEMMA ReapCheckKeeps ==
  ASSUME TaskInv, TaskInv', ProcInv, ReapCheck
  PROVE  ProcInv'
<1> USE DEF SpawnLabels, ReapLabels, KillLabels, WaitLabels, OwnerLabels, PidLabels
<1> DEFINE p == proc_table[sh.i]
           due == p.used /\ p.reap_pending
<1>1. /\ pc = "reap" /\ TasksFade /\ UNCHANGED <<tasks, taskVars, next_pid, live>>
      /\ sh \in ShellRecord /\ sh.i \in 0 .. MAX_PROCESSES /\ sh.as = NULL
      /\ NULL \notin live /\ proc_table \in [Procs -> ProcessRecord]
  BY SameTasksFade, TaskAssumption DEF ReapCheck, At, ProcInv, ProcTypeOK, LocalsOK
<1>2. sh.i < MAX_PROCESSES => sh.i \in Procs
  BY <1>1, ProcessAssumption DEF Procs
<1>3. ASSUME proc_table' = proc_table, pc' \notin SpawnLabels
      PROVE  PidsUnique' /\ TaskPids' /\ AliveIsListed' /\ NoDangling' /\ NoLeak'
  <2>1. PidsUnique' /\ TaskPids'
    BY <1>1, <1>3, ZenonT(60) DEF ProcInv, PidsUnique, TaskPids
  <2>2. AliveIsListed'
    <3> SUFFICES ASSUME NEW t \in Tids, Alive(tasks[t]), tasks[t].is_user
                 PROVE  \E i \in Procs : Lists(proc_table[i], t)'
      BY <1>1, ZenonT(60) DEF AliveIsListed
    <3>1. PICK i \in Procs : Lists(proc_table[i], t)
      BY <1>1, Zenon DEF ProcInv, AliveIsListed
    <3> QED BY <1>1, <1>3, <3>1, SMTT(60) DEF Lists
  <2>3. NoLeak'
    BY <1>1, <1>3, SMTT(60) DEF ProcInv, NoLeak
  <2>4. NoDangling'
    BY <1>1, TasksKeepLoaded, SMTT(60) DEF ProcInv, NoDangling
  <2> QED BY <2>1, <2>2, <2>3, <2>4
<1>4. CASE sh.i = MAX_PROCESSES /\ Goto(sh.ret) /\ sh' = [sh EXCEPT !.i = 0]
           /\ UNCHANGED proc_table
  <2>1. /\ pc' \in {"drain", "wait_poll"} /\ boot' = boot
        /\ sh' \in ShellRecord /\ sh'.i = 0 /\ sh'.as = NULL
    BY <1>1, <1>4 DEF Goto, ShellRecord
  <2>2. ProcTypeOK' /\ LocalsOK'
    BY <1>1, <1>4, <2>1 DEF ProcInv, ProcTypeOK, LocalsOK
  <2>3. TableOK'
    <3>1. \A i \in Procs : ~(sh.i <= i)
      BY <1>4, ProcessAssumption DEF Procs
    <3> QED BY <1>1, <1>4, <3>1, Zenon DEF ProcInv, TableOK
  <2>4. SecondDestroyIsIdle' /\ SpawnOK' /\ FillOK' /\ KillOK' /\ ReapOK'
    BY <2>1, Zenon DEF SecondDestroyIsIdle, SpawnOK, FillOK, KillOK, ReapOK
  <2> QED BY <1>3, <1>4, <2>1, <2>2, <2>3, <2>4 DEF ProcInv
<1>5. CASE /\ sh.i < MAX_PROCESSES /\ ~due /\ proc_table' = proc_table
           /\ sh' = [sh EXCEPT !.i = @ + 1] /\ Goto("reap")
  <2>1. /\ pc' = "reap" /\ boot' = boot
        /\ sh' \in ShellRecord /\ sh'.i = sh.i + 1 /\ sh'.as = NULL
        /\ sh'.i \in 0 .. MAX_PROCESSES
    BY <1>1, <1>5, ProcessAssumption DEF Goto, ShellRecord
  <2>2. ProcTypeOK' /\ LocalsOK'
    BY <1>1, <1>5, <2>1 DEF ProcInv, ProcTypeOK, LocalsOK
  <2>3. TableOK'
    <3>1. ~p.reap_pending
      BY <1>2, <1>5, Zenon DEF ProcInv, TableOK, Blank
    <3>2. \A i \in Procs :
            proc_table[i].reap_pending /\ proc_table[i].address_space = NULL => sh'.i <= i
      BY <1>1, <2>1, <3>1, SMTT(60) DEF ProcInv, TableOK, Procs
    <3> QED BY <1>1, <1>5, <2>1, <3>2 DEF ProcInv, TableOK
  <2>4. SecondDestroyIsIdle' /\ SpawnOK' /\ FillOK' /\ KillOK' /\ ReapOK'
    BY <2>1, Zenon DEF SecondDestroyIsIdle, SpawnOK, FillOK, KillOK, ReapOK
  <2> QED BY <1>3, <1>5, <2>1, <2>2, <2>3, <2>4 DEF ProcInv
<1>6. CASE /\ sh.i < MAX_PROCESSES /\ due /\ p.address_space = NULL
           /\ proc_table' = [proc_table EXCEPT ![sh.i] = Reaped(@)]
           /\ sh' = [sh EXCEPT !.i = @ + 1] /\ Goto("reap")
  BY <1>1, <1>2, <1>6, ReapedKeeps
<1>7. CASE /\ sh.i < MAX_PROCESSES /\ due
           /\ Goto("reap_arg") /\ UNCHANGED <<proc_table, sh>>
  <2>1. pc' = "reap_arg" /\ boot' = boot /\ sh' = sh /\ proc_table' = proc_table
    BY <1>7 DEF Goto
  <2>2. ProcTypeOK' /\ LocalsOK'
    BY <1>1, <1>2, <1>7, <2>1 DEF ProcInv, ProcTypeOK, LocalsOK
  <2>3. TableOK'
    BY <1>1, <2>1, ZenonT(60) DEF ProcInv, TableOK
  <2>4. SecondDestroyIsIdle' /\ SpawnOK' /\ FillOK' /\ KillOK'
    BY <2>1, ZenonT(60) DEF SecondDestroyIsIdle, SpawnOK, FillOK, KillOK
  <2>5. ReapOK'
    BY <1>7, <2>1, Zenon DEF ReapOK
  <2> QED BY <1>3, <2>1, <2>2, <2>3, <2>4, <2>5 DEF ProcInv
<1> QED BY <1>4, <1>5, <1>6, <1>7 DEF ReapCheck

\* The address space read again is that of an entry still to be reaped, which
\* no task and no other entry has, or none.
LEMMA ReapArgumentKeeps ==
  ASSUME TaskInv, TaskInv', ProcInv, ReapArgument
  PROVE  ProcInv'
<1> USE DEF SpawnLabels, ReapLabels, KillLabels, WaitLabels, OwnerLabels, PidLabels
<1>1. /\ pc = "reap_arg" /\ pc' = "reap_destroy" /\ boot' = boot /\ TasksFade
      /\ UNCHANGED <<tasks, proc_table, next_pid, live>>
      /\ sh' = [sh EXCEPT !.as = proc_table[sh.i].address_space]
      /\ sh \in ShellRecord /\ sh.i \in Procs
      /\ sh.as = NULL /\ NULL \notin live
      /\ proc_table \in [Procs -> ProcessRecord]
  BY SameTasksFade, TaskAssumption
  DEF ReapArgument, At, Goto, procVars, ProcInv, ProcTypeOK, LocalsOK
<1>2. PICK space \in AddressSpaces \cup {NULL} : space = proc_table[sh.i].address_space
  BY <1>1 DEF ProcessRecord
<1>3. sh' \in ShellRecord /\ sh'.as = space /\ sh'.i = sh.i
  BY ONLY <1>1, <1>2 DEF ShellRecord
<1>4. ProcTypeOK' /\ LocalsOK'
  BY <1>1, <1>3 DEF ProcInv, ProcTypeOK, LocalsOK
<1>5. TableOK' /\ PidsUnique' /\ TaskPids'
  BY <1>1, <1>3 DEF ProcInv, TableOK, PidsUnique, TaskPids
<1>6. AliveIsListed' /\ NoLeak'
  BY <1>1 DEF ProcInv, AliveIsListed, Lists, NoLeak
<1>7. NoDangling'
  BY <1>1, TasksKeepLoaded DEF ProcInv, NoDangling
<1>8. \A i \in Procs : proc_table[i].address_space # NULL => proc_table[i].used
  BY DEF ProcInv, TableOK, Blank
<1>9. ASSUME NEW i \in Procs \ {sh.i}, space # NULL
      PROVE  proc_table[i].address_space # space
  BY <1>1, <1>2, <1>8, <1>9 DEF ProcInv, PidsUnique
<1>10. ASSUME NEW t \in Tids, Alive(tasks[t]), tasks[t].address_space = space
       PROVE  FALSE
  <2>1. space # NULL /\ tasks[t].is_user
    BY <1>2, <1>10, TaskAssumption, Zenon DEF TaskInv, SlotsOK
  <2>3. PICK j \in Procs : Lists(proc_table[j], t)
    BY <1>1, <1>10, <2>1, Zenon DEF ProcInv, AliveIsListed
  <2>4. j = sh.i
    BY <1>9, <1>10, <2>1, <2>3 DEF Lists
  <2>5. proc_table[sh.i].reap_pending
    BY <1>1, <1>2, <2>1 DEF ProcInv, ReapOK
  <2> QED BY <2>3, <2>4, <2>5 DEF Lists
<1>11. SecondDestroyIsIdle'
  BY <1>1, <1>3, <1>9, <1>10 DEF SecondDestroyIsIdle
<1>12. ReapOK'
  BY <1>1, <1>2, <1>3 DEF ProcInv, ReapOK
<1>13. SpawnOK' /\ FillOK' /\ KillOK'
  BY <1>1 DEF SpawnOK, FillOK, KillOK
<1> QED BY ONLY <1>4, <1>5, <1>6, <1>7, <1>11, <1>12, <1>13, Zenon DEF ProcInv

\* The reaper's destruction of an address space keeps ProcInv, however late.
LEMMA ReapDestroyKeeps ==
  ASSUME TaskInv, TaskInv', ProcInv, PageZeroIsSafe, ReapDestroy
  PROVE  ProcInv'
<1> USE DEF SpawnLabels, ReapLabels, KillLabels, WaitLabels, OwnerLabels, PidLabels
<1>1. /\ pc = "reap_destroy" /\ pc' = "reap_clear" /\ boot' = boot /\ TasksFade
      /\ UNCHANGED <<tasks, proc_table, next_pid>> /\ live' = live \ {sh.as}
      /\ sh' = [sh EXCEPT !.as = NULL] /\ sh \in ShellRecord /\ sh.i \in Procs
      /\ NULL \notin live
  <2>1. /\ pc = "reap_destroy" /\ pc' = "reap_clear" /\ boot' = boot /\ TasksFade
        /\ UNCHANGED <<tasks, proc_table, next_pid>> /\ live' \in LiveAfterDestroy(sh.as)
        /\ sh' = [sh EXCEPT !.as = NULL] /\ sh \in ShellRecord /\ sh.i \in Procs
        /\ NULL \notin live
    BY SameTasksFade, TaskAssumption
    DEF ReapDestroy, At, Goto, ProcInv, ProcTypeOK, LocalsOK
  <2>2. CASE sh.as # NULL
    BY ONLY <2>1, <2>2, Zenon DEF LiveAfterDestroy
  <2>3. CASE sh.as = NULL
    <3>1. PageZeroEmpty
      BY ONLY <2>1, <2>3, PageZeroIsSafe, Zenon DEF PageZeroIsSafe, NoNullDestroy
    <3>2. live' = live
      BY ONLY <2>1, <2>3, <3>1, Zenon DEF LiveAfterDestroy
    <3>3. live = live \ {sh.as}
      BY ONLY <2>1, <2>3, Zenon
    <3> QED BY ONLY <2>1, <3>2, <3>3, Zenon
  <2> QED BY ONLY <2>2, <2>3
<1>2. sh' \in ShellRecord /\ sh'.as = NULL /\ sh'.i = sh.i
  BY <1>1 DEF ShellRecord
<1>3. /\ sh.as # NULL => \A i \in Tids : Alive(tasks[i]) => tasks[i].address_space # sh.as
      /\ \A i \in Procs \ {sh.i} : sh.as # NULL => proc_table[i].address_space # sh.as
      /\ proc_table[sh.i].address_space \in {NULL, sh.as}
  BY <1>1 DEF ProcInv, SecondDestroyIsIdle, ReapOK
<1>4. ProcTypeOK' /\ LocalsOK'
  BY <1>1, <1>2 DEF ProcInv, ProcTypeOK, LocalsOK
<1>5. PidsUnique' /\ TaskPids' /\ AliveIsListed'
  BY <1>1 DEF ProcInv, PidsUnique, TaskPids, AliveIsListed, Lists
<1>6. TableOK'
  BY <1>1, <1>2, <1>3 DEF ProcInv, TableOK
<1>7. NoDangling'
  BY <1>1, <1>3, TasksKeepLoaded DEF ProcInv, NoDangling
<1>8. NoLeak'
  BY <1>1, <1>2, <1>3 DEF ProcInv, NoLeak
<1>9. ReapOK'
  BY <1>1, <1>2, <1>3 DEF ProcInv, ReapOK
<1>10. SecondDestroyIsIdle' /\ SpawnOK' /\ FillOK' /\ KillOK'
  BY <1>1 DEF SecondDestroyIsIdle, SpawnOK, FillOK, KillOK
<1> QED BY ONLY <1>4, <1>5, <1>6, <1>7, <1>8, <1>9, <1>10 DEF ProcInv

\* The reaper's clearing of an entry keeps ProcInv.
LEMMA ReapClearKeeps ==
  ASSUME TaskInv, TaskInv', ProcInv, ReapClear
  PROVE  ProcInv'
<1>1. pc = "reap_clear" /\ sh.i \in Procs
  BY DEF ReapClear, At, ProcInv, LocalsOK, ReapLabels
<1>2. /\ proc_table[sh.i].reap_pending \/ proc_table[sh.i].main_tid = -1
      /\ proc_table[sh.i].address_space \notin live
  BY <1>1 DEF ProcInv, ReapOK, ReapLabels
<1> QED BY <1>1, <1>2, ReapedKeeps DEF ReapClear

-----------------------------------------------------------------------------
(* Interrupts and system calls. *)

\* A tick, with the reaping in its context switch, keeps ProcInv.
LEMMA TickKeeps ==
  ASSUME TaskInv, TaskInv', ProcInv, timer_tick,
         IF SliceRemains THEN UNCHANGED procVars ELSE process_reap_deferred(proc_table),
         UNCHANGED <<boot, sh>>,
         pc' = pc \/ (pc = "wait_yield" /\ pc' = "reap")
  PROVE  ProcInv'
<1>1. TasksFade
  BY StepFades
<1>2. CASE SliceRemains /\ pc' = pc
  BY <1>1, <1>2, InterruptKeeps DEF shellVars
<1>3. CASE SliceRemains /\ pc = "wait_yield" /\ pc' = "reap"
  BY <1>1, <1>3, IdleKeeps, Zenon
<1>4. CASE ~SliceRemains
  <2>1. proc_table \in [Procs -> ProcessRecord]
    BY SMTT(60) DEF ProcInv, ProcTypeOK
  <2> QED BY <1>1, <1>4, <2>1, SwitchKeeps
<1> QED BY <1>2, <1>3, <1>4

\* The first switch and a yield keep ProcInv.
LEMMA YieldKeeps ==
  ASSUME TaskInv, TaskInv', ProcInv, FirstSchedule \/ SysYield
  PROVE  ProcInv'
<1>1. TasksFade
  BY StepFades DEF FirstSchedule, SysYield
<1>2. proc_table \in [Procs -> ProcessRecord]
  BY DEF ProcInv, ProcTypeOK
<1>3. process_reap_deferred(proc_table) /\ UNCHANGED <<boot, pc, sh>>
  BY SMTT(60) DEF FirstSchedule, SysYield, shellVars
<1> QED BY <1>1, <1>2, <1>3, SwitchKeeps, Zenon

\* The entry an exiting process is found by is its own: its main task is the
\* caller or is not recorded yet.
LEMMA CallerEntry ==
  ASSUME TaskInv, ProcInv, InUser,
         NEW k \in Procs, proc_table[k].used,
         proc_table[k].pid = tasks[current_tid].pid
  PROVE  /\ proc_table[k].main_tid \in {-1, current_tid}
         /\ pc = "spawn_table" /\ k = sh.slot => sh.tid = current_tid
<1> USE DEF SpawnLabels, OwnerLabels, PidLabels
<1>1. PICK u \in Tids : u = current_tid /\ Alive(tasks[u]) /\ tasks[u].is_user
  BY CallerKnown, SMTT(60) DEF InUser
<1>2. tasks[u].pid \in Pids /\ tasks[u].pid # 0
  BY <1>1, TaskAssumption DEF ProcInv, TaskPids
<1>3. CASE pc = "spawn_table" /\ sh.tid = u /\ sh.pid = tasks[u].pid
  <2>1. k = sh.slot
    BY <1>1, <1>3, ZenonT(60) DEF ProcInv, SpawnOK
  <2> QED BY <1>1, <1>3, <2>1, ZenonT(60) DEF ProcInv, FillOK
<1>4. CASE \E j \in Procs : Lists(proc_table[j], u)
  <2>1. PICK j \in Procs : Lists(proc_table[j], u)
    BY <1>4, Zenon
  <2>2. j = k
    BY <1>1, <1>2, <2>1, Zenon DEF ProcInv, PidsUnique, Lists
  <2>3. proc_table[k].main_tid = u
    BY ONLY <2>1, <2>2, SMTT(60) DEF Lists
  <2>4. pc = "spawn_table" /\ k = sh.slot => proc_table[k].main_tid \in {-1, sh.tid}
    BY DEF ProcInv, FillOK
  <2> QED BY <1>1, <2>3, <2>4 DEF Tids
<1> QED BY <1>1, <1>3, <1>4 DEF ProcInv, AliveIsListed

\* The exit of a process keeps ProcInv.
LEMMA SysExitKeeps ==
  ASSUME TaskInv, TaskInv', ProcInv, SysExit
  PROVE  ProcInv'
<1>1. /\ InUser /\ UNCHANGED <<boot, pc, sh>>
      /\ context_switch_from(SetState(tasks, current_tid, "ZOMBIE"))
  BY DEF SysExit, syscall_exit, shellVars
<1>2. TasksFade /\ ~Alive(tasks'[current_tid])
  BY ONLY TaskInv, <1>1, CallFades
<1>3. proc_table \in [Procs -> ProcessRecord]
  BY DEF ProcInv, ProcTypeOK
<1>4. PICK k : k = find_process_by_pid(tasks[current_tid].pid)
  OBVIOUS
<1>5. \/ k = -1
      \/ /\ k \in Procs /\ proc_table[k].used
         /\ proc_table[k].pid = tasks[current_tid].pid
  BY <1>4, FindProcess, SMTT(60)
<1>6. CASE k = -1
  <2>1. process_reap_deferred(proc_table)
    BY <1>4, <1>6, SMTT(60) DEF SysExit
  <2> QED BY <1>1, <1>2, <1>3, <2>1, SwitchKeeps, Zenon
<1>7. CASE k # -1
  <2>1. PICK pt : pt = MarkExited(proc_table, k)
    OBVIOUS
  <2>2. k \in Procs /\ k >= 0
    BY <1>5, <1>7, ProcessAssumption DEF Procs
  <2>3. process_reap_deferred(pt)
    BY <1>4, <2>1, <2>2 DEF SysExit
  <2>4. /\ pt \in [Procs -> ProcessRecord]
        /\ pt[k].exited /\ pt[k].reap_pending
        /\ \A i \in Procs :
             /\ pt[i].used = proc_table[i].used
             /\ pt[i].pid = proc_table[i].pid
             /\ pt[i].address_space = proc_table[i].address_space
             /\ pt[i].main_tid = proc_table[i].main_tid
             /\ i # k => pt[i] = proc_table[i]
    BY ONLY <1>3, <2>1, <2>2, MarkEffect
  <2>5. /\ proc_table[k].main_tid \in {-1, current_tid}
        /\ pc = "spawn_table" /\ k = sh.slot => sh.tid = current_tid
    BY ONLY TaskInv, ProcInv, <1>1, <1>5, <2>2, <1>7, CallerEntry, Zenon
  <2>6. /\ \A t \in Tids : Alive(tasks'[t]) => pt[k].main_tid # t
        /\ pc = "spawn_table" /\ k = sh.slot => ~Alive(tasks'[sh.tid])
    BY <1>2, <2>2, <2>4, <2>5 DEF Tids
  <2>7. pt[k].used
    BY <1>5, <2>2, <2>4, <1>7
  <2>8. ASSUME NEW i \in Procs
        PROVE  /\ pt[i].used = proc_table[i].used
               /\ pt[i].pid = proc_table[i].pid
               /\ pt[i].address_space = proc_table[i].address_space
               /\ pt[i].main_tid = proc_table[i].main_tid
               /\ \/ pt[i] = proc_table[i]
                  \/ /\ pt[i].used /\ pt[i].exited /\ pt[i].reap_pending
                     /\ \A t \in Tids : Alive(tasks'[t]) => pt[i].main_tid # t
                     /\ pc = "spawn_table" /\ i = sh.slot => ~Alive(tasks'[sh.tid])
    BY ONLY <2>4, <2>6, <2>7, i \in Procs, Zenon
  <2> QED BY <1>1, <1>2, <2>3, <2>4, <2>8, SwitchKeeps, ZenonT(60)
<1> QED BY <1>6, <1>7

-----------------------------------------------------------------------------
(* The inductive invariant, and what follows from it. *)

\* ProcInv holds at first.
LEMMA ProcInitInv == ProcInit => ProcInv
<1> SUFFICES ASSUME ProcInit PROVE ProcInv
  BY Zenon
<1> USE DEF SpawnLabels, ReapLabels, KillLabels, WaitLabels, OwnerLabels, PidLabels
<1>1. /\ NoProcess \in ProcessRecord /\ Blank(NoProcess) /\ ~NoProcess.used
      /\ NoLocals \in ShellRecord /\ NoLocals.as = NULL /\ NoLocals.i = 0
  BY DEF NoProcess, NoLocals, ProcessRecord, ShellRecord, Blank
<1>2. /\ \A i \in Procs : proc_table[i] = NoProcess
      /\ sh = NoLocals /\ live = {} /\ next_pid = 1 /\ boot = BOOT_SPAWNS
      /\ pc \in {"spawn_slot", "sleep"}
  BY DEF ProcInit
<1>3. ProcTypeOK /\ LocalsOK
  BY <1>1, <1>2, ProcessAssumption DEF ProcInit, ProcTypeOK, LocalsOK
<1>4. TableOK /\ PidsUnique
  <2>1. /\ ~NoProcess.used /\ Blank(NoProcess) /\ NoProcess.pid < next_pid
        /\ NoProcess.address_space = NULL /\ ~NoProcess.reap_pending
    <3>1. /\ ~NoProcess.used /\ NoProcess.pid = 0
          /\ NoProcess.address_space = NULL /\ ~NoProcess.reap_pending
      BY ONLY Zenon DEF NoProcess
    <3> QED BY ONLY <1>1, <1>2, <3>1
  <2>2. TableOK
    BY ONLY <1>2, <2>1, Zenon DEF TableOK
  <2>3. PidsUnique
    BY ONLY <1>2, <2>1, Zenon DEF PidsUnique
  <2> QED BY <2>2, <2>3
<1>5. \A t \in Tids : Alive(tasks[t]) => ~tasks[t].is_user /\ tasks[t].pid = 0
  BY Zenon DEF ProcInit, Init, KernelTask, NewTask, Alive
<1>6. TaskPids /\ AliveIsListed
  BY <1>5, Zenon DEF TaskPids, AliveIsListed
<1>7. NoDangling /\ NoLeak
  BY <1>2, <1>5 DEF ProcInit, Init, NoDangling, NoLeak
<1>8. SecondDestroyIsIdle /\ SpawnOK /\ FillOK /\ KillOK /\ ReapOK
  BY <1>2, Zenon DEF SecondDestroyIsIdle, SpawnOK, FillOK, KillOK, ReapOK
<1> QED BY <1>3, <1>4, <1>6, <1>7, <1>8 DEF ProcInv

\* Whatever the process layer does to the tasks, it does by an operation of the
\* scheduler: one with the arguments the scheduler expects, or none.
LEMMA StepRefines ==
  ASSUME ProcInv, [ProcNext]_vars
  PROVE  [Next]_taskVars
<1> USE DEF SpawnLabels, OwnerLabels, PidLabels, KillLabels
<1>1. CASE UNCHANGED vars
  BY <1>1 DEF vars
<1>2. CASE TimerInterrupt \/ FirstSchedule \/ KeyInterrupt \/ SysYield \/ SysExit
  BY <1>2 DEF TimerInterrupt, FirstSchedule, KeyInterrupt, SysYield, SysExit, Next
<1>3. CASE SpawnTask
  <2>1. sh.pid \in Pids /\ sh.as \in AddressSpaces
    BY <1>3 DEF SpawnTask, At, ProcInv, LocalsOK
  <2> QED BY <1>3, <2>1 DEF SpawnTask, Next
<1>4. CASE KillMark
  <2>1. sh.tid \in Tids
    BY <1>4 DEF KillMark, At, ProcInv, LocalsOK
  <2> QED BY <1>4, <2>1 DEF KillMark, Next
<1>5. CASE SpawnTaskSlot
  BY <1>5 DEF SpawnTaskSlot, Next
<1>6. CASE WaitYield \/ ShellSleep
  BY <1>6 DEF WaitYield, ShellSleep, Next
<1>7. CASE \/ SpawnSlot \/ SpawnAddressSpace \/ SpawnLoad \/ SpawnPid \/ SpawnTable
           \/ KillFind \/ KillTask \/ KillExited \/ WaitPoll
           \/ ReapCheck \/ ReapArgument \/ ReapDestroy \/ ReapClear \/ ShellInput
  <2>1. CASE SpawnSlot \/ SpawnAddressSpace \/ SpawnLoad \/ SpawnPid \/ SpawnTable
    BY <2>1 DEF SpawnSlot, SpawnAddressSpace, SpawnLoad, SpawnPid, SpawnTable
  <2>2. CASE KillFind \/ KillTask \/ KillExited \/ WaitPoll
    BY <2>2 DEF KillFind, KillTask, KillExited, WaitPoll
  <2>3. CASE ReapCheck \/ ReapArgument \/ ReapDestroy \/ ReapClear
    BY <2>3 DEF ReapCheck, ReapArgument, ReapDestroy, ReapClear
  <2>4. CASE ShellInput
    BY <2>4, Zenon DEF ShellInput, NoInput, SpawnCommand, KillCommand, WaitCommand
  <2> QED BY <1>7, <2>1, <2>2, <2>3, <2>4
<1> QED BY <1>1, <1>2, <1>3, <1>4, <1>5, <1>6, <1>7
        DEF ProcNext, ShellStep, SpawnStep, CommandStep

\* ProcInv is inductive relative to TaskInv.
LEMMA ProcNextInv ==
  ASSUME TaskInv, TaskInv', ProcInv, PageZeroIsSafe, [ProcNext]_vars
  PROVE  ProcInv'
<1>1. CASE UNCHANGED vars
  <2>1. TasksFade /\ UNCHANGED <<procVars, shellVars>>
    BY <1>1, SameTasksFade DEF vars
  <2> QED BY <2>1, InterruptKeeps
<1>2. CASE TimerInterrupt \/ WaitYield
  BY <1>2, TickKeeps DEF TimerInterrupt, WaitYield, At, Goto, shellVars
<1>3. CASE FirstSchedule \/ SysYield
  BY <1>3, YieldKeeps
<1>4. CASE KeyInterrupt
  BY <1>4, StepFades, InterruptKeeps DEF KeyInterrupt
<1>5. CASE SysExit
  BY <1>5, SysExitKeeps
<1>6. CASE SpawnStep
  BY <1>6, SpawnSlotKeeps, SpawnAddressSpaceKeeps, SpawnLoadKeeps, SpawnPidKeeps,
     SpawnTaskSlotKeeps, SpawnTaskKeeps, SpawnTableKeeps
  DEF SpawnStep
<1>7. CASE CommandStep /\ ~WaitYield
  BY <1>7, KillFindKeeps, KillTaskKeeps, KillMarkKeeps, KillExitedKeeps, WaitPollKeeps,
     ReapCheckKeeps, ReapArgumentKeeps, ReapDestroyKeeps, ReapClearKeeps
  DEF CommandStep
<1>8. CASE ShellInput \/ ShellSleep
  BY <1>8, InputKeeps
<1> QED BY <1>1, <1>2, <1>3, <1>4, <1>5, <1>6, <1>7, <1>8 DEF ProcNext, ShellStep

\* The CPU translates with an address space of a process only while it runs a
\* task of that process, which the reaper recognises by its task.
LEMMA LoadedIsOfCaller ==
  ASSUME TaskInv, ProcInv, cr3 \in live
  PROVE  InUser /\ current_as = cr3 /\ cr3 # NULL /\ ~InKernelThread
<1>1. cr3 \in AddressSpaces /\ cr3 # kernel_address_space /\ cr3 # NULL
  BY TaskAssumption, Zenon DEF ProcInv, ProcTypeOK
<1>2. current_tid \in Tids /\ tasks[current_tid].is_user
  BY <1>1 DEF TaskInv, TypeOK, Cr3IsCurrent, AddressSpaceOf, Tids
<1>3. current_tid >= 0 /\ current_tid # -1
  BY <1>2 DEF Tids
<1>4. current_as = cr3
  BY <1>1, <1>2, <1>3, Zenon DEF TaskInv, Cr3IsCurrent, AddressSpaceOf, current_as
<1>5. current_tid # SHELL
  BY <1>2 DEF TaskInv, SlotsOK
<1> QED BY <1>1, <1>2, <1>3, <1>4, <1>5 DEF InUser, InKernelThread, InShell

\* No step destroys the address space that is loaded.
LEMMA LoadedStays ==
  ASSUME TaskInv, ProcInv, [ProcNext]_vars
  PROVE  [(cr3 \in live) => (cr3 \in live')]_vars
<1> SUFFICES ASSUME ProcNext, cr3 \in live
             PROVE  cr3 \in live'
  BY DEF vars
<1>1. current_as = cr3 /\ cr3 # NULL /\ ~InKernelThread
  BY LoadedIsOfCaller, Zenon
<1>2. ASSUME NEW pt, process_reap_deferred(pt)
      PROVE  cr3 \in live'
  BY <1>1, <1>2 DEF process_reap_deferred, MustReap
<1>3. CASE TimerInterrupt \/ FirstSchedule \/ KeyInterrupt \/ SysYield \/ SysExit
  BY <1>2, <1>3
  DEF TimerInterrupt, FirstSchedule, KeyInterrupt, SysYield, SysExit, procVars
<1>4. CASE ShellStep
  <2>1. SpawnStep => InKernelThread
    BY DEF SpawnStep, At, SpawnSlot, SpawnAddressSpace, SpawnLoad, SpawnPid,
           SpawnTaskSlot, SpawnTask, SpawnTable
  <2>2. CommandStep => InKernelThread
    <3>1. KillFind \/ KillTask \/ KillMark \/ KillExited => InKernelThread
      BY DEF At, KillFind, KillTask, KillMark, KillExited
    <3>2. WaitPoll \/ WaitYield => InKernelThread
      BY DEF At, WaitPoll, WaitYield
    <3>3. ReapCheck \/ ReapArgument \/ ReapDestroy \/ ReapClear => InKernelThread
      BY DEF At, ReapCheck, ReapArgument, ReapDestroy, ReapClear
    <3> QED BY <3>1, <3>2, <3>3 DEF CommandStep
  <2>3. ShellInput \/ ShellSleep => InKernelThread
    BY Zenon DEF ShellInput, At, NoInput, SpawnCommand, KillCommand, WaitCommand, ShellSleep
  <2> QED BY <1>1, <1>4, <2>1, <2>2, <2>3 DEF ShellStep
<1> QED BY <1>3, <1>4 DEF ProcNext

\* The inductive invariant of the process layer holds with that of the
\* scheduler in every state of process.c, the shell's loop and the interrupts,
\* as long as no null address space is destroyed or page 0 is empty.
THEOREM ProcessInvariant == ProcSpec /\ []PageZeroIsSafe => [](TaskInv /\ ProcInv)
<1>1. ProcInit => TaskInv /\ ProcInv
  BY InitInv, ProcInitInv DEF ProcInit
<1>2. TaskInv /\ ProcInv /\ PageZeroIsSafe /\ [ProcNext]_vars => (TaskInv /\ ProcInv)'
  <2> SUFFICES ASSUME TaskInv, ProcInv, PageZeroIsSafe, [ProcNext]_vars
               PROVE  TaskInv' /\ ProcInv'
    OBVIOUS
  <2>1. TaskInv'
    BY StepRefines, NextInv
  <2> QED BY <2>1, ProcNextInv
<1> QED BY <1>1, <1>2, PTL DEF ProcSpec

\* process.c uses the scheduler only through the operations of task.c, so that
\* what is proved of the scheduler alone carries over.
LEMMA ProcessRefinesTask == ProcSpec /\ []PageZeroIsSafe => Spec
<1>1. ProcInit => Init
  BY DEF ProcInit
<1>2. TaskInv /\ ProcInv /\ [ProcNext]_vars => [Next]_taskVars
  BY StepRefines
<1> QED BY <1>1, <1>2, ProcessInvariant, PTL DEF ProcSpec, Spec

\* process_reap_deferred and the failure paths of process_spawn_from_elf
\* destroy no address space that a task or the CPU still needs.
THEOREM NothingDangles == ProcSpec /\ []PageZeroIsSafe => []NoDangling
<1>1. ProcInv => NoDangling
  BY DEF ProcInv
<1> QED BY <1>1, ProcessInvariant, PTL

\* An address space is always owned by a table entry or by the spawn that has
\* just created it, whatever fails and whoever reaps.
THEOREM NothingLeaks == ProcSpec /\ []PageZeroIsSafe => []NoLeak
<1>1. ProcInv => NoLeak
  BY DEF ProcInv
<1> QED BY <1>1, ProcessInvariant, PTL

\* When the shell's process_reap_deferred is overtaken by one in a context
\* switch and destroys an address space a second time, no task and no other
\* process has it.
THEOREM SecondDestroyFreesNothing == ProcSpec /\ []PageZeroIsSafe => []SecondDestroyIsIdle
<1>1. ProcInv => SecondDestroyIsIdle
  BY DEF ProcInv
<1> QED BY <1>1, ProcessInvariant, PTL

\* Every live user task can be found, killed and waited for through proc_table,
\* except by the spawn that is about to enter it.
THEOREM LiveTasksAreListed == ProcSpec /\ []PageZeroIsSafe => []AliveIsListed
<1>1. ProcInv => AliveIsListed
  BY DEF ProcInv
<1> QED BY <1>1, ProcessInvariant, PTL

\* next_pid is never handed out twice and no address space has two owners.
THEOREM ProcessesAreDistinct == ProcSpec /\ []PageZeroIsSafe => []PidsUnique
<1>1. ProcInv => PidsUnique
  BY DEF ProcInv
<1> QED BY <1>1, ProcessInvariant, PTL

\* No step destroys the address space that CR3 holds when the step begins: the
\* check against current_as in process_reap_deferred suffices.
THEOREM LoadedIsNeverDestroyed == ProcSpec /\ []PageZeroIsSafe => LoadedIsSpared
<1>1. TaskInv /\ ProcInv /\ [ProcNext]_vars => [(cr3 \in live) => (cr3 \in live')]_vars
  BY LoadedStays
<1> QED BY <1>1, ProcessInvariant, PTL DEF ProcSpec, LoadedIsSpared

\* What TaskProofs shows of the scheduler holds with processes on top of it.
THEOREM ProcessKeepsScheduler ==
  ProcSpec /\ []PageZeroIsSafe => []CurrentIsRunning /\ []Cr3IsCurrent /\ []AliveHasStack /\ NoResurrection
BY ProcessRefinesTask, SchedulerSafety, ZombiesNeverRun, PTL
=============================================================================
