------------------------------ MODULE Process ------------------------------
(***************************************************************************)
(* The process table of kernel/process.c on top of the scheduler: spawning *)
(* a process, its exit, the shell's kill and wait commands, and the        *)
(* deferred destruction of address spaces, which every context switch and  *)
(* every shell command performs.                                           *)
(*                                                                         *)
(* System calls and the timer interrupt are atomic.  The shell runs with   *)
(* interrupts enabled, so its commands are split at the points where a     *)
(* context switch in between changes what they read or write; kernel_main  *)
(* spawns the boot processes through the same steps, with interrupts off.  *)
(* What a user program computes is left out: at any time it may be         *)
(* preempted, yield or exit.                                               *)
(***************************************************************************)
EXTENDS Task

CONSTANTS
  MAX_PROCESSES,  \* size of the process table
  BOOT_SPAWNS,    \* processes kernel_main spawns before enabling interrupts
  ShellSpawns,    \* whether the shell is given spawn commands
  PageZeroEmpty   \* whether page 0, as the firmware left it, reads as a table
                  \* without present entries

ASSUME ProcessAssumption ==
  /\ MAX_PROCESSES \in Nat \ {0}
  /\ BOOT_SPAWNS \in Nat
  /\ ShellSpawns \in BOOLEAN
  /\ PageZeroEmpty \in BOOLEAN

VARIABLES
  proc_table,
  next_pid,
  live,       \* address spaces that exist: created and not yet destroyed
  boot,       \* spawns kernel_main still has to do; interrupts are on at 0
  pc,         \* what kernel_main or the shell executes next
  sh          \* its local variables

procVars == <<proc_table, next_pid, live>>
shellVars == <<boot, pc, sh>>
vars == <<taskVars, procVars, shellVars>>

-----------------------------------------------------------------------------
(* The process table. *)

Procs == 0 .. MAX_PROCESSES - 1

NoProcess ==
  [used |-> FALSE, pid |-> 0, address_space |-> NULL, main_tid |-> -1,
   exited |-> FALSE, reap_pending |-> FALSE]

FreeProcess(p) ==
  ~p.used \/ (p.exited /\ p.address_space = NULL /\ p.main_tid < 0)

alloc_process_slot ==
  LET free == {i \in Procs : FreeProcess(proc_table[i])}
  IN  IF free = {} THEN -1 ELSE Least(free)

\* Variant of find_process_by_pid that does not compare the pid.
find_any_process(pid) ==
  LET found == {i \in Procs : proc_table[i].used}
  IN  IF found = {} THEN -1 ELSE Least(found)

find_process_by_pid(pid) ==
  LET found == {i \in Procs : proc_table[i].used /\ proc_table[i].pid = pid}
  IN  IF found = {} THEN -1 ELSE Least(found)

\* Variants of MarkExited that forget one of its assignments.
MarkExitedNoReap(pt, i) == [pt EXCEPT ![i].exited = TRUE]
MarkExitedSilently(pt, i) == [pt EXCEPT ![i].reap_pending = TRUE]

\* process_task_exited, and the same assignments in process_kill.
MarkExited(pt, i) == [pt EXCEPT ![i].exited = TRUE, ![i].reap_pending = TRUE]

\* The address space process_reap_deferred must not destroy.
current_as ==
  IF current_tid >= 0 THEN tasks[current_tid].address_space ELSE NULL

\* Variant of MustReap that does not spare the loaded address space.
MustReapCurrent(p) == p.used /\ p.reap_pending

MustReap(p) ==
  /\ p.used /\ p.reap_pending
  /\ p.address_space = NULL \/ p.address_space # current_as

Reaped(p) ==
  [p EXCEPT !.address_space = NULL, !.reap_pending = FALSE, !.main_tid = -1]

\* process_reap_deferred, run with interrupts disabled on the table pt.
process_reap_deferred(pt) ==
  /\ proc_table' = [i \in Procs |-> IF MustReap(pt[i]) THEN Reaped(pt[i]) ELSE pt[i]]
  /\ live' = live \ {pt[i].address_space : i \in {j \in Procs : MustReap(pt[j])}}
  /\ UNCHANGED next_pid

-----------------------------------------------------------------------------
(* Interrupts and system calls.  context_switch_from reaps first. *)

TimerInterrupt ==
  /\ boot = 0
  /\ timer_tick
  /\ IF SliceRemains THEN UNCHANGED procVars ELSE process_reap_deferred(proc_table)
  /\ UNCHANGED shellVars

FirstSchedule ==
  /\ boot = 0
  /\ schedule
  /\ process_reap_deferred(proc_table)
  /\ UNCHANGED shellVars

KeyInterrupt ==
  /\ boot = 0
  /\ task_wake(SHELL)
  /\ UNCHANGED <<procVars, shellVars>>

SysYield ==
  /\ syscall_yield
  /\ process_reap_deferred(proc_table)
  /\ UNCHANGED shellVars

SysExit ==
  /\ syscall_exit
  /\ LET i == find_process_by_pid(tasks[current_tid].pid)
     IN  process_reap_deferred(IF i >= 0 THEN MarkExited(proc_table, i) ELSE proc_table)
  /\ UNCHANGED shellVars

-----------------------------------------------------------------------------
(* The shell and kernel_main. *)

\* The code at pc may execute one step.
At(label) == pc = label /\ InKernelThread

Goto(label) == pc' = label /\ UNCHANGED boot

NoLocals ==
  [slot |-> -1, as |-> NULL, pid |-> 0, tid |-> -1, i |-> 0, ret |-> "drain"]

\* The end of a command: process_command reaps before it returns.
EndCommand == Goto("reap") /\ sh' = NoLocals

\* The end of a spawn: kernel_main goes on with its next one.
SpawnReturns ==
  \/ boot = 0 /\ EndCommand
  \/ /\ boot > 0
     /\ boot' = boot - 1
     /\ pc' = IF boot' > 0 THEN "spawn_slot" ELSE "sleep"
     /\ sh' = NoLocals

\* shell_task: sleep, then take commands until no input is left.
ShellSleep ==
  /\ At("sleep") /\ boot = 0
  /\ task_sleep
  /\ Goto("drain")
  /\ UNCHANGED <<procVars, sh>>

NoInput ==
  /\ At("drain")
  /\ Goto("sleep")
  /\ UNCHANGED <<taskVars, procVars, sh>>

SpawnCommand ==
  /\ At("drain") /\ ShellSpawns
  /\ next_pid \in Pids
  /\ Goto("spawn_slot")
  /\ UNCHANGED <<taskVars, procVars, sh>>

KillCommand(pid) ==
  /\ At("drain")
  /\ Goto("kill_find")
  /\ sh' = [NoLocals EXCEPT !.pid = pid]
  /\ UNCHANGED <<taskVars, procVars>>

WaitCommand(pid) ==
  /\ At("drain")
  /\ Goto("reap")
  /\ sh' = [NoLocals EXCEPT !.pid = pid, !.ret = "wait_poll"]
  /\ UNCHANGED <<taskVars, procVars>>
-----------------------------------------------------------------------------
(* process_spawn_from_elf. *)

SpawnSlot ==
  /\ At("spawn_slot")
  /\ LET s == alloc_process_slot
     IN  \/ s < 0 /\ SpawnReturns
         \/ s >= 0 /\ Goto("spawn_as") /\ sh' = [sh EXCEPT !.slot = s]
  /\ UNCHANGED <<taskVars, procVars>>

SpawnAddressSpace ==
  /\ At("spawn_as")
  /\ \/ SpawnReturns /\ UNCHANGED live
     \/ \E as \in AddressSpaces \ live :
          /\ live' = live \cup {as}
          /\ sh' = [sh EXCEPT !.as = as]
          /\ Goto("spawn_load")
  /\ UNCHANGED <<taskVars, proc_table, next_pid>>

\* Variant of SpawnFails that keeps the address space.
SpawnFailsLeaking == SpawnReturns /\ UNCHANGED live

SpawnFails == SpawnReturns /\ live' = live \ {sh.as}

\* load_elf_into_as and map_user_stack.
SpawnLoad ==
  /\ At("spawn_load")
  /\ \/ SpawnFails
     \/ Goto("spawn_pid") /\ UNCHANGED <<live, sh>>
  /\ UNCHANGED <<taskVars, proc_table, next_pid>>

\* Variant of SpawnPid that does not advance next_pid.
SpawnPidAgain ==
  /\ At("spawn_pid")
  /\ next_pid \in Pids
  /\ sh' = [sh EXCEPT !.pid = next_pid]
  /\ Goto("spawn_task_slot")
  /\ UNCHANGED <<taskVars, procVars>>

SpawnPid ==
  /\ At("spawn_pid")
  /\ next_pid \in Pids
  /\ sh' = [sh EXCEPT !.pid = next_pid]
  /\ next_pid' = next_pid + 1
  /\ Goto("spawn_task_slot")
  /\ UNCHANGED <<taskVars, proc_table, live>>

SpawnTaskSlot ==
  /\ At("spawn_task_slot")
  /\ \/ task_create_slot /\ Goto("spawn_task") /\ UNCHANGED <<live, sh>>
     \/ find_free_slot(tasks) < 0 /\ SpawnFails /\ UNCHANGED taskVars
  /\ UNCHANGED <<proc_table, next_pid>>

SpawnTask ==
  /\ At("spawn_task")
  /\ \/ /\ task_create_user(sh.pid, sh.as)
        /\ sh' = [sh EXCEPT !.tid = new_slot]
        /\ Goto("spawn_table")
        /\ UNCHANGED live
     \/ task_create_fails /\ SpawnFails
  /\ UNCHANGED <<proc_table, next_pid>>

\* The assignments that fill the table entry, in their order.
FilledEntry(p, n) ==
  CASE n = 0 -> [p EXCEPT !.used = TRUE]
    [] n = 1 -> [p EXCEPT !.pid = sh.pid]
    [] n = 2 -> [p EXCEPT !.address_space = sh.as]
    [] n = 3 -> [p EXCEPT !.main_tid = sh.tid]
    [] n = 4 -> [p EXCEPT !.exited = FALSE]
    [] n = 5 -> [p EXCEPT !.reap_pending = FALSE]

SpawnTable ==
  /\ At("spawn_table")
  /\ proc_table' = [proc_table EXCEPT ![sh.slot] = FilledEntry(@, sh.i)]
  /\ \/ sh.i < 5 /\ Goto("spawn_table") /\ sh' = [sh EXCEPT !.i = @ + 1]
     \/ sh.i = 5 /\ SpawnReturns
  /\ UNCHANGED <<taskVars, next_pid, live>>

-----------------------------------------------------------------------------
(* process_kill and the loop of the wait command. *)

KillFind ==
  /\ At("kill_find")
  /\ LET i == find_process_by_pid(sh.pid)
     IN  IF i < 0 \/ proc_table[i].exited THEN EndCommand
         ELSE Goto("kill_task") /\ sh' = [sh EXCEPT !.slot = i]
  /\ UNCHANGED <<taskVars, procVars>>

\* task_kill_pid finds the task ...
KillTask ==
  /\ At("kill_task")
  /\ LET found == {i \in Tids : tasks[i].pid = sh.pid /\ Alive(tasks[i])}
     IN  IF found = {} THEN EndCommand
         ELSE Goto("kill_mark") /\ sh' = [sh EXCEPT !.tid = Least(found)]
  /\ UNCHANGED <<taskVars, procVars>>

\* Variant of KillMark that leaves the task as it is.
KillMarkNothing ==
  /\ At("kill_mark")
  /\ Goto("kill_exited")
  /\ UNCHANGED <<taskVars, procVars, sh>>

\* ... and marks it, ...
KillMark ==
  /\ At("kill_mark")
  /\ task_kill(sh.tid)
  /\ Goto("kill_exited")
  /\ UNCHANGED <<procVars, sh>>

\* ... and process_kill marks the process.
KillExited ==
  /\ At("kill_exited")
  /\ proc_table' = MarkExited(proc_table, sh.slot)
  /\ EndCommand
  /\ UNCHANGED <<taskVars, next_pid, live>>

\* process_wait_poll: the entry of a reaped process is given up.
WaitPoll ==
  /\ At("wait_poll")
  /\ LET i == find_process_by_pid(sh.pid)
         p == proc_table[i]
     IN  \/ i < 0 /\ EndCommand /\ UNCHANGED proc_table
         \/ i >= 0 /\ ~p.exited /\ Goto("wait_yield") /\ UNCHANGED <<proc_table, sh>>
         \/ /\ i >= 0 /\ p.exited
            /\ proc_table' = IF ~p.reap_pending /\ p.address_space = NULL
                             THEN [proc_table EXCEPT ![i] = NoProcess]
                             ELSE proc_table
            /\ EndCommand
  /\ UNCHANGED <<taskVars, next_pid, live>>

\* task_yield: the software interrupt is a tick.
WaitYield ==
  /\ At("wait_yield")
  /\ timer_tick
  /\ IF SliceRemains THEN UNCHANGED procVars ELSE process_reap_deferred(proc_table)
  /\ Goto("reap")
  /\ UNCHANGED sh
-----------------------------------------------------------------------------
(* process_reap_deferred in the shell, where context switches that reap the *)
(* same entries may come between its steps: the entry is checked, ...       *)
ReapCheck ==
  /\ At("reap")
  /\ LET p == proc_table[sh.i]
         due == p.used /\ p.reap_pending
     IN  \/ /\ sh.i = MAX_PROCESSES
            /\ Goto(sh.ret)
            /\ sh' = [sh EXCEPT !.i = 0]
            /\ UNCHANGED proc_table
         \/ /\ sh.i < MAX_PROCESSES /\ ~(due /\ p.address_space # NULL)
            /\ proc_table' = IF due THEN [proc_table EXCEPT ![sh.i] = Reaped(@)]
                                    ELSE proc_table
            /\ sh' = [sh EXCEPT !.i = @ + 1]
            /\ Goto("reap")
         \/ /\ sh.i < MAX_PROCESSES /\ due /\ p.address_space # NULL
            /\ Goto("reap_arg")
            /\ UNCHANGED <<proc_table, sh>>
  /\ UNCHANGED <<taskVars, next_pid, live>>

\* ... its address space read again for the call, ...
ReapArgument ==
  /\ At("reap_arg")
  /\ sh' = [sh EXCEPT !.as = proc_table[sh.i].address_space]
  /\ Goto("reap_destroy")
  /\ UNCHANGED <<taskVars, procVars>>

\* What may be left of the address spaces when vmm_destroy_address_space gets
\* as.  It does not check for null: it walks page 0 then, which is mapped, and
\* frees the pages it takes for user tables, which may be anybody's.
LiveAfterDestroy(as) ==
  IF as # NULL THEN {live \ {as}}
  ELSE IF PageZeroEmpty THEN {live}
  ELSE SUBSET live

\* ... destroyed ...
ReapDestroy ==
  /\ At("reap_destroy")
  /\ live' \in LiveAfterDestroy(sh.as)
  /\ sh' = [sh EXCEPT !.as = NULL]
  /\ Goto("reap_clear")
  /\ UNCHANGED <<taskVars, proc_table, next_pid>>

\* ... and the entry cleared.
ReapClear ==
  /\ At("reap_clear")
  /\ proc_table' = [proc_table EXCEPT ![sh.i] = Reaped(@)]
  /\ sh' = [sh EXCEPT !.i = @ + 1]
  /\ Goto("reap")
  /\ UNCHANGED <<taskVars, next_pid, live>>

-----------------------------------------------------------------------------
ProcInit ==
  /\ Init
  /\ proc_table = [i \in Procs |-> NoProcess]
  /\ next_pid = 1
  /\ live = {}
  /\ boot = BOOT_SPAWNS
  /\ pc = IF BOOT_SPAWNS > 0 THEN "spawn_slot" ELSE "sleep"
  /\ sh = NoLocals

SpawnStep ==
  \/ SpawnSlot \/ SpawnAddressSpace \/ SpawnLoad \/ SpawnPid
  \/ SpawnTaskSlot \/ SpawnTask \/ SpawnTable

CommandStep ==
  \/ KillFind \/ KillTask \/ KillMark \/ KillExited
  \/ WaitPoll \/ WaitYield
  \/ ReapCheck \/ ReapArgument \/ ReapDestroy \/ ReapClear

ShellInput ==
  \/ NoInput
  \/ SpawnCommand
  \/ \E pid \in Pids : KillCommand(pid)
  \/ \E pid \in Pids : WaitCommand(pid)

ShellStep == SpawnStep \/ CommandStep \/ ShellInput \/ ShellSleep

ProcNext ==
  \/ TimerInterrupt \/ FirstSchedule \/ KeyInterrupt \/ SysYield \/ SysExit
  \/ ShellStep

ProcSpec == ProcInit /\ [][ProcNext]_vars

\* kernel_main runs its spawns with nothing to stop it, the timer keeps
\* ticking, and a slice is long enough for the shell to execute: whenever it
\* gets the CPU again and again, it advances.
FairProcSpec ==
  /\ ProcSpec
  /\ WF_vars(TimerInterrupt)
  /\ SF_vars(SpawnStep \/ CommandStep)

-----------------------------------------------------------------------------
(* Properties. *)

SpawnLabels ==
  {"spawn_slot", "spawn_as", "spawn_load", "spawn_pid", "spawn_task_slot",
   "spawn_task", "spawn_table"}

\* No address space is destroyed while it is needed: that of every task that
\* may still run exists, and so does the one the CPU translates with.
NoDangling ==
  /\ \A i \in Tids : Alive(tasks[i]) /\ tasks[i].is_user => tasks[i].address_space \in live
  /\ cr3 \in live \cup {kernel_address_space}

\* No step destroys the address space that the CPU translates with when the
\* step begins: a context switch reaps before it loads another one, and the
\* exit of a process reaches the reaper with its own address space loaded.
LoadedIsSpared == [][(cr3 \in live) => (cr3 \in live')]_vars

\* Every address space that exists belongs to a table entry or to the spawn
\* in progress: neither a failed spawn nor a reap that is interrupted leaks one.
NoLeak ==
  live \subseteq {proc_table[i].address_space : i \in Procs}
                   \cup (IF pc \in SpawnLabels THEN {sh.as} ELSE {})

\* The shell's reaper may come late, after a context switch has destroyed the
\* address space it is about to destroy: no task and no other process has got
\* it since, so that the second destruction frees nothing that is in use.
SecondDestroyIsIdle ==
  pc = "reap_destroy" /\ sh.as # NULL =>
    /\ \A i \in Tids : Alive(tasks[i]) => tasks[i].address_space # sh.as
    /\ \A i \in Procs \ {sh.i} : proc_table[i].address_space # sh.as

\* The functions of vmm.c that take an address space assert that it is not
\* null; the reaper does not pass null to the one that does not.
NoNullDestroy == pc = "reap_destroy" => sh.as # NULL

\* What the other properties rest on: the reaper does not get to page 0, or
\* finds nothing there.
PageZeroIsSafe == PageZeroEmpty \/ NoNullDestroy

\* The entry through which a task is found.
Lists(p, t) ==
  /\ p.used /\ ~p.exited /\ ~p.reap_pending
  /\ p.pid = tasks[t].pid /\ p.main_tid = t
  /\ p.address_space = tasks[t].address_space

\* A task that may still run has a table entry through which it can be
\* killed and waited for, unless its spawn is still filling the entry.
AliveIsListed ==
  \A t \in Tids :
    Alive(tasks[t]) /\ tasks[t].is_user =>
      \/ pc = "spawn_table" /\ sh.tid = t /\ sh.pid = tasks[t].pid
      \/ \E i \in Procs : Lists(proc_table[i], t)

\* No two processes share a pid, or an address space.
PidsUnique ==
  \A i, j \in Procs :
    i # j /\ proc_table[i].used /\ proc_table[j].used =>
      /\ proc_table[i].pid # 0 => proc_table[i].pid # proc_table[j].pid
      /\ proc_table[i].address_space # NULL =>
           proc_table[i].address_space # proc_table[j].address_space

\* The address space of a process that is gone is destroyed, whether the
\* process exited or was killed and whoever comes to reap it.
DeadSpaceIsFreed ==
  \A as \in AddressSpaces :
    /\ as \in live /\ pc \notin SpawnLabels
    /\ \A t \in Tids : tasks[t].address_space = as => ~Alive(tasks[t])
    ~> as \notin live

\* "wait" returns once the task of the process is gone.
Waiting(pid) ==
  sh.pid = pid /\ (pc \in {"wait_poll", "wait_yield"} \/ sh.ret = "wait_poll")

WaitReturns ==
  \A pid \in Pids :
    /\ Waiting(pid)
    /\ \A t \in Tids : tasks[t].pid = pid => ~Alive(tasks[t])
    ~> ~Waiting(pid)
-----------------------------------------------------------------------------
(* The invariant that is inductive for ProcNext: what holds at each label of *)
(* the shell's code, whatever context switches came in between.              *)

ReapLabels == {"reap", "reap_arg", "reap_destroy", "reap_clear"}

KillLabels == {"kill_find", "kill_task", "kill_mark", "kill_exited"}

WaitLabels == {"wait_poll", "wait_yield"}

\* The spawn owns a fresh address space that no task has yet, ...
OwnerLabels == {"spawn_load", "spawn_pid", "spawn_task_slot", "spawn_task"}

\* ... and a fresh pid.
PidLabels == {"spawn_task_slot", "spawn_task", "spawn_table"}

ProcessRecord ==
  [used : BOOLEAN, pid : Pids \cup {0}, address_space : AddressSpaces \cup {NULL},
   main_tid : Tids \cup {-1}, exited : BOOLEAN, reap_pending : BOOLEAN]

ShellRecord ==
  [slot : Procs \cup {-1}, as : AddressSpaces \cup {NULL}, pid : Pids \cup {0},
   tid : Tids \cup {-1}, i : Nat, ret : {"drain", "wait_poll"}]

ProcTypeOK ==
  /\ proc_table \in [Procs -> ProcessRecord]
  /\ next_pid \in Nat
  /\ live \subseteq AddressSpaces
  /\ boot \in Nat
  /\ pc \in SpawnLabels \cup ReapLabels \cup KillLabels \cup WaitLabels
              \cup {"sleep", "drain"}
  /\ sh \in ShellRecord

\* Which local variables are set at which label.
LocalsOK ==
  /\ pc \in SpawnLabels \ {"spawn_slot"} => sh.slot \in Procs
  /\ IF pc \in OwnerLabels \cup {"spawn_table"} THEN sh.as \in AddressSpaces
     ELSE pc # "reap_destroy" => sh.as = NULL
  /\ pc \in PidLabels \cup KillLabels => sh.pid \in Pids
  /\ pc \in {"kill_task", "kill_mark", "kill_exited"} => sh.slot \in Procs
  /\ pc \in {"spawn_table", "kill_mark", "kill_exited"} => sh.tid \in Tids
  /\ CASE pc = "spawn_table" -> sh.i \in 0 .. 5
       [] pc = "reap" -> sh.i \in 0 .. MAX_PROCESSES
       [] pc \in ReapLabels \ {"reap"} -> sh.i \in Procs
       [] OTHER -> sh.i = 0

Blank(p) ==
  p.pid = 0 /\ p.address_space = NULL /\ p.main_tid = -1 /\ ~p.reap_pending

\* The address spaces in the table exist, but for the one the shell's reaper
\* has just destroyed.  An entry is left to be reaped without an address space
\* only by a kill, and the reaper that follows it has still to come to it.
TableOK ==
  /\ \A i \in Procs : ~proc_table[i].used => Blank(proc_table[i])
  /\ \A i \in Procs : proc_table[i].pid < next_pid
  /\ \A i \in Procs :
       proc_table[i].address_space # NULL =>
         \/ proc_table[i].address_space \in live
         \/ pc = "reap_clear" /\ i = sh.i
  /\ \A i \in Procs :
       proc_table[i].reap_pending /\ proc_table[i].address_space = NULL =>
         pc \in ReapLabels /\ sh.i <= i

\* User tasks have pids, kernel tasks have none.
TaskPids ==
  \A t \in Tids : Alive(tasks[t]) =>
    IF tasks[t].is_user THEN tasks[t].pid \in Pids ELSE tasks[t].pid = 0

\* The entry a spawn has chosen stays free until it is filled, and what the
\* spawn has allocated is in nobody else's hands.
SpawnOK ==
  /\ pc \in OwnerLabels =>
       /\ sh.as \in live
       /\ \A i \in Procs : proc_table[i].address_space # sh.as
       /\ \A t \in Tids : Alive(tasks[t]) => tasks[t].address_space # sh.as
  /\ pc \in SpawnLabels \ {"spawn_slot"} /\ sh.i <= 2 =>
       /\ proc_table[sh.slot].address_space = NULL
       /\ ~proc_table[sh.slot].reap_pending
       /\ proc_table[sh.slot].main_tid = -1
  /\ pc \in PidLabels =>
       /\ sh.pid < next_pid
       /\ \A i \in Procs :
            proc_table[i].pid = sh.pid => pc = "spawn_table" /\ i = sh.slot /\ sh.i >= 2

\* The entry that is being filled, and the new task, which may already run,
\* exit and be reaped.
FillOK ==
  pc = "spawn_table" =>
    LET p == proc_table[sh.slot]
        t == tasks[sh.tid]
    IN  /\ t.is_user /\ t.pid = sh.pid /\ t.address_space = sh.as
        /\ \A i \in Procs \ {sh.slot} : proc_table[i].address_space # sh.as
        /\ sh.i >= 1 => p.used
        /\ sh.i >= 2 => p.pid = sh.pid
        /\ sh.i <= 2 => sh.as \in live
        /\ sh.i >= 3 => p.address_space = IF sh.as \in live THEN sh.as ELSE NULL
        /\ sh.i <= 3 => p.main_tid = -1
        /\ p.main_tid \in {-1, sh.tid}
        /\ Alive(t) =>
             /\ sh.as \in live
             /\ ~p.reap_pending
             /\ sh.i >= 4 => p.main_tid = sh.tid
             /\ sh.i = 5 => ~p.exited

\* The entry and the task that a kill has found are still those of the pid,
\* whether or not the task has exited on its own.
KillOK ==
  LET p == proc_table[sh.slot]
  IN  /\ pc \in {"kill_task", "kill_mark", "kill_exited"} => p.used /\ p.pid = sh.pid
      /\ pc \in {"kill_mark", "kill_exited"} => p.main_tid \in {-1, sh.tid}
      /\ pc = "kill_exited" => ~Alive(tasks[sh.tid])

\* The entry the shell's reaper works on, which a context switch may have
\* reaped as well.
ReapOK ==
  LET q == proc_table[sh.i]
  IN  /\ pc \in ReapLabels \ {"reap"} => q.reap_pending \/ q.main_tid = -1
      /\ pc = "reap_arg" => q.reap_pending \/ q.address_space = NULL
      /\ pc = "reap_destroy" => q.address_space \in {NULL, sh.as}
      /\ pc = "reap_clear" => q.address_space \notin live

ProcInv ==
  /\ ProcTypeOK /\ LocalsOK /\ TableOK /\ PidsUnique /\ TaskPids
  /\ AliveIsListed /\ NoDangling /\ NoLeak /\ SecondDestroyIsIdle
  /\ SpawnOK /\ FillOK /\ KillOK /\ ReapOK
=============================================================================
