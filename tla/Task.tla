-------------------------------- MODULE Task --------------------------------
(***************************************************************************)
(* The unified scheduler of kernel/scheduler/task.c: the task table, the   *)
(* round-robin choice of the next task, the context switch made on a       *)
(* timer tick or from a system call, and the operations that create, kill, *)
(* put to sleep and wake a task.                                           *)
(*                                                                         *)
(* The machine has one CPU.  Interrupt handlers and system calls run       *)
(* through interrupt gates, with interrupts disabled, so each of them is   *)
(* one action.  Code of a kernel task (the shell) is preemptible, so an    *)
(* operation of the shell is one action per step that another task could   *)
(* observe.                                                                *)
(***************************************************************************)
EXTENDS Integers

CONSTANTS
  MAX_TASKS,             \* size of the task table
  TICKS_PER_SLICE,       \* timer ticks in a time slice
  Pids,                  \* process identifiers that may be handed out
  AddressSpaces,         \* addresses an AddressSpace object may have
  kernel_address_space,  \* the address space of the kernel
  NULL                   \* the null pointer

ASSUME TaskAssumption ==
  /\ MAX_TASKS \in Nat /\ MAX_TASKS >= 2
  /\ TICKS_PER_SLICE \in Nat \ {0}
  /\ Pids \subseteq Nat \ {0}
  /\ kernel_address_space \notin AddressSpaces
  /\ NULL \notin AddressSpaces \cup {kernel_address_space}

VARIABLES
  tasks,        \* the task table
  current_tid,  \* index of the running task, -1 before the first switch
  slice_ticks,  \* ticks the running task has used
  cr3,          \* the address space the CPU translates with
  new_slot      \* result of find_free_slot held by task_create_user, or -1

taskVars == <<tasks, current_tid, slice_ticks, cr3, new_slot>>

-----------------------------------------------------------------------------
(* The task table. *)

Tids == 0 .. MAX_TASKS - 1

\* kernel_main creates the shell first and the idle task second.
SHELL == 0
IDLE == 1

TaskState == {"NEW", "RUNNABLE", "RUNNING", "WAITING", "ZOMBIE"}

TaskRecord ==
  [state         : TaskState,
   pid           : Pids \cup {0},
   is_user       : BOOLEAN,
   address_space : AddressSpaces \cup {kernel_address_space, NULL},
   kernel_stack  : BOOLEAN]

NewTask ==
  [state |-> "NEW", pid |-> 0, is_user |-> FALSE,
   address_space |-> NULL, kernel_stack |-> FALSE]

\* What task_create_kernel leaves in the slot it fills.
KernelTask ==
  [state |-> "RUNNABLE", pid |-> 0, is_user |-> FALSE,
   address_space |-> kernel_address_space, kernel_stack |-> TRUE]

\* What task_create_user leaves in the slot it fills.
UserTask(pid, as) ==
  [state |-> "RUNNABLE", pid |-> pid, is_user |-> TRUE,
   address_space |-> as, kernel_stack |-> TRUE]

\* A task that may run again.
Alive(t) == t.state \notin {"NEW", "ZOMBIE"}

\* Variant of Ready that lets a zombie run.
ReadyOrZombie(t) == t.state \in {"RUNNABLE", "RUNNING", "ZOMBIE"}

Ready(t) == t.state \in {"RUNNABLE", "RUNNING"}

Least(S) == CHOOSE i \in S : \A j \in S : i <= j

\* Variant of find_free_slot that reuses any slot that is not running.
find_idle_slot(ts) ==
  LET reusable == {i \in Tids \ {SHELL, IDLE} : ts[i].state # "RUNNING"}
  IN  IF reusable # {} THEN Least(reusable) ELSE -1

\* The slot a new task gets: the first unused one without a stack, or else
\* the first zombie, whose stack is freed.
find_free_slot(ts) ==
  LET unused == {i \in Tids : ~Alive(ts[i]) /\ ~ts[i].kernel_stack}
      zombies == {i \in Tids : ts[i].state = "ZOMBIE"}
  IN  IF unused # {} THEN Least(unused)
      ELSE IF zombies # {} THEN Least(zombies)
      ELSE -1

-----------------------------------------------------------------------------
(* The scheduler. *)

\* How far the cyclic scan that starts after task cur has to go to reach i.
ScanDistance(cur, i) == IF i > cur THEN i - cur ELSE i + MAX_TASKS - cur

\* Variant of pick_next_runnable that starts every scan at the first slot.
pick_first_runnable(ts, cur) ==
  LET ready == {i \in Tids : Ready(ts[i])}
  IN  IF ready = {} THEN -1 ELSE Least(ready)

pick_next_runnable(ts, cur) ==
  LET ready == {i \in Tids : Ready(ts[i])}
  IN  IF ready = {} THEN -1
      ELSE CHOOSE i \in ready :
             \A j \in ready : ScanDistance(cur, i) <= ScanDistance(cur, j)

SetState(ts, i, s) == [ts EXCEPT ![i].state = s]

\* Variant of SwitchFrom that leaves the task it switches away from RUNNING.
SwitchFromRunning(ts, cur) ==
  LET next == pick_next_runnable(ts, cur)
      run == IF next >= 0 THEN next ELSE cur
  IN  [tasks |-> IF run >= 0 THEN SetState(ts, run, "RUNNING") ELSE ts,
       current |-> run]

\* The task table after context_switch_from, and the task that runs then.
\* When no task is ready the current one keeps the CPU.
SwitchFrom(ts, cur) ==
  LET saved == IF cur >= 0 /\ ts[cur].state = "RUNNING"
               THEN SetState(ts, cur, "RUNNABLE") ELSE ts
      next == pick_next_runnable(saved, cur)
      run == IF next >= 0 THEN next ELSE cur
  IN  [tasks |-> IF run >= 0 THEN SetState(saved, run, "RUNNING") ELSE saved,
       current |-> run]

\* The address space task_switch_address_space loads for a task.
AddressSpaceOf(t) ==
  IF t.is_user THEN t.address_space ELSE kernel_address_space

\* Variant of context_switch_from that keeps the address space for a kernel
\* task, since all of them map the kernel.
context_switch_lazily(ts) ==
  LET s == SwitchFrom(ts, current_tid)
  IN  /\ tasks' = s.tasks
      /\ current_tid' = s.current
      /\ cr3' = IF s.current # current_tid /\ s.tasks[s.current].is_user
                THEN AddressSpaceOf(s.tasks[s.current]) ELSE cr3

\* context_switch_from, applied to the task table ts.
context_switch_from(ts) ==
  LET s == SwitchFrom(ts, current_tid)
  IN  /\ tasks' = s.tasks
      /\ current_tid' = s.current
      /\ cr3' = IF s.current # current_tid
                THEN AddressSpaceOf(s.tasks[s.current]) ELSE cr3

\* The tick leaves the running task alone until its slice is used up.
SliceRemains ==
  /\ current_tid >= 0
  /\ tasks[current_tid].state = "RUNNING"
  /\ slice_ticks + 1 < TICKS_PER_SLICE

schedule_on_tick ==
  \/ /\ SliceRemains
     /\ slice_ticks' = slice_ticks + 1
     /\ UNCHANGED <<tasks, current_tid, cr3>>
  \/ /\ ~SliceRemains
     /\ slice_ticks' = 0
     /\ context_switch_from(tasks)

-----------------------------------------------------------------------------
(* Operations. *)

\* The state in which kernel_main has created the shell and the idle task.
Init ==
  /\ tasks = [i \in Tids |-> IF i \in {SHELL, IDLE} THEN KernelTask ELSE NewTask]
  /\ current_tid = -1
  /\ slice_ticks = 0
  /\ cr3 = kernel_address_space
  /\ new_slot = -1

\* The CPU executes code of the shell, or of kernel_main before the first
\* context switch.
InShell == current_tid = SHELL /\ tasks[SHELL].state = "RUNNING"
InKernelThread == current_tid = -1 \/ InShell

\* The CPU executes code of a user program.
InUser == current_tid >= 0 /\ tasks[current_tid].is_user

\* The timer interrupt, and the software interrupt of task_yield and
\* task_sleep, which enters the same handler.
timer_tick == schedule_on_tick /\ UNCHANGED new_slot

\* schedule(), called once by kernel_main.
schedule ==
  /\ current_tid = -1
  /\ context_switch_from(tasks)
  /\ UNCHANGED <<slice_ticks, new_slot>>

\* task_sleep up to its software interrupt, which is a timer_tick.
task_sleep ==
  /\ InShell
  /\ tasks' = SetState(tasks, SHELL, "WAITING")
  /\ UNCHANGED <<current_tid, slice_ticks, cr3, new_slot>>

\* Called by the keyboard interrupt for the shell.
task_wake(tid) ==
  /\ tasks[tid].state = "WAITING"
  /\ tasks' = SetState(tasks, tid, "RUNNABLE")
  /\ UNCHANGED <<current_tid, slice_ticks, cr3, new_slot>>

\* A system call that yields: it marks the caller runnable and switches.
syscall_yield ==
  /\ InUser
  /\ context_switch_from(SetState(tasks, current_tid, "RUNNABLE"))
  /\ UNCHANGED <<slice_ticks, new_slot>>

\* SYS_EXIT: the caller becomes a zombie and the CPU goes to another task.
syscall_exit ==
  /\ InUser
  /\ context_switch_from(SetState(tasks, current_tid, "ZOMBIE"))
  /\ UNCHANGED <<slice_ticks, new_slot>>

\* task_kill_pid, called by the shell for another task.
task_kill(tid) ==
  /\ InShell
  /\ tasks[tid].is_user /\ tasks[tid].state # "NEW"
  /\ tasks' = SetState(tasks, tid, "ZOMBIE")
  /\ UNCHANGED <<current_tid, slice_ticks, cr3, new_slot>>

\* task_create_user: the slot is chosen, a zombie's stack is released ...
task_create_slot ==
  /\ InKernelThread
  /\ new_slot = -1
  /\ new_slot' = find_free_slot(tasks)
  /\ new_slot' >= 0
  /\ tasks' = [tasks EXCEPT ![new_slot'].kernel_stack = FALSE]
  /\ UNCHANGED <<current_tid, slice_ticks, cr3>>

\* ... the stack is allocated and the slot filled ...
task_create_user(pid, as) ==
  /\ InKernelThread
  /\ new_slot >= 0
  /\ tasks' = [tasks EXCEPT ![new_slot] = UserTask(pid, as)]
  /\ new_slot' = -1
  /\ UNCHANGED <<current_tid, slice_ticks, cr3>>

\* ... or there is no memory for the stack and the slot stays as it is.
task_create_fails ==
  /\ InKernelThread
  /\ new_slot >= 0
  /\ new_slot' = -1
  /\ UNCHANGED <<tasks, current_tid, slice_ticks, cr3>>

\* task_self_check, the shell's command schedcheck.  The shell may lose the
\* CPU inside the loop, but it reads the table only while it is running.
task_self_check ==
  /\ \A i, j \in Tids : tasks[i].state = "RUNNING" /\ tasks[j].state = "RUNNING" => i = j
  /\ \A i \in Tids :
       tasks[i].is_user /\ tasks[i].state # "NEW" => tasks[i].address_space # NULL
  /\ current_tid >= 0 => current_tid < MAX_TASKS /\ tasks[current_tid].state = "RUNNING"

Next ==
  \/ timer_tick
  \/ schedule
  \/ task_sleep
  \/ task_wake(SHELL)
  \/ syscall_yield
  \/ syscall_exit
  \/ \E tid \in Tids : task_kill(tid)
  \/ task_create_slot
  \/ \E pid \in Pids, as \in AddressSpaces : task_create_user(pid, as)
  \/ task_create_fails

Spec == Init /\ [][Next]_taskVars

\* The PIT raises the timer interrupt again and again, and nothing in the
\* kernel keeps interrupts disabled forever.
FairSpec == Spec /\ WF_taskVars(timer_tick)

-----------------------------------------------------------------------------
(* Properties. *)

TypeOK ==
  /\ tasks \in [Tids -> TaskRecord]
  /\ current_tid \in Tids \cup {-1}
  /\ slice_ticks \in 0 .. TICKS_PER_SLICE - 1
  /\ cr3 \in AddressSpaces \cup {kernel_address_space}
  /\ new_slot \in Tids \cup {-1}

\* The scheduler always finds a task: the idle task is never taken out of
\* the rotation, so context_switch_from never reaches the branch that sets
\* the current task, possibly a zombie or a sleeper, running again.
IdleIsReady == Ready(tasks[IDLE])

\* What task_self_check asserts of the states, at every step: at most the current task is
\* RUNNING, and only the shell, between marking itself WAITING and the
\* software interrupt of task_sleep, holds the CPU in another state.
CurrentIsRunning ==
  /\ \A i \in Tids : tasks[i].state = "RUNNING" => i = current_tid
  /\ current_tid >= 0 =>
       \/ tasks[current_tid].state = "RUNNING"
       \/ current_tid = SHELL /\ tasks[SHELL].state \in {"WAITING", "RUNNABLE"}

\* The CPU translates with the address space of the task it runs, and that
\* of a user task is never null: the kasserts of task_switch_address_space.
Cr3IsCurrent ==
  /\ cr3 = IF current_tid >= 0 THEN AddressSpaceOf(tasks[current_tid])
                               ELSE kernel_address_space
  /\ \A i \in Tids : Alive(tasks[i]) => tasks[i].address_space # NULL

\* Reusing a zombie's slot frees a stack: it is never the stack of a task
\* that may run again.
AliveHasStack == \A i \in Tids : Alive(tasks[i]) => tasks[i].kernel_stack

\* Slots 0 and 1 hold the two kernel tasks for ever, every other slot is free
\* or a user task with an address space, and the slot a creation holds is free.
SlotsOK ==
  /\ \A i \in {SHELL, IDLE} :
       /\ Alive(tasks[i]) /\ ~tasks[i].is_user
       /\ tasks[i].address_space = kernel_address_space
  /\ \A i \in Tids : tasks[i].is_user => tasks[i].address_space \in AddressSpaces
  /\ \A i \in Tids \ {SHELL, IDLE} : Alive(tasks[i]) => tasks[i].is_user
  /\ new_slot >= 0 => ~Alive(tasks[new_slot])

\* The invariant that is inductive for Next.
TaskInv ==
  TypeOK /\ IdleIsReady /\ CurrentIsRunning /\ Cr3IsCurrent
         /\ AliveHasStack /\ SlotsOK

\* HARDWARE_NOTES.md: "schedcheck ... pass".  Whenever the shell may execute it,
\* task_self_check finds nothing wrong.
SelfCheckPasses == InShell => task_self_check

\* A task that has exited or was killed never runs again: only a task
\* created in its slot does.
ZombiesStay ==
  \A i \in Tids :
    tasks[i].state = "ZOMBIE" /\ tasks'[i].state # "ZOMBIE"
      => i = new_slot /\ tasks'[i].state = "RUNNABLE"

NoResurrection == [][ZombiesStay]_taskVars

\* Round robin starves nobody: a runnable task gets the CPU or is killed,
\* however often others sleep, wake, yield or are created.
RunnableRuns ==
  \A i \in Tids :
    tasks[i].state = "RUNNABLE" ~> tasks[i].state \in {"RUNNING", "ZOMBIE"}
=============================================================================
