----------------------------- MODULE TrapFrame -----------------------------
(***************************************************************************)
(* Where the registers of a task are while it does not run.  An interrupt  *)
(* in kernel mode pushes them on the stack in use, the task's own; one in  *)
(* user mode pushes them on the stack the TSS names, and tss_init gives    *)
(* one stack, kernel_irq_stack, for all tasks.  context_switch_from keeps  *)
(* the address of the pushed frame, and the assembly stubs resume the next *)
(* task from the address kept for it.                                      *)
(***************************************************************************)
EXTENDS Task

VARIABLES
  kernel_rsp,  \* where the saved frame of a task is: on its "own" stack, on
               \* the shared "irq" stack, or "none"
  irq_frame,   \* whose registers the top of kernel_irq_stack holds, or -1
  ctx          \* whose registers the CPU has, -1 for kernel_main

frameVars == <<kernel_rsp, irq_frame, ctx>>
vars == <<taskVars, frameVars>>

-----------------------------------------------------------------------------
\* Where an interrupt of the running task t pushes its registers.
SavedAt(t) == IF t.is_user THEN "irq" ELSE "own"

\* An interrupt pushes the registers of the running task.
EnterKernel ==
  irq_frame' = IF current_tid >= 0 /\ SavedAt(tasks[current_tid]) = "irq"
               THEN ctx ELSE irq_frame

\* context_switch_from keeps the address of the frame.
KeepFrame ==
  kernel_rsp' = IF current_tid >= 0
                THEN [kernel_rsp EXCEPT ![current_tid] = SavedAt(tasks[current_tid])]
                ELSE kernel_rsp

\* The stub pops the frame of the next task, or of the interrupted one.
ReturnFromInterrupt ==
  ctx' = IF current_tid' = current_tid THEN ctx
         ELSE IF kernel_rsp[current_tid'] = "irq" THEN irq_frame'
         ELSE current_tid'

\* A switching interrupt or system call.
Switches == EnterKernel /\ KeepFrame /\ ReturnFromInterrupt

\* One that returns to the interrupted code.
Returns == EnterKernel /\ UNCHANGED <<kernel_rsp, ctx>>

isr32 ==
  /\ timer_tick
  /\ IF SliceRemains THEN Returns ELSE Switches

isr128 ==
  \/ (syscall_yield \/ syscall_exit) /\ Switches
  \/ InUser /\ UNCHANGED taskVars /\ Returns

\* A key, with or without a sleeping shell to wake.
isr33 ==
  /\ task_wake(SHELL) \/ UNCHANGED taskVars
  /\ Returns

\* setup_initial_frame puts the first frame of a task on its own stack.
Create(pid, as) ==
  /\ task_create_user(pid, as)
  /\ kernel_rsp' = [kernel_rsp EXCEPT ![new_slot] = "own"]
  /\ UNCHANGED <<irq_frame, ctx>>

KernelCode ==
  /\ \/ task_sleep \/ task_create_slot \/ task_create_fails
     \/ \E tid \in Tids : task_kill(tid)
  /\ UNCHANGED frameVars

TFInit ==
  /\ Init
  /\ kernel_rsp = [i \in Tids |-> IF i \in {SHELL, IDLE} THEN "own" ELSE "none"]
  /\ irq_frame = -1
  /\ ctx = -1

TFNext ==
  \/ isr32 \/ isr33 \/ isr128
  \/ schedule /\ Switches
  \/ \E pid \in Pids, as \in AddressSpaces : Create(pid, as)
  \/ KernelCode

TFSpec == TFInit /\ [][TFNext]_vars

-----------------------------------------------------------------------------
(* Properties. *)

\* The comment at the stack switch of isr.S, "load new task RSP": the CPU
\* goes on with the registers of the task that current_tid names.
OwnFrame == ctx = current_tid
=============================================================================
