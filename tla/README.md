# Verification of SamOS

TLA+ models of the SamOS kernel (x86_64, one CPU), checked with TLC on small
instances, with proofs checked by TLAPS for every value of the constants: of the
scheduler, the process table, the keyboard ring, the shell's history, its cursor and
clock, the page allocator, the heap, address spaces, the hand-over and the layout of
memory at boot, the kernel log, interrupt routing and power off.

## The system

`boot/bootloader.c` loads the kernel and hands over a memory map.
`kernel_main` (kernel/kernel.c) sets up page tables, the physical allocator, the
heap, ACPI and the interrupt controller, creates the shell and the idle task,
spawns two user processes, enables interrupts and enters the scheduler. From then
on the shell reads keys, edits a line on the display and runs commands, while
ticks switch to user programs, which print, yield and exit.

| part | source | modules |
|---|---|---|
| scheduler | kernel/scheduler/task.c, timer.c | Task, TaskProofs |
| process table | kernel/process.c, syscall.c, shell.c | Process, ProcessProofs |
| interrupt stacks, trap frames | isr.S, tss.c, task.c | TrapFrame |
| keyboard | keyboard.c | Keyboard, KbQueue, DeviceProofs |
| shell | shell.c | Shell (editor, history), ShellProofs, Process (spawn, kill, wait) |
| display | display.c | Display, DeviceProofs, ShellProofs |
| real time clock | rtc.c | Rtc, DeviceProofs, ShellProofs |
| boot loader | boot/bootloader.c | BootLoader, BootMemoryProofs |
| memory at boot | paging.c, pmm.c, kmalloc.c, kernel.c | MemoryMap, BootMemory, BootMemoryProofs |
| kernel log | klog.c | Klog, BootProofs |
| physical page allocator | pmm.c | Pmm, AllocatorProofs |
| address spaces | vmm.c, process.c | Vmm, VmmProofs |
| kernel heap | kmalloc.c | Kmalloc, AllocatorProofs |
| firmware tables, power off | acpi.c | Acpi, BootProofs |
| interrupt routing | irq.c, apic.c, pic.c, idt.c | IrqRouting, BootProofs |
| the whole boot and power off | kernel.c | Boot, BootProofs |

What runs concurrently: every IDT gate is an interrupt gate, so interrupt
handlers and system calls run with interrupts disabled and are one action each.
The shell runs with interrupts enabled: its code is cut into the steps between
which a tick, a key or (after a tick) a system call of another task can matter.
The kernel is compiled without optimisation, so an update such as
`free_pages--` is a load and a store.

## Modules

**Task** is the task table, the round robin choice, `context_switch_from` and its
callers (`timer_tick`, `schedule`, the two kinds of system call), sleeping,
waking, killing and creating. `task_sleep` and `task_yield` raise the timer's
vector by software, so they end in a `timer_tick`. Kernel stacks are reduced
to whether a slot has one. `new_slot` is the local variable of
`task_create_user` between the choice of the slot and its use.

**Process** extends Task with the process table and the code of `kernel_main` and
the shell that works on it, one step per assignment that an interrupt could
see: spawn (with every failure path), kill, wait and the deferred reaping,
which also happens whole inside each context switch. `live` is the set of
address spaces that exist; `pc` and `sh` are the program counter and locals of
the shell. The shell loads the address space it is about to destroy once more
(process.c:273), so it may find 0 there. `vmm_destroy_address_space(0)` takes page 0,
which is mapped, for an AddressSpace: `LiveAfterDestroy` lets this destroy anything, unless
`PageZeroEmpty`. What page 0 holds is up to the firmware; the runs take it to have no
entries, so that what else they show does not depend on it.

**TrapFrame** extends Task with the place where registers are saved: on a kernel
task's own stack, or on the one stack that the TSS names for ring 3.

**Keyboard** extends Task with scancode decoding, the ring buffer and the
shell's read loop. **KbQueue** is what the ring promises, a bounded queue;
`QueueSpec` states that the ring implements it. The keyboard itself is
external: any sequence of presses, repeats and releases, with prefixed codes.

**Display** has the cursor, the shadow buffer, the dirty rows and the framebuffer,
in units of characters. Its operators print a text as a system call does, with
interrupts disabled; its actions are the loads and stores of the shell, which a
tick may separate. `mark` is auxiliary: the column of the last prompt.

**Rtc** reads the clock register by register, twice, while the clock goes on and
while the shell may lose the CPU. Of the clock, an update may change any subset of
the registers until it is over. `rtc_format` is left out.

**Shell** extends these three with the line editor, the history and the commands that
change what is shown. A key changes the shell's variables in one step, since
nobody else reads them; its output is a list of items (`todo`) printed step by step.
Commands about processes are in Process and shutdown is in IrqRouting; here they are
lines of text. `sys_write` and `sys_exit` are the output of a user program. While no
program is alive nobody else prints, and the shell's output is one step
(`PrintAlone`). `recent` is auxiliary: the commands a history should hold.

**Pmm** builds the bitmap from a firmware map as `pmm_init` does (MemoryMap), and has one
action per `bitmap_test` of a scan and per load and store of a byte or of the
counter. `Tick` is the interrupting `process_reap_deferred`.

**Vmm** has address spaces as `process_spawn_from_elf` builds and reaping destroys
them, after the smoke test of boot. The three lower levels of tables are one
level: the code treats them with the same function. Image pages have PML4
index 0, shared by all, stack pages an index of their own.

**Kmalloc** is the block list with addresses and sizes in units of the alignment. The
loop of `coalesce` is a step per block; `block` is its local variable.
Others take and free pages at any time, as the shadow buffer, address spaces and page
tables do. `torn` is auxiliary: `coalesce` has merged two blocks that are not neighbours
in memory.

**BootLoader** is `efi_main`: page tables, kernel file, segments, BootInfo, memory map and
ExitBootServices, with each error path. Memory is a function from pages to EFI types
that the loader's allocations, and the firmware at any time (`FirmwareChanges`), change; a
change makes the map key stale. Memory does not run out while the loader runs. **BootMemory** goes on with `init_memory`: where the
kernel's tables, the bitmap, the heap and the shadow buffer come to lie, and what can be
reached through the tables of the loader until `cr3` is loaded. The smoke tests need
TEST_PAGES free pages and panic without. **MemoryMap** has what
`pmm_init` makes of descriptors, shared with Pmm. **Klog** is the ring of lines.

**Acpi** finds the firmware's tables, reads the MADT and the FADT, scans the bytes of
the DSDT for the sleep types and has `shutdown` with the wait for ACPI mode. A
table is a record with its signature and whether its checksum is right.

**IrqRouting** extends Acpi with redirection entries, the choice of backend and
delivery and acknowledgement of interrupts. How the controllers prioritise and how
devices are wired is external.

**Boot** composes these: the loader, then the kernel with its memory, its log, its tables
and its interrupts, and in the end shutdown.

Definitions whose comment begins with "Variant of" are deliberately wrong
versions of the definition they precede. Nothing uses them: substituted
for it, they show that a property notices such a mistake.

## Runs

| run | checks | bounds |
|---|---|---|
| boot_processes | RunnableRuns, DeadSpaceIsFreed, WaitReturns under fairness | 4 tasks, 2 processes, slices of 2 ticks |
| shell_processes | scheduler and process table invariants | 4 tasks, 3 pids, 3 address spaces, table of 2, slices of 2 ticks |
| lost_exit | WaitReturns fails when the shell spawns | 3 tasks, 1 process |
| null_reap | NoNullDestroy fails | as shell_processes |
| keyboard | ring implements queue, shift state, line on the screen, recalls, cursor, time of the prompt | buffer of 3, lines of 2, history of 2, screens of 4 by 3 to 5 by 4, six users |
| lost_wakeup | InputIsRead fails | buffer of 3, one key |
| shared_irq_stack | OwnFrame fails | 2 user tasks |
| allocators | pages: no double allocation, exact bitmap and counter, first fit; heap, until blocks are merged across foreign pages: blocks cover the heap's pages exactly, are large enough, and stay while in use | pages: 6, 3 to a byte, runs up to 3, 3 maps; heap: 6 pages of 8 units, header 2, two sizes |
| vmm | no free or shared page reachable, no kassert fails | 11 pages, 2 spaces, 2 image and 2 stack pages |
| shared_image | RunsOwnImage fails | the same |
| heap_gap | PageBacked fails | the heap of allocators, three sizes |
| irq | hand-over, memory and log of the boot; timer and keyboard arrive, right handler, all acknowledged; shutdown ends, in ACPI mode, with the right sleep types | 32 pages of memory, 6 IRQs, 8 pins, up to 2 overrides, ring of 5 lines, 2 changes by the firmware |

The bounds let each interesting case happen: slots and table entries
are reused, tables are full, buffers wrap and fill, a run of pages crosses a byte,
memory runs out, the heap grows by more than one page at a time.
The run allocators explores behaviours of Pmm and behaviours of Kmalloc in one state space: `subject` says
which of the two runs, and the other one stands still.
Users of the shell (MCShell) are ways to use it: typing ahead with shift keys, editing and
recalling, entering commands, sharing the screen with a program that writes or exits,
looking at the prompt while the clock turns. A user fixes the keys, the screen, whether
ticks interrupt the shell, and the bounds `commands` (commands kept in the history)
and `writes` (of the program); the behaviours of all six are explored in one run. Its
VIEW leaves out characters that were read already.
The clock turns at a minute, an hour, noon, midnight and a year, in all four modes; a year
outside 2000 to 2099 comes back as one inside (rtc.c:108).
`MaxChanges` in BootLoader bounds the firmware's own changes of memory;
`MaxDrift` in Pmm bounds how far lost updates may move the counter; `Pids` bounds the number of spawns; `MaxSpaces` the number of address spaces.
Deadlock is checked except in vmm, where a panic, or memory leaked by exits, ends
the run, and in irq, where shutdown does. Pmm has ticks only after `enable_interrupts`, as the kernel.

The runs that end in a violation each show a disagreement with the repository's
notes:

- **lost_exit** — the task is runnable before its table entry is filled
  (process.c:196-210). If it exits in between, nobody marks the entry.
- **null_reap** — `process_reap_deferred` checks `p->address_space` at lines 264 and 270 and
  loads it again at 273. A tick after line 270 may reap the same entry and leave 0 there,
  and `vmm_destroy_address_space` (vmm.c:105-129) has no kassert against it, as `vmm_map`
  and `vmm_unmap` have (vmm.c:135, 163).
- **lost_wakeup** — a key between the empty buffer (shell.c:384) and
  `TASK_WAITING` (task.c:255) wakes nobody. If the buffer fills in this window,
  `kb_push` (keyboard.c:57) returns before `task_wake` for every later key.
- **shared_irq_stack** — `tss.rsp0` is set once (tss.c:63); the frame of a preempted
  user task is overwritten by the next interrupt in another user task.
- **shared_image** — user.ld places programs under PML4 entry 0, which
  `vmm_create_address_space` shares; `load_elf_into_as` writes over mapped pages.
- **heap_gap** — `coalesce` (kmalloc.c:41) joins blocks that are neighbours in the
  list only. Task stacks and process pages come from the same allocator in turn,
  so regions of the heap are separated in practice. The run allocators shows that this merge
  is the only way in which the heap loses track of its pages.

Some more follow from the models and have no run: with several I/O APICs
`parse_madt` keeps the last (acpi.c:167) and the timer may go unrouted while the PIC
is masked; a route that fails after others were made (irq.c:110) leaves those in
force with the PIC as backend; erasing across a wrapped line is one column off, since
print_char never uses the last column (display.c:165, 176); a program's newline
between the test and the change of the column takes `cursor_x` below zero until the
next newline (display.c:161); a row printed to between its copy and the reset of its mark
stays old on the screen (display.c:46-49). EchoMatches and CursorOnScreen are stated so as
to promise nothing of these.

## Fairness

`FairProcSpec` and `FairKbSpec` assume weak fairness of the timer interrupt (the PIT
is periodic and no code keeps interrupts disabled for ever) and strong fairness of
the shell's steps: it executes whenever it holds the CPU, but ticks take the CPU
from it again and again. Nothing is assumed of user programs, of keys, or of
commands being entered. Spec of Boot assumes
that shutdown, once begun, is executed; nothing is assumed of the firmware's answer.

## Proofs

Each proof module has the same plan: an inductive invariant, stated at the end of the
model it is about, one lemma per action that keeps it, and theorems that follow from it.
TLC has checked every one of these invariants on the instances of the runs. What the
theorems assume are the named assumptions of the models, which TLC evaluates in
every run, and the hypotheses they state.

**TaskProofs** (any table of at least 2 slots, any slice length: `TaskAssumption`).
`SchedulerInvariant` is Spec => []TaskInv. From it: CurrentIsRunning and IdleIsReady
(`SchedulerSafety`), Cr3IsCurrent (`AddressSpaceIsLoaded`), AliveHasStack (`StacksAreKept`),
NoResurrection (`ZombiesNeverRun`), and that `task_self_check` (the command schedcheck)
finds nothing wrong whenever the shell runs it (`SelfCheckNeverFails`).
TaskInv joins the type invariant, these and `SlotsOK`. None is inductive
alone. IdleIsReady is what makes the scan find somebody, so that the branch that sets
the current task running again is dead; it needs SlotsOK (the idle task is not a
user task, so neither exits nor is killed). CurrentIsRunning needs IdleIsReady.
Cr3IsCurrent needs SlotsOK: the slot a creation fills is not alive, hence not the
current one. The choice of the least slot and of the nearest task rest on the
well-foundedness of the naturals.

**ProcessProofs** (any table size, any pids and address spaces: `ProcessAssumption`).
The theorems assume []PageZeroIsSafe: page 0 holds no entries, or no address space 0 is ever destroyed. Without
it nothing can be promised, since null_reap reaches the call and it may destroy anything.
`ProcessInvariant` is [](TaskInv /\ ProcInv), and gives NoDangling
(`NothingDangles`), NoLeak (`NothingLeaks`), SecondDestroyIsIdle (`SecondDestroyFreesNothing`),
AliveIsListed (`LiveTasksAreListed`), PidsUnique (`ProcessesAreDistinct`) and the action
property LoadedIsSpared (`LoadedIsNeverDestroyed`). Each step of the process table is a step
of the scheduler or leaves it alone, so what is proved of the scheduler carries over
(`ProcessKeepsScheduler`). ProcInv adds to these what the code
in progress may rely on although ticks and exits come between its steps: `SpawnOK`
(what a spawn has allocated is in nobody else's hands), `FillOK` (how far the entry is
filled while its task may already run, exit and be reaped), `KillOK` (the
entry a kill has found is still that of the pid), `ReapOK` (a context switch may have
reaped the same entry) and `TableOK` (an entry without an address space is left
to be reaped only ahead of the shell's reaper). The lemmas follow the steps of the shell,
and reaping inside a context switch has lemmas of its own.

**DeviceProofs, keyboard** (any ring of 2 to 255 places: `KeyboardAssumption`). `RingIsQueue` is
KbSpec => QueueSpec, the refinement of KbQueue with the unread characters as the queue, and
`ShiftIsTracked` is ShiftTracksKeys. The invariant KbInv (`KeyboardInvariant`) says that
between its test and its advance `kb_getchar` finds a character and holds that of the
tail, and that the driver expects a second byte exactly when the device sends one. The
assumption leaves out a key with code 0x60, whose release would be the prefix
0xE0; the scancode set has none.

**ShellProofs** (any INPUT_MAX of at least 2, HISTORY_MAX, users, and screens of at least a
column and two text rows: `ShellAssumption`). `ShellTracksShift` and
`ShellReadsQueue` are the same results for the whole shell; `RecallsAreExact` is
RecallIsExact: whatever was entered, the history recalls exactly the command so many steps
back. Its invariant HistoryOK relates the ring to the list of recent commands by
indices modulo HISTORY_MAX; it needs that no two indices less than HISTORY_MAX apart
are equal modulo it.
`CursorStaysOnScreen` is CursorOnScreen. RowOK, whose lemmas about single steps are in
DeviceProofs like those about the clock, says at which labels of `print_char` and
`scroll` the row may be the last one, and what a row held in a register can be stored back
as although a program printed meanwhile; ScreenOK adds the state of the pending output.
`ClockIsNotTorn` is ClockNotTorn for RealClocks: times are valid (years 2000 to 2099), and
a call is over before a second shows again or another field returns to a value it has
left. The code has no bound on the time between its reads, so without this two equal
readings need not be one time. RtcInv says from which stretch of the timeline each
register was read; two equal readings of the second pin the stretch to one time, and
decoding gives back what the registers encode in each of the four modes. The clocks of
the run satisfy it (`MCClocksAreReal`).

**AllocatorProofs, pages** (any number of pages, pages per byte, map and run length: `PmmAssumption`).
`AllocationsAreDisjoint` is NoDoubleAllocation, `BitmapShowsOwners` BitmapIsExact,
`ScanIsFirstFit` FirstFit. PmmInv (`PmmInvariant`) says for each label which pages the
bitmap shows, how far a run is marked, and what a byte in a register may still lack: a
tick frees pages, so a register that is stored back may mark a free page as used, never
the reverse. `CounterIsExact` is FreeCountExact for behaviours in which `pmm_init` has
counted the free pages right: the count is a sum over a set of descriptors, which
only an induction over that set could show; TLC checks it in the run.

**VmmProofs** (any pages, image pages, stack pages other than none: `VmmAssumption`; a
process always has a stack). `FreePagesAreUnreachable` is NoFreePageReachable,
`SpacesAreSeparate` PagesNotShared and `MapsAreFresh` NoKassert. The heart of VmmInv
(`VmmInvariant`) is UsedOnce: over all places that can hold the number of a page (objects,
PML4s, tables, their entries), no page is at two and none that is at one is free.
It does not follow from the two properties, since reachability says nothing of the pages
of objects. LowIsShared, StackLeft and SmokeOK say why a mapping finds its entry empty.

**AllocatorProofs, heap** (any page size above the header size, any requests:
`KmallocAssumption`, with other users of pages). `HeapInvariant` is HeapSpec => []HeapInv, and
gives SoundUntilTorn (`HeapIsSoundUntilTorn`), LargeEnough (`AllocationsAreLargeEnough`) and
the action property UsedBlocksStay (`BlocksInUseStay`): no split or merge moves or resizes a
block somebody uses. HeapInv says that, unless `torn`, the blocks cover exactly the units of
the pages the heap owns, each unit in one block (ExactlyCovers). Nothing is said of the order
of the list, so regions may lie anywhere and foreign pages between them. A split replaces a
block by two with the same units, a merge of neighbours in memory two by one, and an
expansion adds a block with the units of pages that were nobody's; these three facts are the
lemmas. Once torn nothing is promised, as heap_gap shows.

**BootProofs** (any machine).
- `SleepIsInAcpiMode` is SleepsInAcpiMode. `RightTypesAreWritten` is S5TypesWritten if
  TypesRead, that is, if the scan of the DSDT has found the types of the machine; that
  it does for each encoding is a recursion over bytes, which TLC checks.
- `InterruptsAreAcknowledged` is AllAcknowledged unless HalfRouted: a route that fails after
  others were made leaves entries in force that are acknowledged at the PIC
  (irq.c:110). `HandlersAreRight` is RightHandler where the I/O APIC has no entries (all
  interrupts come through the PIC), or if WiringKnown (the MADT says how the machine is
  wired) and NoClash (no device sits on the GSI of a lower IRQ, whose route would then
  win). `CriticalIrqsDeliver` is TimerAndKeyboardDeliver unless HalfRouted, and with the
  APIC as backend if WiringKnown and CriticalServed (the I/O APIC that was kept serves
  both). Without these conditions the statements are false of the code; on the machines
  of the run all of them hold once boot is over. RoutingInv (`RoutingInvariant`) says which
  entries the loop has written so far.
- `LogIsKept` is LogKeepsRecent for every size of the ring, if TablesAreListed: the lines about
  the firmware's tables are a list, which would need an induction over those tables and
  which TLC checked on the machines of the run. KlogOK says that the place so far behind
  the head holds the line logged so long ago.

**BootMemoryProofs** (any machine).
- `HandoverHolds` is HandoverIsCurrent: keys only grow (LoaderOK), so a map whose key
  ExitBootServices accepts has not gone stale.
- `KernelKeepsItsMemory` is KernelMemoryKept on RealMachines wherever PlacedOnFreeMemory.
  RealMachines (evaluated for the machines of the run: `MCMachinesAreReal`): memory is
  bounded, the firmware describes the framebuffer neither as free memory nor as memory of
  its own, and the kernel has a page. PlacedOnFreeMemory: the tables and the bitmap behind
  the kernel lie on free memory, which `paging_init` and `pmm_init` take for granted
  (paging.c:119, pmm.c:246); it held in every reachable state of the run with `init_memory`
  done. AllocationsOK says that what the loader allocated stays its own although the
  firmware changes memory at any time, hence that no descriptor of free memory covers it;
  InitMemoryOK follows the bitmap, the heap and the shadow buffer from step to step.

Only model-checked:
- the liveness properties RunnableRuns, DeadSpaceIsFreed, WaitReturns and ShutdownEnds, which
  the prover cannot do;
- EchoMatches: what a printed line looks like is a recursion over its characters, wrapping and
  scrolling included;
- OneChangeIsSurvived: it compares the number of descriptors of two memory maps, which only an
  induction over the pages could bound;
- under the hypotheses named above, the count of free pages in `pmm_init`, the scan of the
  DSDT and the list of tables.

## Not modelled, and plan

Not modelled: descriptor tables (constant), the serial port and fonts (output),
`rtc_format`, `print_hex`, `print_dec` and what the boot prints before the display has its
shadow buffer (output; a scroll at that time would write at address 0, display.c:58, but
the boot prints too few lines at usual resolutions), flags of page table entries, `percpu.c` and
`syscall_entry.S` (not reached), the kasserts of `vmm_map` on null, alignment and huge pages
(vmm.c:135-137, 151; no caller could fail them), the writes to the ports of virtual machines
at the end of `shutdown` (acpi.c:416-419), overrides of the MADT that clash, the range check of `sys_write`, the byte formats of ELF and
of ACPI outside the DSDT. The loader's calls of AllocatePool and LocateProtocol, whose
results it does not check, succeed in the model.
`sys_spawn` from user code is left out: no program of the repository calls it.
The results about the process table rest on this, since with it a user
task could take the slot that the shell's spawn has chosen and not yet filled.
The switch inside `schedule()` is one action; a tick inside it would save
the frame of `kernel_main` as the shell's.

Next: `sys_spawn` from user code, once a program of the repository calls it, and the
layout of lines on the screen as a list, in which EchoMatches can be reasoned about.
