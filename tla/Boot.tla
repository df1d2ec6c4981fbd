-------------------------------- MODULE Boot --------------------------------
(***************************************************************************)
(* From the firmware to the running kernel: the boot loader, then          *)
(* kernel_main with its memory, its log, the ACPI tables and the interrupt *)
(* controllers, and shutdown.                                              *)
(***************************************************************************)
EXTENDS BootMemory, IrqRouting

vars == <<loaderVars, memoryVars, irqVars>>

Init == LoaderInit /\ MemoryInit /\ IrqInit

Loader == efi_main /\ UNCHANGED <<memoryVars, irqVars>>

\* kernel_main up to init_memory.
KernelStarts ==
  /\ lpc = "kernel"
  /\ irq_controller_init
  /\ UNCHANGED <<loaderVars, memoryVars>>

KernelMemory ==
  /\ pc = "acpi_init"
  /\ \/ init_memory /\ UNCHANGED klogVars
     \/ SmokeTests /\ klog_lines(IF kpc' = "ready" THEN <<Info("heap tested")>> ELSE <<>>)
  /\ UNCHANGED <<acpiTables, shutdownVars, routeVars, bootVars, serviceVars>>

\* The rest of kernel_main, and what interrupts and the shell do after it.
KernelRuns ==
  /\ kpc = "ready"
  /\ IrqNext
  /\ UNCHANGED <<loaderVars, memoryVars>>

Next == Loader \/ KernelStarts \/ KernelMemory \/ KernelRuns

\* Once shutdown has begun, nothing keeps the processor from executing it.
Spec ==
  /\ Init /\ [][Next]_vars
  /\ WF_vars(/\ sd # "no" /\ shutdown
             /\ UNCHANGED <<loaderVars, memoryVars, klogVars, routeVars, bootVars,
                            serviceVars>>)

-----------------------------------------------------------------------------
(* The machines for which LogKeepsRecent is meant. *)

\* What acpi_init logs is a list of lines, as it is where the root tables list
\* tables and the MADT lists entries.
TablesAreListed == pc = "acpi_init" => IsSeq(AcpiLines(bootInfo.rsdp))
=============================================================================
