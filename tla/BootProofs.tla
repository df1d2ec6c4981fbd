----------------------------- MODULE BootProofs -----------------------------
(***************************************************************************)
(* Proofs about shutdown, interrupt routing and the kernel log, for every  *)
(* machine: kernel/acpi.c, irq.c and klog.c.                               *)
(***************************************************************************)
EXTENDS Boot, WellFoundedInduction, TLAPS

-----------------------------------------------------------------------------
(* Shutdown. *)

\* A step that changes neither the tables nor the registers, and does not undo
\* the start of interrupts.
LEMMA PowerLeft ==
  ASSUME PowerOK, UNCHANGED <<acpiTables, shutdownVars>>, pc = "on" => pc' = "on"
  PROVE  PowerOK'
BY DEF PowerOK, acpiTables, shutdownVars, AcpiMode

\* PowerOK holds before the kernel runs.
LEMMA PowerStarts == IrqInit => PowerOK
<1> SUFFICES ASSUME IrqInit PROVE PowerOK
  OBVIOUS
<1>1. sd = "no"
  BY DEF IrqInit, AcpiInit
<1>2. PICK on \in BOOLEAN : pm1 = <<[sci_en |-> on, slp_typ |-> 0, slp_en |-> FALSE],
                                    [sci_en |-> on, slp_typ |-> 0, slp_en |-> FALSE]>>
  BY DEF IrqInit, AcpiInit
<1>3. /\ DOMAIN pm1 = 1 .. 2 /\ pm1[1].slp_en = FALSE
      /\ \A r \in 1 .. 2 : DOMAIN pm1[r] = {"sci_en", "slp_typ", "slp_en"}
  BY ONLY <1>2
<1> QED
  BY ONLY <1>1, <1>3 DEF PowerOK

\* acpi_init comes before any shutdown and keeps PowerOK.
LEMMA ReadTablesKeepsPower ==
  ASSUME PowerOK, ReadTables
  PROVE  PowerOK'
<1>1. sd = "no" /\ sd' = "no" /\ pm1' = pm1
  BY Zenon DEF PowerOK, ReadTables, acpi_init, shutdownVars
<1> QED
  BY <1>1 DEF PowerOK

\* The start of shutdown keeps PowerOK.
LEMMA ShutdownBeginsKeeps ==
  ASSUME PowerOK, pc = "on", pc' = pc, ShutdownBegins
  PROVE  PowerOK'
<1>1. /\ sd = "no" /\ pm1' = pm1 /\ polls' = polls /\ g_poweroff' = g_poweroff
      /\ sd' = IF ~g_poweroff.have THEN "halt"
               ELSE IF ~AcpiMode /\ g_poweroff.smi THEN "poll" ELSE "write_a"
  BY DEF ShutdownBegins, acpiTables
<1>2. AcpiMode' = AcpiMode
  BY <1>1 DEF AcpiMode
<1> QED
  BY <1>1, <1>2 DEF PowerOK

\* A look at SCI_EN, the last one included, keeps PowerOK.
LEMMA PollKeeps ==
  ASSUME PowerOK, pc = "on", pc' = pc, Poll
  PROVE  PowerOK'
<1>1. /\ sd = "poll" /\ pm1' = pm1 /\ g_poweroff' = g_poweroff
      /\ IF AcpiMode \/ polls = MAX_POLLS THEN sd' = "write_a" /\ polls' = polls ELSE sd' = sd
  BY DEF Poll, acpiTables
<1>2. AcpiMode' = AcpiMode
  BY <1>1 DEF AcpiMode
<1> QED
  BY <1>1, <1>2 DEF PowerOK

\* What a write to a control register leaves in it.
LEMMA SleepSets ==
  ASSUME PowerOK, NEW r \in 1 .. 2, NEW typ, pm1' = Sleep(r, typ)
  PROVE  /\ DOMAIN pm1' = 1 .. 2
         /\ \A k \in 1 .. 2 : DOMAIN pm1'[k] = {"sci_en", "slp_typ", "slp_en"}
         /\ pm1'[r].slp_en = TRUE /\ pm1'[r].slp_typ = typ % 8
         /\ \A k \in 1 .. 2 : k # r => pm1'[k] = pm1[k]
         /\ AcpiMode' = AcpiMode
<1>1. PICK new : new = typ % 8
  OBVIOUS
<1>2. pm1' = [pm1 EXCEPT ![r].slp_typ = new, ![r].slp_en = TRUE]
  BY <1>1 DEF Sleep
<1>3. DOMAIN pm1 = 1 .. 2 /\ \A k \in 1 .. 2 : DOMAIN pm1[k] = {"sci_en", "slp_typ", "slp_en"}
  BY DEF PowerOK
<1>4. pm1'[r].slp_en = TRUE /\ pm1'[r].slp_typ = new /\ pm1'[1].sci_en = pm1[1].sci_en
  BY ONLY <1>2, <1>3, r \in 1 .. 2
<1>5. /\ DOMAIN pm1' = 1 .. 2
      /\ \A k \in 1 .. 2 : DOMAIN pm1'[k] = {"sci_en", "slp_typ", "slp_en"}
      /\ \A k \in 1 .. 2 : k # r => pm1'[k] = pm1[k]
  BY ONLY <1>2, <1>3, r \in 1 .. 2, ZenonT(60)
<1> QED
  BY <1>1, <1>4, <1>5 DEF AcpiMode

\* The write to PM1a keeps PowerOK.
LEMMA WriteAKeeps ==
  ASSUME PowerOK, pc = "on", pc' = pc, WriteA
  PROVE  PowerOK'
<1>1. /\ sd = "write_a" /\ g_poweroff' = g_poweroff /\ polls' = polls
      /\ sd' = IF g_poweroff.pm1b THEN "write_b" ELSE "halt"
      /\ pm1' = Sleep(1, g_poweroff.slp_typa)
  BY DEF WriteA, acpiTables
<1>2. /\ DOMAIN pm1' = 1 .. 2
      /\ \A k \in 1 .. 2 : DOMAIN pm1'[k] = {"sci_en", "slp_typ", "slp_en"}
      /\ pm1'[1].slp_en = TRUE /\ pm1'[1].slp_typ = g_poweroff.slp_typa % 8
      /\ AcpiMode' = AcpiMode
  BY ONLY PowerOK, 1 \in 1 .. 2, <1>1, SleepSets, Zenon
<1> QED
  BY <1>1, <1>2 DEF PowerOK

\* The write to PM1b keeps PowerOK.
LEMMA WriteBKeeps ==
  ASSUME PowerOK, pc = "on", pc' = pc, WriteB
  PROVE  PowerOK'
<1>1. /\ sd = "write_b" /\ g_poweroff' = g_poweroff /\ polls' = polls
      /\ sd' = "halt" /\ pm1' = Sleep(2, g_poweroff.slp_typb)
  BY DEF WriteB, acpiTables
<1>2. /\ DOMAIN pm1' = 1 .. 2
      /\ \A k \in 1 .. 2 : DOMAIN pm1'[k] = {"sci_en", "slp_typ", "slp_en"}
      /\ pm1'[2].slp_en = TRUE /\ pm1'[2].slp_typ = g_poweroff.slp_typb % 8
      /\ AcpiMode' = AcpiMode /\ pm1'[1] = pm1[1]
  BY ONLY PowerOK, 1 \in 1 .. 2, 2 \in 1 .. 2, 1 # 2, <1>1, SleepSets, Zenon
<1> QED
  BY <1>1, <1>2 DEF PowerOK

\* The firmware switching ACPI mode on keeps PowerOK.
LEMMA ModeComesOnKeeps ==
  ASSUME PowerOK, pc = "on", pc' = pc, AcpiModeComesOn
  PROVE  PowerOK'
<1>1. /\ sd' = sd /\ g_poweroff' = g_poweroff /\ polls' = polls
      /\ pm1' = [pm1 EXCEPT ![1].sci_en = TRUE]
  BY DEF AcpiModeComesOn, acpiTables
<1>2. DOMAIN pm1 = 1 .. 2 /\ \A k \in 1 .. 2 : DOMAIN pm1[k] = {"sci_en", "slp_typ", "slp_en"}
  BY DEF PowerOK
<1>3. /\ DOMAIN pm1' = 1 .. 2
      /\ \A k \in 1 .. 2 : DOMAIN pm1'[k] = {"sci_en", "slp_typ", "slp_en"}
      /\ pm1'[1].sci_en = TRUE
      /\ \A k \in 1 .. 2 : pm1'[k].slp_en = pm1[k].slp_en /\ pm1'[k].slp_typ = pm1[k].slp_typ
  BY ONLY <1>1, <1>2
<1>4. AcpiMode'
  BY <1>3 DEF AcpiMode
<1> QED
  BY <1>1, <1>3, <1>4 DEF PowerOK

\* Every other step leaves the registers and the tables alone.
LEMMA OthersLeavePower ==
  ASSUME \/ Loader \/ KernelStarts \/ KernelMemory \/ UNCHANGED vars
         \/ EnableApic \/ RouteIrq \/ SwitchBackend \/ enable_interrupts
         \/ \E irq \in Devices : PicInterrupt(irq) \/ ApicInterrupt(irq)
  PROVE  UNCHANGED <<acpiTables, shutdownVars>> /\ (pc = "on" => pc' = "on")
<1>1. CASE Loader \/ UNCHANGED vars
  BY <1>1 DEF Loader, vars, irqVars, bootVars
<1>2. CASE KernelStarts
  BY <1>2, Zenon DEF KernelStarts, irq_controller_init
<1>3. CASE KernelMemory
  BY <1>3, Zenon DEF KernelMemory, bootVars
<1>4. CASE EnableApic
  BY <1>4, ZenonT(60) DEF EnableApic
<1>5. CASE RouteIrq
  BY <1>5, Zenon DEF RouteIrq
<1>6. CASE SwitchBackend \/ enable_interrupts
  BY <1>6, Zenon DEF SwitchBackend, enable_interrupts
<1>7. CASE \E irq \in Devices : PicInterrupt(irq) \/ ApicInterrupt(irq)
  BY <1>7 DEF PicInterrupt, ApicInterrupt, bootVars
<1> QED
  BY <1>1, <1>2, <1>3, <1>4, <1>5, <1>6, <1>7, ZenonT(60)

\* PowerOK is inductive.
LEMMA PowerKeeps == PowerOK /\ [Next]_vars => PowerOK'
<1> SUFFICES ASSUME PowerOK, [Next]_vars PROVE PowerOK'
  OBVIOUS
<1>1. CASE Shutdown
  <2>1. pc = "on" /\ pc' = pc
    BY <1>1 DEF Shutdown, bootVars
  <2> QED
    BY <1>1, <2>1, ShutdownBeginsKeeps, PollKeeps, WriteAKeeps, WriteBKeeps, ModeComesOnKeeps, Zenon
       DEF Shutdown, shutdown
<1>2. CASE ReadTables
  BY <1>2, ReadTablesKeepsPower
<1> QED
  BY <1>1, <1>2, PowerLeft, OthersLeavePower, Zenon DEF Next, KernelRuns, IrqNext

\* What each step of shutdown has left in the control registers, for every
\* machine and any number of polls.
THEOREM PowerInvariant == Spec => []PowerOK
<1>1. Init => PowerOK
  BY PowerStarts DEF Init
<1> QED
  BY <1>1, PowerKeeps, PTL DEF Spec

\* shutdown puts a machine to sleep only in ACPI mode, or after it has looked
\* for that mode as often as the code allows.
THEOREM SleepIsInAcpiMode == Spec => []SleepsInAcpiMode
<1>1. PowerOK => SleepsInAcpiMode
  BY DEF PowerOK, SleepsInAcpiMode
<1> QED
  BY <1>1, PowerInvariant, PTL

\* When the sleep types were read right, shutdown writes each of them to the
\* register it belongs to before it halts.
THEOREM RightTypesAreWritten == Spec => [](TypesRead => S5TypesWritten)
<1>1. PowerOK => (TypesRead => S5TypesWritten)
  BY DEF PowerOK, TypesRead, S5TypesWritten
<1> QED
  BY <1>1, PowerInvariant, PTL

-----------------------------------------------------------------------------
(* Interrupt routing. *)

\* What is said of the wiring changes only with the MADT.
LEMMA WiringLeft ==
  ASSUME g_madt' = g_madt, firmware' = firmware
  PROVE  /\ \A irq : Gsi(irq)' = Gsi(irq)
         /\ WiringKnown' <=> WiringKnown
         /\ NoClash' <=> NoClash
BY DEF Gsi, WiringKnown, NoClash, Wired

\* Steps that have nothing to do with interrupts.
LEMMA RoutingLeft ==
  ASSUME RoutingInv, firmware' = firmware, g_madt' = g_madt,
         UNCHANGED <<routeVars, bootVars, serviceVars>>
  PROVE  RoutingInv'
<1>1. /\ \A irq : Gsi(irq)' = Gsi(irq)
      /\ WiringKnown' <=> WiringKnown
      /\ NoClash' <=> NoClash
  BY WiringLeft, ZenonT(60)
<1>2. TableOK'
  BY <1>1 DEF RoutingInv, TableOK, routeVars, bootVars
<1>3. BackendOK'
  BY DEF RoutingInv, BackendOK, routeVars, bootVars
<1>4. ServiceOK'
  BY <1>1 DEF RoutingInv, ServiceOK, AllAcknowledged, RightHandler, HalfRouted,
       routeVars, bootVars, serviceVars
<1> QED
  BY <1>2, <1>3, <1>4 DEF RoutingInv

\* RoutingInv holds before the kernel runs.
LEMMA RoutingStarts == IrqInit => RoutingInv
<1> SUFFICES ASSUME IrqInit PROVE RoutingInv
  OBVIOUS
<1>1. DOMAIN ioapic = {} /\ gsi_claimed = {} /\ next_irq = 0 /\ pc = "irq_init" /\ g_backend = "PIC"
  BY DEF IrqInit
<1>2. TableOK
  BY <1>1 DEF TableOK
<1>3. BackendOK
  BY <1>1 DEF BackendOK
<1>4. AllAcknowledged /\ RightHandler
  BY DEF IrqInit, AllAcknowledged, RightHandler
<1> QED
  BY ONLY <1>2, <1>3, <1>4, Zenon DEF RoutingInv, ServiceOK

\* Steps before the loops: nothing has been routed yet.
LEMMA EarlyBootKeeps ==
  ASSUME RoutingInv, irq_controller_init \/ ReadTables \/ EnableApic
  PROVE  RoutingInv'
<1>1. /\ pc \in {"irq_init", "acpi_init", "enable_apic"}
      /\ pc' \in {"acpi_init", "enable_apic", "route", "unmask"}
      /\ ioapic' = ioapic /\ gsi_claimed' = gsi_claimed /\ next_irq' = next_irq
      /\ UNCHANGED serviceVars
  BY Zenon DEF irq_controller_init, ReadTables, EnableApic, routeVars
<1>2. /\ pc' = "route" => lapic_enabled' = TRUE
      /\ g_backend' \in {"PIC", g_backend}
  BY Zenon DEF irq_controller_init, ReadTables, EnableApic, routeVars
<1>3. /\ DOMAIN ioapic = {} /\ gsi_claimed = {} /\ next_irq = 0 /\ g_backend = "PIC"
      /\ AllAcknowledged /\ RightHandler
  BY <1>1, Zenon DEF RoutingInv, TableOK, BackendOK, ServiceOK
<1>4. TableOK'
  BY ONLY <1>1, <1>3, IrqAssumption DEF TableOK, IRQs
<1>5. BackendOK'
  BY ONLY <1>1, <1>2, <1>3, Zenon DEF BackendOK
<1>6. AllAcknowledged' /\ RightHandler'
  BY <1>1, <1>3 DEF AllAcknowledged, RightHandler, serviceVars
<1> QED
  BY <1>4, <1>5, <1>6 DEF RoutingInv, ServiceOK

\* The switch of the backend and the unmasking at the PIC keep RoutingInv.
LEMMA LateBootKeeps ==
  ASSUME RoutingInv, firmware' = firmware, SwitchBackend \/ enable_interrupts
  PROVE  RoutingInv'
<1>1. /\ pc \in {"route", "unmask"} /\ g_madt' = g_madt
      /\ ioapic' = ioapic /\ gsi_claimed' = gsi_claimed /\ next_irq' = next_irq
      /\ lapic_enabled' = lapic_enabled /\ UNCHANGED serviceVars
  BY Zenon DEF SwitchBackend, enable_interrupts, acpiTables
<1>2. /\ \A irq : Gsi(irq)' = Gsi(irq)
      /\ WiringKnown' <=> WiringKnown
      /\ NoClash' <=> NoClash
  BY <1>1, WiringLeft
<1>3. \/ /\ pc = "route" /\ next_irq \notin IRQs /\ pic_masked' = IRQs /\ g_backend' = "APIC"
         /\ pc' = "unmask"
      \/ /\ pc = "unmask" /\ pic_masked' = irq_unmask({TIMER, KEYBOARD}) /\ g_backend' = g_backend
         /\ pc' = "on"
  BY Zenon DEF SwitchBackend, enable_interrupts, apic_mask_legacy_pic
<1>4. TableOK'
  BY <1>1, <1>2, <1>3, Zenon DEF RoutingInv, TableOK
<1>5. BackendOK'
  BY <1>1, <1>3 DEF RoutingInv, BackendOK, irq_unmask
<1>6. AllAcknowledged' /\ RightHandler'
  BY <1>1 DEF RoutingInv, ServiceOK, AllAcknowledged, RightHandler, serviceVars
<1> QED
  BY <1>4, <1>5, <1>6 DEF RoutingInv, ServiceOK

\* The entry that one turn of the loops writes.
LEMMA RedirectSets ==
  ASSUME NEW gsi, NEW irq, ioapic' = Redirect(gsi, irq)
  PROVE  /\ DOMAIN ioapic' = DOMAIN ioapic \cup {gsi}
         /\ ioapic'[gsi] = IRQ_VECTOR_BASE + irq
         /\ \A g \in DOMAIN ioapic : g # gsi => ioapic'[g] = ioapic[g]
<1>1. PICK vector : vector = IRQ_VECTOR_BASE + irq
  OBVIOUS
<1>2. ioapic' = [g \in DOMAIN ioapic \cup {gsi} |-> IF g = gsi THEN vector ELSE ioapic[g]]
  BY <1>1 DEF Redirect
<1> QED
  BY ONLY <1>1, <1>2

\* One round of the loop of irq_try_enable_apic keeps RoutingInv, whether it
\* writes an entry, skips the IRQ or fails.
LEMMA RouteIrqKeeps ==
  ASSUME RoutingInv, firmware' = firmware, RouteIrq
  PROVE  RoutingInv'
<1>1. /\ pc = "route" /\ next_irq \in IRQs /\ g_madt' = g_madt /\ next_irq' = next_irq + 1
      /\ g_backend' = g_backend /\ pic_masked' = pic_masked /\ lapic_enabled' = lapic_enabled
      /\ UNCHANGED serviceVars
  BY Zenon DEF RouteIrq, acpiTables
<1>2. /\ \A irq : Gsi(irq)' = Gsi(irq)
      /\ NoClash' <=> NoClash
  BY <1>1, WiringLeft
<1>3. PICK gsi : gsi = Gsi(next_irq)
  OBVIOUS
<1>4. PICK base : base = g_madt.ioapic.gsi_base
  OBVIOUS
<1>5. \/ Skipped(next_irq, gsi) /\ UNCHANGED <<ioapic, gsi_claimed, pc>>
      \/ /\ ~Skipped(next_irq, gsi) /\ pc' = pc
         /\ ioapic' = Redirect(gsi, next_irq) /\ gsi_claimed' = gsi_claimed \cup {gsi}
      \/ pc' = "unmask" /\ UNCHANGED <<ioapic, gsi_claimed>>
  BY <1>3, Zenon DEF RouteIrq, Gsi
<1>6. Skipped(next_irq, gsi) <=> gsi < base \/ (next_irq \notin {0, 1} /\ gsi \in gsi_claimed)
  BY <1>4 DEF Skipped, TIMER, KEYBOARD
<1>7. g_backend = "PIC" /\ AllAcknowledged /\ RightHandler /\ lapic_enabled
  BY <1>1, Zenon DEF RoutingInv, BackendOK, ServiceOK
<1>8. /\ next_irq \in Nat /\ gsi_claimed = DOMAIN ioapic
      /\ \A g \in DOMAIN ioapic :
           ~(g < base) /\ \E q \in IRQs : q < next_irq /\ Gsi(q) = g /\ ioapic[g] = 32 + q
      /\ NoClash => \A irq \in Devices :
                      Gsi(irq) \in DOMAIN ioapic => ioapic[Gsi(irq)] = 32 + irq
      /\ \A irq \in IRQs : irq < next_irq /\ ~(Gsi(irq) < base) => Gsi(irq) \in DOMAIN ioapic
  BY <1>1, <1>4 DEF RoutingInv, TableOK, IRQ_VECTOR_BASE
<1>9. IRQs \subseteq Nat /\ Devices \subseteq IRQs /\ {0, 1} \subseteq IRQs
  BY IrqAssumption DEF IRQs
<1>10. TableOK'
  <2>1. CASE Skipped(next_irq, gsi) /\ UNCHANGED <<ioapic, gsi_claimed, pc>>
    <3>1. \A g \in DOMAIN ioapic :
            \E q \in IRQs : q < next_irq + 1 /\ Gsi(q) = g /\ ioapic[g] = 32 + q
      BY ONLY <1>8, <1>9
    <3>2. \A irq \in IRQs : irq < next_irq + 1 /\ ~(Gsi(irq) < base) => Gsi(irq) \in DOMAIN ioapic
      BY ONLY <1>1, <1>3, <1>6, <1>8, <1>9, <2>1
    <3> QED
      BY ONLY <1>1, <1>2, <1>4, <1>8, <2>1, <3>1, <3>2 DEF TableOK, IRQ_VECTOR_BASE
  <2>2. CASE /\ ~Skipped(next_irq, gsi) /\ pc' = pc
             /\ ioapic' = Redirect(gsi, next_irq) /\ gsi_claimed' = gsi_claimed \cup {gsi}
    <3>1. /\ DOMAIN ioapic' = DOMAIN ioapic \cup {gsi} /\ ioapic'[gsi] = 32 + next_irq
          /\ \A g \in DOMAIN ioapic : g # gsi => ioapic'[g] = ioapic[g]
      BY ONLY <2>2, RedirectSets, Zenon DEF IRQ_VECTOR_BASE
    <3>2. \A g \in DOMAIN ioapic' :
            /\ ~(g < base)
            /\ \E q \in IRQs : q < next_irq + 1 /\ Gsi(q) = g /\ ioapic'[g] = 32 + q
      BY ONLY <1>1, <1>3, <1>6, <1>8, <1>9, <2>2, <3>1
    <3>3. \A irq \in IRQs : irq < next_irq + 1 /\ ~(Gsi(irq) < base) => Gsi(irq) \in DOMAIN ioapic'
      BY ONLY <1>1, <1>3, <1>8, <1>9, <3>1
    <3>4. ASSUME NoClash, NEW irq \in Devices, Gsi(irq) = gsi
          PROVE  irq = next_irq
      <4>1. ~(next_irq < irq)
        BY ONLY <1>1, <1>3, <3>4 DEF NoClash
      <4>2. Gsi(0) # Gsi(1)
        BY <3>4 DEF NoClash, TIMER, KEYBOARD
      <4>3. ASSUME irq < next_irq PROVE FALSE
        <5>1. gsi \in DOMAIN ioapic
          BY ONLY <1>6, <1>8, <1>9, <2>2, <3>4, <4>3
        <5>2. next_irq \in {0, 1}
          BY ONLY <1>6, <1>8, <2>2, <5>1
        <5>3. irq = 0 /\ next_irq = 1
          BY ONLY <1>9, <4>3, <5>2, irq \in Devices, SMTT(60)
        <5> QED
          BY ONLY <1>3, <3>4, <4>2, <5>3, Zenon
      <4> QED
        BY ONLY <1>8, <1>9, <4>1, <4>3, irq \in Devices
    <3>5. NoClash => \A irq \in Devices :
                       Gsi(irq) \in DOMAIN ioapic' => ioapic'[Gsi(irq)] = 32 + irq
      BY ONLY <1>8, <3>1, <3>4, Zenon
    <3> QED
      BY ONLY <1>1, <1>2, <1>4, <1>8, <2>2, <3>1, <3>2, <3>3, <3>5, SMTT(60)
           DEF TableOK, IRQ_VECTOR_BASE
  <2>3. CASE pc' = "unmask" /\ UNCHANGED <<ioapic, gsi_claimed>>
    <3>1. \A g \in DOMAIN ioapic :
            \E q \in IRQs : q < next_irq + 1 /\ Gsi(q) = g /\ ioapic[g] = 32 + q
      BY ONLY <1>8, <1>9
    <3> QED
      BY ONLY <1>1, <1>2, <1>4, <1>7, <1>8, <2>3, <3>1 DEF TableOK, IRQ_VECTOR_BASE
  <2> QED
    BY ONLY <1>5, <2>1, <2>2, <2>3, Zenon
<1>11. BackendOK'
  BY ONLY <1>1, <1>5, <1>7, Zenon DEF BackendOK
<1>12. AllAcknowledged' /\ RightHandler'
  BY <1>1, <1>7 DEF AllAcknowledged, RightHandler, serviceVars
<1> QED
  BY <1>10, <1>11, <1>12 DEF RoutingInv, ServiceOK

\* The acknowledgement ends the only interrupt in service.
LEMMA LowestIsIt ==
  ASSUME NEW k \in Int
  PROVE  Lowest({k}) = k
BY DEF Lowest

\* Where the handler acknowledges is where the interrupt came from.
LEMMA InterruptKeeps ==
  ASSUME RoutingInv, firmware' = firmware, NEW irq \in Devices,
         PicInterrupt(irq) \/ ApicInterrupt(irq)
  PROVE  RoutingInv'
<1>1. pc = "on" /\ g_madt' = g_madt /\ UNCHANGED <<routeVars, bootVars>>
  BY Zenon DEF PicInterrupt, ApicInterrupt, Interruptible, acpiTables
<1>2. /\ \A q : Gsi(q)' = Gsi(q)
      /\ WiringKnown' <=> WiringKnown
      /\ NoClash' <=> NoClash
  BY <1>1, WiringLeft, Zenon
<1>3. TableOK'
  BY <1>1, <1>2, Zenon DEF RoutingInv, TableOK, routeVars, bootVars
<1>4. BackendOK'
  BY <1>1 DEF RoutingInv, BackendOK, routeVars, bootVars
<1>5. HalfRouted' <=> HalfRouted
  BY <1>1 DEF HalfRouted, routeVars
<1>6. irq \in IRQs /\ irq \in Int /\ g_backend \in {"PIC", "APIC"}
  BY IrqAssumption DEF RoutingInv, BackendOK, IRQs
<1>7. CASE PicInterrupt(irq)
  <2>1. /\ irq \notin pic_masked /\ handled' = <<irq, irq>>
        /\ pic_isr' = pic_send_eoi(pic_isr \cup {irq}) /\ lapic_isr' = apic_send_eoi(lapic_isr)
    BY <1>7 DEF PicInterrupt, PicDelivers
  <2>2. g_backend = "PIC"
    BY <1>6, <2>1 DEF RoutingInv, BackendOK
  <2>3. ASSUME ~HalfRouted PROVE AllAcknowledged'
    <3>1. pic_isr = {} /\ lapic_isr = {}
      BY <2>3 DEF RoutingInv, ServiceOK, AllAcknowledged
    <3>2. pic_isr \cup {irq} = {irq} /\ Lowest({irq}) = irq
      BY ONLY <1>6, <3>1, LowestIsIt, Zenon
    <3>3. pic_isr' = {} /\ lapic_isr' = {}
      BY <2>1, <2>2, <3>1, <3>2, Zenon DEF pic_send_eoi, apic_send_eoi, AcknowledgedAt
    <3> QED
      BY <3>3 DEF AllAcknowledged
  <2>4. RightHandler'
    BY <2>1, Zenon DEF RightHandler
  <2> QED
    BY ONLY <1>1, <1>3, <1>4, <1>5, <2>3, <2>4, Zenon DEF RoutingInv, ServiceOK, bootVars
<1>8. CASE ApicInterrupt(irq)
  <2>1. PICK gsi : gsi = Wired(irq)
    OBVIOUS
  <2>2. PICK vector : vector = ioapic[gsi]
    BY Zenon
  <2>3. /\ gsi \in DOMAIN ioapic /\ handled' = <<irq, vector - IRQ_VECTOR_BASE>>
        /\ lapic_isr' = apic_send_eoi(lapic_isr \cup {vector}) /\ pic_isr' = pic_send_eoi(pic_isr)
    BY <1>8, <2>1, <2>2, ZenonT(60) DEF ApicInterrupt, ApicDelivers
  <2>4. vector \in Int
    <3>1. PICK q \in IRQs : vector = IRQ_VECTOR_BASE + q
      BY <2>2, <2>3, Zenon DEF RoutingInv, TableOK
    <3> QED BY ONLY <3>1, q \in IRQs, IrqAssumption DEF IRQ_VECTOR_BASE, IRQs
  <2>5. ASSUME ~HalfRouted PROVE AllAcknowledged'
    <3>1. pic_isr = {} /\ lapic_isr = {}
      BY <2>5 DEF RoutingInv, ServiceOK, AllAcknowledged
    <3>2. g_backend = "APIC"
      BY <1>6, <2>3, <2>5 DEF HalfRouted
    <3>3. \A w \in {vector} : ~(vector < w)
      BY ONLY <2>4
    <3>4. pic_isr' = {} /\ lapic_isr' = {}
      BY ONLY <2>3, <3>1, <3>2, <3>3 DEF pic_send_eoi, apic_send_eoi, AcknowledgedAt
    <3> QED
      BY <3>4 DEF AllAcknowledged
  <2>6. ASSUME WiringKnown, NoClash PROVE RightHandler'
    <3>1. Gsi(irq) = gsi
      BY <2>1, <2>6, Zenon DEF WiringKnown
    <3>2. vector = IRQ_VECTOR_BASE + irq
      BY <2>2, <2>3, <2>6, <3>1, Zenon DEF RoutingInv, TableOK
    <3>3. vector - IRQ_VECTOR_BASE = irq
      BY <1>6, <3>2 DEF IRQ_VECTOR_BASE
    <3> QED
      BY <2>3, <3>3, Zenon DEF RightHandler
  <2> QED
    BY <1>1, <1>2, <1>3, <1>4, <1>5, <2>3, <2>5, <2>6, Zenon DEF RoutingInv, ServiceOK, bootVars, routeVars
<1> QED
  BY <1>7, <1>8

\* The steps of the kernel leave the loader's variables alone.
LEMMA KernelLeavesLoader ==
  ASSUME \/ KernelStarts \/ KernelMemory \/ KernelRuns \/ UNCHANGED vars
  PROVE  UNCHANGED loaderVars
<1>1. CASE KernelMemory
  BY <1>1, Zenon DEF KernelMemory, init_memory, paging_init, pmm_init, kmalloc_init,
       AllocateShadow,
       SmokeTests
<1> QED
  BY <1>1 DEF KernelStarts, KernelRuns, vars

\* No step changes the machine.
LEMMA MachineStays ==
  ASSUME [Next]_vars
  PROVE  firmware' = firmware
<1>1. CASE Loader
  BY <1>1, Zenon DEF Loader, efi_main, AllocateTables, OpenKernel, LoadSegment, FillBootInfo,
       MeasureMap, AllocateMap, GetMap, ExitBoot, FirmwareChanges
<1> QED
  BY <1>1, KernelLeavesLoader DEF Next, loaderVars

\* RoutingInv is inductive.
LEMMA RoutingKeeps == RoutingInv /\ [Next]_vars => RoutingInv'
<1> SUFFICES ASSUME RoutingInv, [Next]_vars PROVE RoutingInv'
  OBVIOUS
<1>1. firmware' = firmware
  BY MachineStays
<1>2. CASE Loader \/ KernelMemory \/ Shutdown \/ UNCHANGED vars
  <2>1. g_madt' = g_madt /\ UNCHANGED <<routeVars, bootVars, serviceVars>>
    BY <1>2, Zenon DEF Loader, KernelMemory, Shutdown, shutdown, ShutdownBegins, Poll, WriteA,
       WriteB, AcpiModeComesOn, vars, irqVars, acpiTables
  <2> QED
    BY <1>1, <2>1, RoutingLeft
<1>3. CASE KernelStarts
  BY <1>3, EarlyBootKeeps DEF KernelStarts
<1>4. CASE IrqNext
  <2>1. CASE \E irq \in Devices : PicInterrupt(irq) \/ ApicInterrupt(irq)
    BY <1>1, <2>1, InterruptKeeps, Zenon
  <2>2. CASE ReadTables \/ EnableApic \/ RouteIrq \/ SwitchBackend \/ enable_interrupts
    BY <1>1, <2>2, EarlyBootKeeps, RouteIrqKeeps, LateBootKeeps, ZenonT(60)
  <2> QED
    BY <1>2, <1>4, <2>1, <2>2, Zenon DEF IrqNext
<1> QED
  BY <1>2, <1>3, <1>4, Zenon DEF Next, KernelRuns

\* Redirection entries, backend and services agree from irq_controller_init
\* on, for every machine and any number of IRQs.
THEOREM RoutingInvariant == Spec => []RoutingInv
<1>1. Init => RoutingInv
  BY RoutingStarts DEF Init
<1> QED
  BY <1>1, RoutingKeeps, PTL DEF Spec

\* irq_send_eoi acknowledges every interrupt at the controller it came from,
\* unless routing failed after the I/O APIC had been given entries.
THEOREM InterruptsAreAcknowledged == Spec => [](HalfRouted \/ AllAcknowledged)
<1>1. RoutingInv => HalfRouted \/ AllAcknowledged
  BY DEF RoutingInv, ServiceOK
<1> QED
  BY <1>1, RoutingInvariant, PTL

\* Every device reaches its own handler through the PIC, and through the I/O
\* APIC when the MADT says how the machine is wired and no device sits on the
\* GSI of a lower IRQ: the loops of irq_try_enable_apic give it its own vector.
THEOREM HandlersAreRight ==
  Spec => [](DOMAIN ioapic = {} \/ (WiringKnown /\ NoClash) => RightHandler)
<1>1. RoutingInv => (DOMAIN ioapic = {} \/ (WiringKnown /\ NoClash) => RightHandler)
  BY DEF RoutingInv, ServiceOK
<1> QED
  BY <1>1, RoutingInvariant, PTL

\* After boot the timer and the keyboard can interrupt, through the PIC as
\* fallback or through the I/O APIC that serves them.
THEOREM CriticalIrqsDeliver ==
  Spec => [](/\ ~HalfRouted
             /\ g_backend = "APIC" => WiringKnown /\ CriticalServed
             => TimerAndKeyboardDeliver)
<1>1. ASSUME RoutingInv, ~HalfRouted, g_backend = "APIC" => WiringKnown /\ CriticalServed,
             pc = "on", NEW irq \in {TIMER, KEYBOARD}
      PROVE  PicDelivers(irq) \/ ApicDelivers(irq)
  <2>1. pic_isr = {} /\ lapic_isr = {} /\ g_backend \in {"PIC", "APIC"}
    BY <1>1, Zenon DEF RoutingInv, ServiceOK, BackendOK, AllAcknowledged
  <2>2. CASE g_backend = "PIC"
    BY <1>1, <2>1, <2>2, Zenon DEF RoutingInv, BackendOK, PicDelivers
  <2>3. CASE g_backend = "APIC"
    <3>1. lapic_enabled /\ next_irq \notin IRQs /\ next_irq \in Nat
      BY <1>1, <2>3, Zenon DEF RoutingInv, BackendOK, TableOK
    <3>2. irq \in IRQs /\ irq < next_irq
      BY ONLY <1>1, <3>1, IrqAssumption, SMTT(60) DEF IRQs, TIMER, KEYBOARD
    <3>3. Gsi(irq) = Wired(irq) /\ ~(Gsi(irq) < g_madt.ioapic.gsi_base)
      BY ONLY <1>1, <2>3, Zenon DEF WiringKnown, CriticalServed
    <3>4. Wired(irq) \in DOMAIN ioapic
      BY <1>1, <2>3, <3>2, <3>3, Zenon DEF RoutingInv, TableOK
    <3> QED
      BY <2>1, <3>1, <3>4, Zenon DEF ApicDelivers
  <2> QED
    BY <2>1, <2>2, <2>3, Zenon
<1>2. RoutingInv => (/\ ~HalfRouted
                     /\ g_backend = "APIC" => WiringKnown /\ CriticalServed
                     => TimerAndKeyboardDeliver)
  BY <1>1 DEF TimerAndKeyboardDeliver
<1> QED
  BY <1>2, RoutingInvariant, PTL

-----------------------------------------------------------------------------
(* The log. *)

\* A list is a sequence of its members.
LEMMA SeqOfMembers ==
  ASSUME NEW s, IsSeq(s)
  PROVE  s \in Seq({s[i] : i \in 1 .. Len(s)})
<1>1. PICK n \in Nat : n = Len(s)
  BY DEF IsSeq
<1>2. PICK S : S = {s[i] : i \in 1 .. n}
  BY Zenon
<1>3. s \in [1 .. n -> S]
  BY <1>1, <1>2 DEF IsSeq
<1>4. s \in Seq(S)
  BY ONLY <1>3, n \in Nat
<1> QED BY <1>1, <1>2, <1>4, Zenon

\* Lists of members of a set are lists.
LEMMA SeqIsSeq ==
  ASSUME NEW S, NEW s \in Seq(S)
  PROVE  IsSeq(s)
BY DEF IsSeq

\* One list after the other.
LEMMA JoinedLists ==
  ASSUME NEW a, NEW b, IsSeq(a), IsSeq(b), NEW c, c = a \o b
  PROVE  /\ IsSeq(c) /\ Len(c) = Len(a) + Len(b)
         /\ \A i \in 1 .. Len(a) + Len(b) : c[i] = IF i <= Len(a) THEN a[i] ELSE b[i - Len(a)]
<1>1. PICK S : S = {a[i] : i \in 1 .. Len(a)} \cup {b[i] : i \in 1 .. Len(b)}
  BY Zenon
<1>2. a \in Seq(S)
  <2>1. PICK A : A = {a[i] : i \in 1 .. Len(a)}
    BY Zenon
  <2>2. a \in Seq(A) /\ A \subseteq S
    BY <1>1, <2>1, SeqOfMembers, Zenon
  <2> QED BY ONLY <2>2
<1>3. b \in Seq(S)
  <2>1. PICK B : B = {b[i] : i \in 1 .. Len(b)}
    BY Zenon
  <2>2. b \in Seq(B) /\ B \subseteq S
    BY <1>1, <2>1, SeqOfMembers, ZenonT(60)
  <2> QED BY ONLY <2>2
<1>4. /\ c \in Seq(S) /\ Len(c) = Len(a) + Len(b)
      /\ \A i \in 1 .. Len(a) + Len(b) : c[i] = IF i <= Len(a) THEN a[i] ELSE b[i - Len(a)]
  BY ONLY <1>2, <1>3, c = a \o b
<1> QED BY ONLY <1>4, SeqIsSeq, Zenon

\* A non-empty set of naturals has a least element.
LEMMA LeastNatural ==
  ASSUME NEW S, S \subseteq Nat, S # {}
  PROVE  \E x \in S : \A y \in S : x <= y
<1>1. PICK R : R = OpToRel(<, Nat)
  BY Zenon
<1>2. IsWellFoundedOn(R, Nat)
  BY <1>1, NatLessThanWellFounded, Zenon
<1>3. PICK x \in S : \A y \in S : <<y, x>> \notin R
  BY ONLY <1>2, S \subseteq Nat, S # {}, WFMin, Zenon
<1>4. \A a, b \in Nat : b < a => <<b, a>> \in R
  BY <1>1 DEF OpToRel
<1>5. \A y \in S : ~(y < x)
  BY ONLY <1>3, <1>4, S \subseteq Nat, x \in S, Zenon
<1> QED BY <1>5

\* f[n] is the ring s after the first n of len lines.
IsRings(f, s, lines, len) ==
  f = [n \in 0 .. len |-> IF n = 0 THEN s ELSE ring_write_line(f[n - 1], lines[n])]

\* The function that klog_lines computes exists.
LEMMA RingsExist ==
  ASSUME NEW s, NEW lines, NEW len \in Nat
  PROVE  \E f : IsRings(f, s, lines, len)
<1> DEFINE bad == {n \in Nat : ~\E f : IsRings(f, s, lines, n)}
<1> SUFFICES ASSUME bad # {} PROVE FALSE
  BY Zenon
<1>1. PICK m \in bad : \A y \in bad : m <= y
  <2>1. bad \subseteq Nat
    BY Zenon
  <2> HIDE DEF bad
  <2> QED BY <2>1, LeastNatural, Zenon
<1>2. m \in Nat /\ ~\E f : IsRings(f, s, lines, m)
  BY Zenon
<1>3. CASE m = 0
  <2>1. PICK f : f = [n \in 0 .. m |-> s]
    BY Zenon
  <2>2. \A n \in 0 .. m : n = 0
    BY ONLY <1>3
  <2>3. f = [n \in 0 .. m |-> IF n = 0 THEN s ELSE ring_write_line(f[n - 1], lines[n])]
    BY ONLY <2>1, <2>2
  <2> QED BY <1>2, <2>3 DEF IsRings
<1>4. CASE m # 0
  <2>1. m - 1 \in Nat /\ ~(m <= m - 1)
    BY ONLY <1>2, <1>4
  <2>2. m - 1 \notin bad
    BY ONLY <1>1, <2>1, Zenon
  <2>3. PICK f : IsRings(f, s, lines, m - 1)
    BY <2>1, <2>2, Zenon
  <2>4. PICK k \in Nat : k = m - 1
    BY <2>1, Zenon
  <2>5. /\ \A n \in 0 .. m : n \in 0 .. k \/ n = m
        /\ \A n \in 1 .. k : n - 1 \in 0 .. k /\ n - 1 \in 0 .. m /\ n - 1 # m
        /\ k \in 0 .. m /\ k # m /\ m \notin 0 .. k /\ 0 .. k \subseteq 0 .. m
    BY <1>2, <1>4, <2>4
  <2>6. PICK g : g = [n \in 0 .. m |-> IF n = m THEN ring_write_line(f[k], lines[m]) ELSE f[n]]
    BY Zenon
  <2>7. \A n \in 0 .. k : f[n] = IF n = 0 THEN s ELSE ring_write_line(f[n - 1], lines[n])
    BY ONLY <2>3, <2>4, ZenonT(60) DEF IsRings
  <2>8. g[m] = ring_write_line(f[k], lines[m]) /\ \A n \in 0 .. m : n # m => g[n] = f[n]
    BY ONLY <1>2, <2>6
  <2>9. ASSUME NEW n \in 0 .. m PROVE g[n] = IF n = 0 THEN s ELSE ring_write_line(g[n - 1], lines[n])
    <3>1. CASE n = m
      <4>1. g[n - 1] = f[k] /\ n # 0
        BY <1>4, <2>4, <2>5, <2>8, <3>1, Zenon
      <4> QED BY ONLY <2>8, <3>1, <4>1, Zenon
    <3>2. CASE n # m /\ n # 0
      <4>1. n \in 1 .. k /\ n \in 0 .. k
        BY ONLY <2>5, <3>2, SMTT(60)
      <4>2. g[n - 1] = f[n - 1] /\ g[n] = f[n]
        BY ONLY <2>5, <2>8, <3>2, <4>1, ZenonT(60)
      <4> QED BY ONLY <2>7, <3>2, <4>1, <4>2, ZenonT(60)
    <3>3. CASE n = 0
      <4>1. n \in 0 .. k /\ n # m
        BY <1>4, <2>4, <3>3
      <4>2. f[n] = s /\ g[n] = f[n]
        BY <2>7, <2>8, <3>3, <4>1, ZenonT(60)
      <4> QED BY ONLY <3>3, <4>2, Zenon
    <3> QED BY <3>1, <3>2, <3>3, Zenon
  <2>10. g = [n \in 0 .. m |-> g[n]]
    BY <2>6
  <2>11. g = [n \in 0 .. m |-> IF n = 0 THEN s ELSE ring_write_line(g[n - 1], lines[n])]
    BY ONLY <2>9, <2>10, Zenon
  <2> QED BY ONLY <1>2, <2>11, Zenon DEF IsRings
<1> QED BY <1>3, <1>4

\* A ring a line was written to has the three fields of a ring.
LEMMA WritesARing ==
  ASSUME NEW a, NEW line, NEW t, t = ring_write_line(a, line)
  PROVE  t = [slots |-> t.slots, head |-> t.head, count |-> t.count]
BY DEF ring_write_line

\* The index of the head moves on by one, and around at the end.
LEMMA HeadMoves ==
  ASSUME NEW head \in Slots, NEW next, next = (head + 1) % KLOG_RING_LINES
  PROVE  next = IF head + 1 = KLOG_RING_LINES THEN 0 ELSE head + 1
<1>1. PICK n \in Nat \ {0} : n = KLOG_RING_LINES
  BY KlogAssumption
<1>2. head \in 0 .. n - 1
  BY ONLY <1>1 DEF Slots
<1>3. head + 1 < n => (head + 1) % n = head + 1
  BY <1>2
<1>4. n % n = 0
  OBVIOUS
<1>5. head + 1 = n \/ head + 1 < n
  BY ONLY <1>2
<1> QED BY <1>1, <1>3, <1>4, <1>5, Zenon

\* The numbers behind a line: n slots, the head h before and g after it.
LEMMA BehindMoves ==
  ASSUME NEW n \in Nat \ {0}, n = KLOG_RING_LINES, NEW h \in 0 .. n - 1,
         NEW g, g = IF h + 1 = n THEN 0 ELSE h + 1
  PROVE  /\ g \in 0 .. n - 1 /\ Behind(g, 1) = h
         /\ \A back \in 2 .. n : Behind(g, back) = Behind(h, back - 1) /\ Behind(g, back) # h
         /\ \A back \in 1 .. n : Behind(h, back) \in 0 .. n - 1
BY DEF Behind

\* ring_write_line keeps the last lines, for every size of the ring.
LEMMA RingWrites ==
  ASSUME NEW ring, NEW lines, Holds(ring, lines), NEW line, NEW t, t = ring_write_line(ring, line),
         NEW all, IsSeq(all), Len(all) = Len(lines) + 1, all[Len(lines) + 1] = line,
         \A i \in 1 .. Len(lines) : all[i] = lines[i]
  PROVE  Holds(t, all)
<1>1. PICK n \in Nat \ {0} : n = KLOG_RING_LINES
  BY ONLY KlogAssumption, Zenon
<1>2. PICK m \in Nat : m = Len(lines)
  BY Zenon DEF Holds, IsSeq
<1>3. PICK h \in 0 .. n - 1 : h = ring.head
  BY <1>1 DEF Holds, Slots
<1>4. PICK k \in Nat : k = ring.count /\ k = (IF m < n THEN m ELSE n)
  BY <1>1, <1>2, Zenon DEF Holds
<1>5. PICK g : g = (h + 1) % n
  BY ONLY Zenon
<1>6. g = IF h + 1 = n THEN 0 ELSE h + 1
  BY ONLY <1>1, <1>5, HeadMoves DEF Slots
<1>7. PICK slots : slots = [ring.slots EXCEPT ![h] = line]
  BY Zenon
<1>8. PICK j \in Nat : j = CountAfter(k) /\ j = (IF m + 1 < n THEN m + 1 ELSE n)
  BY ONLY <1>1, <1>4, m \in Nat, n \in Nat \ {0} DEF CountAfter
<1>9. t = [slots |-> slots, head |-> g, count |-> j]
  BY <1>1, <1>3, <1>4, <1>5, <1>7, <1>8, Zenon DEF ring_write_line
<1>10. /\ DOMAIN t = {"slots", "head", "count"} /\ t.slots = slots /\ t.head = g /\ t.count = j
  BY ONLY <1>9, Zenon
<1>11. DOMAIN ring.slots = 0 .. n - 1
  BY <1>1, Zenon DEF Holds, Slots
<1>12. DOMAIN slots = 0 .. n - 1 /\ slots[h] = line /\ \A s \in 0 .. n - 1 : s # h => slots[s] = ring.slots[s]
  BY ONLY <1>7, <1>11, h \in 0 .. n - 1, Zenon
<1>13. /\ g \in 0 .. n - 1 /\ Behind(g, 1) = h
       /\ \A back \in 2 .. n : Behind(g, back) = Behind(h, back - 1) /\ Behind(g, back) # h
       /\ \A back \in 1 .. n : Behind(h, back) \in 0 .. n - 1
  BY ONLY <1>1, <1>6, h \in 0 .. n - 1, n \in Nat \ {0}, BehindMoves
<1>14. \A back \in 1 .. k : ring.slots[Behind(h, back)] = lines[m + 1 - back]
  BY <1>2, <1>3, <1>4, ZenonT(60) DEF Holds
<1>15. ASSUME NEW back \in 1 .. j PROVE slots[Behind(g, back)] = all[m + 1 + 1 - back]
  <2>1. CASE back = 1
    <3>1. m + 1 + 1 - back = m + 1
      BY ONLY <2>1, SMTT(60)
    <3>2. slots[Behind(g, back)] = line
      BY ONLY <1>12, <1>13, <2>1, Zenon
    <3> QED BY <1>2, <3>1, <3>2, Zenon
  <2>2. CASE back # 1
    <3>1. PICK b \in Nat : b = back - 1
      BY ONLY <2>2
    <3>2. /\ back \in 2 .. n /\ b \in 1 .. k /\ b \in 1 .. n
          /\ m + 1 + 1 - back = m + 1 - b /\ m + 1 - b \in 1 .. m
      BY ONLY <1>4, <1>8, <2>2, <3>1, m \in Nat, n \in Nat \ {0}, back \in 1 .. j
    <3>3. Behind(g, back) = Behind(h, b) /\ Behind(g, back) # h /\ Behind(h, b) \in 0 .. n - 1
      BY ONLY <1>13, <3>1, <3>2, ZenonT(60)
    <3>4. slots[Behind(g, back)] = ring.slots[Behind(h, b)]
      BY ONLY <1>12, <3>3, Zenon
    <3>5. ring.slots[Behind(h, b)] = lines[m + 1 - b]
      BY ONLY <1>14, <3>2, Zenon
    <3>6. all[m + 1 - b] = lines[m + 1 - b]
      BY <1>2, <3>2, Zenon
    <3> QED BY ONLY <3>2, <3>4, <3>5, <3>6, Zenon
  <2> QED BY ONLY <2>1, <2>2, Zenon
<1>16. Len(all) = m + 1
  BY <1>2, ZenonT(60)
<1>17. Slots = 0 .. n - 1
  BY <1>1, Zenon DEF Slots
<1> QED BY ONLY <1>1, <1>8, <1>10, <1>12, <1>13, <1>15, <1>16, <1>17, IsSeq(all), ZenonT(60) DEF Holds

\* The ring as a record.
Ring == [slots |-> g_ring, head |-> g_ring_head, count |-> g_ring_count]

\* Logging any list of lines keeps the invariant of the ring.
LEMMA LinesKeep ==
  ASSUME KlogOK, NEW lines, IsSeq(lines), klog_lines(lines)
  PROVE  KlogOK'
<1>1. PICK r, old : r = Ring /\ old = logged
  BY Zenon
<1>2. Holds(r, old) /\ IsSeq(old)
  BY <1>1, Zenon DEF KlogOK, Ring, Holds
<1>3. PICK len \in Nat : len = Len(lines)
  BY DEF IsSeq
<1>4. PICK m \in Nat : m = Len(old)
  BY <1>2, Zenon DEF IsSeq
<1>5. PICK f : /\ IsRings(f, r, lines, len)
               /\ g_ring' = f[len].slots /\ g_ring_head' = f[len].head
               /\ g_ring_count' = f[len].count
  <2>1. PICK f : f = CHOOSE g : g = [n \in 0 .. Len(lines) |->
                       IF n = 0 THEN [slots |-> g_ring, head |-> g_ring_head, count |-> g_ring_count]
                       ELSE ring_write_line(g[n - 1], lines[n])]
    BY Zenon
  <2>2. \E g : g = [n \in 0 .. Len(lines) |->
                       IF n = 0 THEN [slots |-> g_ring, head |-> g_ring_head, count |-> g_ring_count]
                       ELSE ring_write_line(g[n - 1], lines[n])]
    <3>1. \E g : IsRings(g, r, lines, len)
      BY RingsExist, Zenon
    <3> QED BY ONLY <1>1, <1>3, <3>1, Zenon DEF IsRings, Ring
  <2>3. IsRings(f, r, lines, len)
    BY ONLY <1>1, <1>3, <2>1, <2>2, Zenon DEF IsRings, Ring
  <2>4. g_ring' = f[len].slots /\ g_ring_head' = f[len].head /\ g_ring_count' = f[len].count
    BY <1>3, <2>1, Zenon DEF klog_lines
  <2> QED BY <2>3, <2>4
<1>6. \A n \in 0 .. len : f[n] = IF n = 0 THEN r ELSE ring_write_line(f[n - 1], lines[n])
  BY ONLY <1>5, Zenon DEF IsRings
<1> DEFINE Pre(n) == [i \in 1 .. m + n |-> IF i <= m THEN old[i] ELSE lines[i - m]]
           Good(n) == Holds(f[n], Pre(n))
           bad == {n \in 0 .. len : ~Good(n)}
<1>7. ASSUME NEW n \in Nat, NEW p, p = Pre(n)
      PROVE  IsSeq(p) /\ Len(p) = m + n /\ \A i \in 1 .. m + n : p[i] = IF i <= m THEN old[i] ELSE lines[i - m]
  <2>1. PICK k \in Nat : k = m + n
    OBVIOUS
  <2>2. p = [i \in 1 .. k |-> IF i <= m THEN old[i] ELSE lines[i - m]]
    BY <1>7, <2>1, Zenon
  <2>3. Len(p) = k /\ DOMAIN p = 1 .. k
    BY ONLY <2>2, k \in Nat
  <2>4. IsSeq(p)
    BY ONLY <2>2, <2>3, k \in Nat, Zenon DEF IsSeq
  <2> QED BY <2>1, <2>2, <2>3, <2>4, Zenon
<1>8. Good(0)
  <2>1. PICK p : p = Pre(0)
    BY Zenon
  <2>2. \A i \in 1 .. m + 0 : i \in 1 .. m /\ i <= m
    OBVIOUS
  <2>3. p = [i \in 1 .. m |-> old[i]]
    BY <2>1, <2>2
  <2>4. p = old
    BY ONLY <1>2, <1>4, <2>3, Zenon DEF IsSeq
  <2>5. f[0] = r
    BY <1>3, <1>6
  <2> QED BY ONLY <1>2, <2>1, <2>4, <2>5, Zenon
<1>9. ASSUME NEW n \in 1 .. len, Good(n - 1) PROVE Good(n)
  <2>1. PICK k \in Nat : k = n - 1 /\ n = k + 1
    OBVIOUS
  <2>2. PICK p, q : p = Pre(k) /\ q = Pre(n)
    BY Zenon
  <2>3. /\ IsSeq(p) /\ Len(p) = m + k
        /\ \A i \in 1 .. m + k : p[i] = IF i <= m THEN old[i] ELSE lines[i - m]
    BY <1>7, <2>2, Zenon
  <2>4. n \in Nat
    OBVIOUS
  <2>5. /\ IsSeq(q) /\ Len(q) = m + n
        /\ \A i \in 1 .. m + n : q[i] = IF i <= m THEN old[i] ELSE lines[i - m]
    BY ONLY <1>7, <2>2, <2>4, Zenon
  <2> HIDE DEF Pre
  <2>6. PICK rk, t, line : rk = f[k] /\ t = f[n] /\ line = lines[n]
    BY Zenon
  <2>7. t = ring_write_line(rk, line)
    BY ONLY <1>6, <2>1, <2>6
  <2>8. Holds(rk, p)
    BY <1>9, <2>1, <2>2, <2>6, Zenon
  <2>9. /\ Len(q) = Len(p) + 1
        /\ q[Len(p) + 1] = line
        /\ \A i \in 1 .. Len(p) : q[i] = p[i]
    <3>1. m + n = m + k + 1 /\ m + n - m = n /\ ~(m + n <= m) /\ m + n \in 1 .. m + n
      BY ONLY <2>1, m \in Nat, k \in Nat
    <3>2. \A i \in 1 .. m + k : i \in 1 .. m + n
      BY ONLY <2>1, m \in Nat, k \in Nat
    <3>3. q[m + n] = lines[n]
      BY ONLY <2>5, <3>1
    <3>4. \A i \in 1 .. m + k : q[i] = p[i]
      BY ONLY <2>3, <2>5, <3>2, Zenon
    <3>5. Len(q) = Len(p) + 1 /\ Len(p) + 1 = m + n
      BY ONLY <2>3, <2>5, <3>1, Zenon
    <3> QED BY ONLY <2>3, <2>6, <3>3, <3>4, <3>5, ZenonT(60)
  <2>10. Holds(t, q)
    BY ONLY <2>5, <2>7, <2>8, <2>9, RingWrites, ZenonT(60)
  <2> QED BY <2>2, <2>6, <2>10, Zenon
<1>10. ASSUME bad # {} PROVE FALSE
  <2>1. bad \subseteq Nat
    OBVIOUS
  <2>2. PICK x \in bad : \A y \in bad : x <= y
    <3> HIDE DEF bad
    <3> QED BY <1>10, <2>1, LeastNatural, Zenon
  <2>3. x \in 0 .. len /\ ~Good(x)
    BY Zenon
  <2> HIDE DEF Good
  <2>4. x # 0
    BY <1>8, <2>3, Zenon
  <2>5. x - 1 \in 0 .. len /\ x \in 1 .. len /\ ~(x <= x - 1)
    BY <2>3, <2>4
  <2>6. Good(x - 1)
    BY ONLY <2>2, <2>5, Zenon
  <2> QED BY <1>9, <2>3, <2>5, <2>6
<1>11. Good(len)
  <2>1. len \in 0 .. len
    OBVIOUS
  <2> QED BY ONLY <1>10, <2>1, Zenon
<1>12. logged' = Pre(len)
  <2>1. PICK c : c = old \o lines
    BY Zenon
  <2>2. /\ IsSeq(c) /\ Len(c) = m + len
        /\ \A i \in 1 .. m + len : c[i] = IF i <= m THEN old[i] ELSE lines[i - m]
    BY ONLY <1>2, <1>3, <1>4, <2>1, IsSeq(lines), JoinedLists, ZenonT(60)
  <2>3. c = [i \in 1 .. m + len |-> c[i]]
    BY ONLY <2>2, Zenon DEF IsSeq
  <2>4. c = [i \in 1 .. m + len |-> IF i <= m THEN old[i] ELSE lines[i - m]]
    BY ONLY <2>2, <2>3, Zenon
  <2>5. logged' = c
    BY <1>1, <2>1, Zenon DEF klog_lines
  <2> QED BY ONLY <2>4, <2>5, Zenon
<1>13. PICK t, p : t = f[len] /\ p = Pre(len)
  BY Zenon
<1>14. Holds(t, p)
  BY <1>11, <1>13, Zenon
<1>15. t = [slots |-> t.slots, head |-> t.head, count |-> t.count]
  <2>1. DOMAIN t = {"slots", "head", "count"}
    BY <1>14, Zenon DEF Holds
  <2>2. CASE len = 0
    <3>1. 0 \in 0 .. len
      BY ONLY len \in Nat
    <3>2. f[0] = r
      BY ONLY <1>6, <3>1, Zenon
    <3>3. t = Ring
      BY ONLY <1>1, <1>13, <2>2, <3>2, ZenonT(60)
    <3> QED BY <3>3 DEF Ring
  <2>3. CASE len # 0
    <3>0. len \in 0 .. len
      BY ONLY len \in Nat
    <3>1. t = ring_write_line(f[len - 1], lines[len])
      BY ONLY <1>6, <1>13, <2>3, <3>0, Zenon
    <3> QED BY ONLY <3>1, WritesARing, Zenon
  <2> QED BY <2>2, <2>3
<1>16. Holds([slots |-> g_ring', head |-> g_ring_head', count |-> g_ring_count'], logged')
  BY ONLY <1>5, <1>12, <1>13, <1>14, <1>15, ZenonT(60)
<1> QED BY ONLY <1>16, Zenon DEF KlogOK, Holds, Slots

\* The slots that klog_dump_recent reads, for n slots, a head h and w lines.
LEMMA DumpedSlots ==
  \A n \in Nat \ {0} : n = KLOG_RING_LINES =>
     \A h \in 0 .. n - 1 : \A w \in 0 .. n : \A k \in 1 .. w :
        (((h + n - w) % n) + k - 1) % n = Behind(h, w + 1 - k)
<1> SUFFICES ASSUME NEW n \in Nat \ {0}, n = KLOG_RING_LINES, NEW h \in 0 .. n - 1,
                    NEW w \in 0 .. n, NEW k \in 1 .. w
             PROVE  (((h + n - w) % n) + k - 1) % n = Behind(h, w + 1 - k)
  BY Zenon
<1>0. PICK start : start = (h + n - w) % n
  BY Zenon
<1>1. ASSUME NEW x \in 0 .. n - 1 PROVE x % n = x
  BY ONLY <1>1
<1>2. ASSUME NEW x \in n .. 2 * n - 1 PROVE x % n = x - n
  BY <1>2
<1>3. start = IF h - w < 0 THEN h - w + n ELSE h - w
  <2>1. CASE h - w < 0
    <3>1. h + n - w \in 0 .. n - 1
      BY <2>1
    <3> QED BY <1>0, <1>1, <2>1, <3>1
  <2>2. CASE ~(h - w < 0)
    <3>1. h + n - w \in n .. 2 * n - 1
      BY <2>2
    <3> QED BY <1>0, <1>2, <2>2, <3>1
  <2> QED BY <2>1, <2>2, Zenon
<1>4. PICK x \in Int : x = start + k - 1
  BY ONLY <1>3
<1>5. x \in 0 .. 2 * n - 1
  BY ONLY <1>3, <1>4, h \in 0 .. n - 1, w \in 0 .. n, k \in 1 .. w, n \in Nat \ {0}
<1>6. x % n = IF x < n THEN x ELSE x - n
  <2>1. CASE x < n
    <3>1. x \in 0 .. n - 1
      BY <1>5, <2>1
    <3> QED BY <1>1, <2>1, <3>1, Zenon
  <2>2. CASE ~(x < n)
    <3>1. x \in n .. 2 * n - 1
      BY <1>5, <2>2
    <3> QED BY ONLY <1>2, <2>2, <3>1, Zenon
  <2> QED BY ONLY <2>1, <2>2, Zenon
<1>7. (IF x < n THEN x ELSE x - n) = Behind(h, w + 1 - k)
  BY ONLY <1>3, <1>4, h \in 0 .. n - 1, w \in 0 .. n, k \in 1 .. w, n \in Nat \ {0},
          n = KLOG_RING_LINES DEF Behind
<1> QED BY ONLY <1>0, <1>4, <1>6, <1>7, Zenon

\* What klog_dump_recent shows of a ring that holds the last lines.
LEMMA DumpIsRecent == KlogOK => LogKeepsRecent
<1> SUFFICES ASSUME KlogOK, NEW limit \in 0 .. KLOG_RING_LINES + 1
             PROVE  LET held == IF Len(logged) < KLOG_RING_LINES THEN Len(logged) ELSE KLOG_RING_LINES
                        wanted == IF limit = 0 \/ limit > held THEN held ELSE limit
                    IN  klog_dump_recent(limit) = SubSeq(logged, Len(logged) - wanted + 1, Len(logged))
  BY DEF LogKeepsRecent
<1>1. PICK n \in Nat \ {0} : n = KLOG_RING_LINES
  BY KlogAssumption
<1>2. PICK r : r = Ring
  BY Zenon
<1>3. Holds(r, logged) /\ r.slots = g_ring /\ r.head = g_ring_head /\ r.count = g_ring_count
  BY <1>2 DEF KlogOK, Ring
<1>4. PICK m \in Nat : m = Len(logged)
  BY ONLY <1>3, ZenonT(60) DEF Holds, IsSeq
<1>5. PICK h \in 0 .. n - 1 : h = g_ring_head
  BY <1>1, <1>3 DEF Holds, Slots
<1>6. PICK c \in Nat : c = g_ring_count /\ c = (IF m < n THEN m ELSE n)
  BY <1>1, <1>3, <1>4, Zenon DEF Holds
<1>7. \A back \in 1 .. c : g_ring[Behind(h, back)] = logged[m + 1 - back]
  BY <1>3, <1>4, <1>5, <1>6, ZenonT(60) DEF Holds
<1>8. limit \in Nat
  BY <1>1
<1>9. PICK w \in Nat : w = IF limit = 0 \/ limit > c THEN c ELSE limit
  BY <1>8, Zenon
<1>10. w <= c /\ w \in 0 .. n /\ w <= m
  BY ONLY <1>6, <1>8, <1>9, m \in Nat, n \in Nat \ {0}, c \in Nat
<1>11. PICK start : start = (h + n - w) % n
  BY Zenon
<1>12. klog_dump_recent(limit) = [k \in 1 .. w |-> g_ring[(start + k - 1) % n]]
  BY ONLY <1>1, <1>5, <1>6, <1>9, <1>11, ZenonT(60) DEF klog_dump_recent
<1>13. ASSUME NEW k \in 1 .. w PROVE g_ring[(start + k - 1) % n] = logged[m - w + 1 + k - 1]
  <2>1. (start + k - 1) % n = Behind(h, w + 1 - k)
    <3>1. \A x \in 0 .. n - 1 : \A y \in 0 .. n : \A z \in 1 .. y :
             (((x + n - y) % n) + z - 1) % n = Behind(x, y + 1 - z)
      BY ONLY <1>1, n \in Nat \ {0}, DumpedSlots, Zenon
    <3>2. (((h + n - w) % n) + k - 1) % n = Behind(h, w + 1 - k)
      BY ONLY <1>10, <3>1, h \in 0 .. n - 1, k \in 1 .. w, ZenonT(60)
    <3> QED BY ONLY <1>11, <3>2, Zenon
  <2>2. PICK b \in 1 .. c : b = w + 1 - k
    BY <1>10
  <2>3. m + 1 - b = m - w + 1 + k - 1
    BY ONLY <2>2, m \in Nat, w \in Nat, k \in 1 .. w
  <2>4. g_ring[Behind(h, b)] = logged[m + 1 - b]
    BY ONLY <1>7, b \in 1 .. c, Zenon
  <2> QED BY ONLY <2>1, <2>2, <2>3, <2>4
<1>14. PICK lo \in Int : lo = m - w + 1
  BY <1>10
<1>15. PICK S, sub : S = {logged[i] : i \in 1 .. m} /\ sub = SubSeq(logged, lo, m)
  BY Zenon
<1>16. sub \in Seq(S) /\ Len(sub) = w /\ \A k \in 1 .. w : sub[k] = logged[lo + k - 1]
  <2>1. \A i \in lo .. m : logged[i] \in S
    BY <1>10, <1>14, <1>15
  <2>2. /\ sub \in Seq(S) /\ Len(sub) = (IF lo <= m THEN m - lo + 1 ELSE 0)
        /\ \A i \in 1 .. m - lo + 1 : sub[i] = logged[lo + i - 1]
    <3>1. sub = SubSeq(logged, lo, m)
      BY ONLY <1>15, Zenon
    <3>2. sub \in Seq(S)
      BY ONLY <2>1, <3>1, lo \in Int, m \in Nat
    <3>3. Len(sub) = (IF lo <= m THEN m - lo + 1 ELSE 0)
      BY ONLY <3>1, lo \in Int, m \in Nat
    <3>4. \A i \in 1 .. m - lo + 1 : sub[i] = logged[lo + i - 1]
      BY ONLY <3>1, lo \in Int, m \in Nat
    <3> QED BY ONLY <3>2, <3>3, <3>4, Zenon
  <2>3. m - lo + 1 = w /\ (IF lo <= m THEN m - lo + 1 ELSE 0) = w
    BY ONLY <1>10, <1>14, m \in Nat, w \in Nat
  <2> QED BY ONLY <2>2, <2>3, ZenonT(60)
<1>17. sub = [k \in 1 .. w |-> sub[k]]
  BY ONLY <1>16, SeqIsSeq, Zenon DEF IsSeq
<1>18. klog_dump_recent(limit) = sub
  <2>1. \A k \in 1 .. w : g_ring[(start + k - 1) % n] = sub[k]
    BY <1>13, <1>14, <1>16, Zenon
  <2> QED BY ONLY <1>12, <1>17, <2>1, Zenon
<1> QED BY ONLY <1>1, <1>4, <1>6, <1>9, <1>14, <1>15, <1>18, ZenonT(60)

\* Lists of a few lines are lists.
LEMMA ShortLists ==
  /\ IsSeq(<<>>)
  /\ \A a : IsSeq(<<a>>)
  /\ \A a, b : IsSeq(<<a, b>>)
  /\ \A a, b : IsSeq(a) /\ IsSeq(b) => IsSeq(a \o b)
<1>1. IsSeq(<<>>)
  BY DEF IsSeq
<1>2. ASSUME NEW a PROVE IsSeq(<<a>>)
  BY DEF IsSeq
<1>3. ASSUME NEW a, NEW b PROVE IsSeq(<<a, b>>)
  BY DEF IsSeq
<1>4. ASSUME NEW a, NEW b, IsSeq(a), IsSeq(b) PROVE IsSeq(a \o b)
  BY <1>4, JoinedLists, Zenon
<1> QED BY <1>1, <1>2, <1>3, <1>4, Zenon

\* A step logs a list of lines or none.
LEMMA StepLogs ==
  ASSUME TablesAreListed, [Next]_vars
  PROVE  UNCHANGED klogVars \/ \E lines : IsSeq(lines) /\ klog_lines(lines)
<1>1. CASE Loader \/ UNCHANGED vars
  BY <1>1, Zenon DEF Loader, vars, irqVars
<1>2. CASE KernelStarts
  BY <1>2, ShortLists, Zenon DEF KernelStarts, irq_controller_init
<1>3. CASE KernelMemory
  <2>1. IsSeq(IF kpc' = "ready" THEN <<Info("heap tested")>> ELSE <<>>)
    BY ShortLists, Zenon
  <2> QED BY <1>3, <2>1, Zenon DEF KernelMemory
<1>4. CASE ReadTables
  BY <1>4, Zenon DEF ReadTables, acpi_init, TablesAreListed
<1>5. CASE EnableApic
  BY <1>5, ShortLists, Zenon DEF EnableApic
<1>6. CASE RouteIrq
  <2>1. \/ UNCHANGED klogVars
        \/ \E x, y : klog_lines(IF x < y THEN <<>> ELSE <<Warn("duplicate GSI")>>)
        \/ klog_lines(<<Warn("routing failed")>>)
    BY <1>6, Zenon DEF RouteIrq
  <2>2. \A x, y : IsSeq(IF x < y THEN <<>> ELSE <<Warn("duplicate GSI")>>)
    BY ShortLists, Zenon
  <2> QED BY <2>1, <2>2, ShortLists, Zenon
<1>7. CASE SwitchBackend
  BY <1>7, ShortLists, Zenon DEF SwitchBackend
<1>8. CASE enable_interrupts
  <2>1. PICK a, b : a = (IF health_faults = 0 THEN <<>> ELSE <<Warn("IRQ health")>>)
                    /\ b = <<Info("scheduler ready"), Info("processes ready")>>
    BY Zenon
  <2>2. IsSeq(a) /\ IsSeq(b)
    BY <2>1, ShortLists, Zenon
  <2>3. klog_lines(a \o b)
    BY <1>8, <2>1, Zenon DEF enable_interrupts
  <2> QED BY <2>2, <2>3, ShortLists, Zenon
<1>9. CASE Shutdown \/ \E irq \in Devices : PicInterrupt(irq) \/ ApicInterrupt(irq)
  BY <1>9, Zenon DEF Shutdown, PicInterrupt, ApicInterrupt
<1> QED BY <1>1, <1>2, <1>3, <1>4, <1>5, <1>6, <1>7, <1>8, <1>9, ZenonT(60) DEF Next, KernelRuns, IrqNext

\* For every size of the ring, and whatever is logged while the kernel boots,
\* dmesg-lite shows the last lines, as many as it is asked for and the ring holds.
THEOREM LogIsKept == Spec /\ []TablesAreListed => []LogKeepsRecent
<1>1. Init => KlogOK
  <2> SUFFICES ASSUME Init PROVE KlogOK
    OBVIOUS
  <2>1. /\ g_ring = [s \in Slots |-> EmptyLine] /\ g_ring_head = 0 /\ g_ring_count = 0
        /\ logged = <<>>
    BY Zenon DEF Init, IrqInit, KlogInit
  <2>2. PICK r : r = Ring
    BY ZenonT(60)
  <2>3. /\ DOMAIN r = {"slots", "head", "count"} /\ DOMAIN r.slots = Slots
        /\ r.head = 0 /\ r.count = 0
    BY <2>1, <2>2, Zenon DEF Ring
  <2>4. 0 \in Slots /\ 0 < KLOG_RING_LINES /\ 1 .. 0 = {}
    BY KlogAssumption DEF Slots
  <2>5. Len(logged) = 0 /\ IsSeq(logged)
    BY <2>1 DEF IsSeq
  <2>6. Holds(r, logged)
    BY ONLY <2>3, <2>4, <2>5, Zenon DEF Holds
  <2> QED BY <2>2, <2>6, Zenon DEF KlogOK, Ring
<1>2. KlogOK /\ TablesAreListed /\ [Next]_vars => KlogOK'
  <2> SUFFICES ASSUME KlogOK, TablesAreListed, [Next]_vars PROVE KlogOK'
    OBVIOUS
  <2>1. CASE UNCHANGED klogVars
    BY <2>1, Zenon DEF KlogOK, klogVars
  <2> QED BY <2>1, StepLogs, LinesKeep, Zenon
<1>3. KlogOK => LogKeepsRecent
  BY DumpIsRecent
<1> QED BY <1>1, <1>2, <1>3, PTL DEF Spec
=============================================================================
