----------------------------- MODULE IrqRouting -----------------------------
(***************************************************************************)
(* Interrupt delivery: kernel/irq.c, kernel/apic.c and kernel/pic.c, with  *)
(* the MADT that kernel/acpi.c has read and the dispatch of kernel/idt.c.  *)
(*                                                                         *)
(* kernel_main starts on the legacy PIC, tries to route the IRQs through   *)
(* the I/O APIC, unmasks the timer and the keyboard and enables            *)
(* interrupts, and logs what it finds.  The device of an IRQ drives the    *)
(* PIC input of that number and the global interrupt (GSI) it is wired to. *)
(* At any time afterwards the shell may be told to shut down.              *)
(***************************************************************************)
EXTENDS Acpi

CONSTANTS
  NumIRQs,     \* 16 in the code
  Devices      \* the IRQs a device is connected to

ASSUME IrqAssumption ==
  /\ NumIRQs \in Nat /\ NumIRQs >= 2
  /\ Devices \subseteq 0 .. NumIRQs - 1

IRQs == 0 .. NumIRQs - 1
TIMER == 0
KEYBOARD == 1
IRQ_VECTOR_BASE == 32

VARIABLES
  g_backend,     \* "PIC" or "APIC"
  g_irq_gsi,     \* the GSI of each IRQ
  pic_masked,    \* IRQs masked at the PIC
  lapic_enabled,
  ioapic,        \* redirection entries in force: GSI -> vector
  gsi_claimed,
  health_faults, \* reasons to stay on the PIC
  next_irq,      \* IRQ the routing loop handles next
  pc,            \* boot step, "on" once interrupts are enabled
  pic_isr,       \* IRQs in service at the PIC
  lapic_isr,     \* vectors in service at the local APIC
  handled        \* last interrupt: the device's IRQ and the IRQ handled for it

routeVars == <<g_backend, g_irq_gsi, pic_masked, lapic_enabled, ioapic, gsi_claimed,
               health_faults>>
serviceVars == <<pic_isr, lapic_isr, handled>>
bootVars == <<next_irq, pc>>
irqVars == <<acpiTables, shutdownVars, klogVars, routeVars, bootVars, serviceVars>>

-----------------------------------------------------------------------------
(* Boot. *)

\* pic_init leaves every IRQ masked, and so does apic_mask_legacy_pic.
pic_init == IRQs
apic_mask_legacy_pic == IRQs

IrqInit ==
  /\ AcpiInit /\ KlogInit
  /\ g_backend = "PIC"
  /\ g_irq_gsi = [irq \in IRQs |-> 0]
  /\ pic_masked = {}
  /\ lapic_enabled = FALSE
  /\ ioapic = [gsi \in {} |-> 0]
  /\ gsi_claimed = {}
  /\ health_faults = 0
  /\ next_irq = 0
  /\ pc = "irq_init"
  /\ pic_isr = {} /\ lapic_isr = {}
  /\ handled = <<TIMER, TIMER>>

\* irq_controller_init, and rtc_init after it.
irq_controller_init ==
  /\ pc = "irq_init"
  /\ g_irq_gsi' = [irq \in IRQs |-> irq]
  /\ pic_masked' = pic_init
  /\ g_backend' = "PIC"
  /\ health_faults' = 0
  /\ klog_lines(<<Info("PIC active"), Info("RTC ready")>>)
  /\ pc' = "acpi_init"
  /\ UNCHANGED <<acpiTables, shutdownVars, lapic_enabled, ioapic, gsi_claimed, next_irq,
                 serviceVars>>

ReadTables ==
  /\ pc = "acpi_init"
  /\ acpi_init
  /\ pc' = "enable_apic"
  /\ UNCHANGED <<routeVars, next_irq, serviceVars>>

apic_can_enable == g_madt.lapic_addr # 0 /\ g_madt.ioapic.addr # 0

\* irq_try_enable_apic up to apic_enable.
EnableApic ==
  /\ pc = "enable_apic"
  /\ \/ /\ g_madt.present /\ apic_can_enable
        /\ lapic_enabled' = TRUE
        /\ klog_lines(<<Info("LAPIC enabled")>>)
        /\ pc' = "route"
        /\ UNCHANGED health_faults
     \/ /\ ~(g_madt.present /\ apic_can_enable)
        /\ klog_lines(<<Warn(IF g_madt.present THEN "APIC enable failed" ELSE "no MADT")>>)
        /\ health_faults' = health_faults + 1
        /\ pc' = "unmask"
        /\ UNCHANGED lapic_enabled
  /\ UNCHANGED <<acpiTables, shutdownVars, g_backend, g_irq_gsi, pic_masked, ioapic,
                 gsi_claimed, next_irq, serviceVars>>

\* apic_route_irq: the pin must exist; its entry is written unmasked.
HasPin(gsi) == gsi - g_madt.ioapic.gsi_base <= firmware.max_redir

Redirect(gsi, irq) ==
  [g \in DOMAIN ioapic \cup {gsi} |->
     IF g = gsi THEN IRQ_VECTOR_BASE + irq ELSE ioapic[g]]

\* Variant of Skipped that routes a claimed GSI once more.
SkippedBelowBase(irq, gsi) == gsi < g_madt.ioapic.gsi_base

\* IRQs the loops of irq_try_enable_apic pass over; a claimed GSI is logged.
Skipped(irq, gsi) ==
  \/ gsi < g_madt.ioapic.gsi_base
  \/ irq \notin {TIMER, KEYBOARD} /\ gsi \in gsi_claimed

\* One IRQ of the loops: the critical ones come first and are the lowest.
RouteIrq ==
  /\ pc = "route" /\ next_irq \in IRQs
  /\ LET gsi == acpi_get_irq_override(next_irq, g_madt.iso)
     IN  /\ g_irq_gsi' = [g_irq_gsi EXCEPT ![next_irq] = gsi]
         /\ \/ /\ Skipped(next_irq, gsi)
               /\ klog_lines(IF gsi < g_madt.ioapic.gsi_base THEN <<>>
                             ELSE <<Warn("duplicate GSI")>>)
               /\ UNCHANGED <<ioapic, gsi_claimed, health_faults, pc>>
            \/ /\ ~Skipped(next_irq, gsi)
               /\ HasPin(gsi)
               /\ ioapic' = Redirect(gsi, next_irq)
               /\ gsi_claimed' = gsi_claimed \cup {gsi}
               /\ UNCHANGED <<health_faults, klogVars, pc>>
            \/ /\ ~Skipped(next_irq, gsi)
               /\ ~HasPin(gsi)
               /\ klog_lines(<<Warn("routing failed")>>)
               /\ health_faults' = health_faults + 1
               /\ pc' = "unmask"
               /\ UNCHANGED <<ioapic, gsi_claimed>>
  /\ next_irq' = next_irq + 1
  /\ UNCHANGED <<acpiTables, shutdownVars, g_backend, pic_masked, lapic_enabled,
                 serviceVars>>

\* The end of irq_try_enable_apic.
SwitchBackend ==
  /\ pc = "route" /\ next_irq \notin IRQs
  /\ pic_masked' = apic_mask_legacy_pic
  /\ g_backend' = "APIC"
  /\ klog_lines(<<Info("APIC active")>>)
  /\ pc' = "unmask"
  /\ UNCHANGED <<acpiTables, shutdownVars, g_irq_gsi, lapic_enabled, ioapic,
                 gsi_claimed, health_faults, next_irq, serviceVars>>

\* Variant of enable_interrupts that unmasks nothing.
EnableInterruptsMasked ==
  /\ pc = "unmask"
  /\ pc' = "on"
  /\ UNCHANGED <<acpiTables, shutdownVars, klogVars, routeVars, next_irq, serviceVars>>

\* The entries of the I/O APIC are written unmasked already.
irq_unmask(irqs) == IF g_backend = "PIC" THEN pic_masked \ irqs ELSE pic_masked

\* The rest of kernel_main: a warning unless irq_backend_health, task_init,
\* process_init and enable_interrupts.
enable_interrupts ==
  /\ pc = "unmask"
  /\ klog_lines((IF health_faults = 0 THEN <<>> ELSE <<Warn("IRQ health")>>)
                  \o <<Info("scheduler ready"), Info("processes ready")>>)
  /\ pic_masked' = irq_unmask({TIMER, KEYBOARD})
  /\ pc' = "on"
  /\ UNCHANGED <<acpiTables, shutdownVars, g_backend, g_irq_gsi, lapic_enabled, ioapic,
                 gsi_claimed, health_faults, next_irq, serviceVars>>

-----------------------------------------------------------------------------
(* Interrupts. *)

Wired(irq) == acpi_get_irq_override(irq, firmware.wiring)

\* The PIC delivers an IRQ unless it or one of higher priority is in service.
PicDelivers(irq) == irq \notin pic_masked /\ \A q \in pic_isr : irq < q

\* The local APIC delivers a vector above those in service, by class of 16.
ApicDelivers(irq) ==
  /\ lapic_enabled
  /\ Wired(irq) \in DOMAIN ioapic
  /\ \A v \in lapic_isr : ioapic[Wired(irq)] \div 16 > v \div 16

\* Variant of AcknowledgedAt that always tells the PIC.
AcknowledgedAtPic == "PIC"

\* Where irq_send_eoi acknowledges: the handler does not know which
\* controller delivered the interrupt.
AcknowledgedAt == g_backend

\* The acknowledged controller ends what it has in service with the highest
\* priority: the lowest IRQ of the PIC, the highest vector of the local APIC.
pic_send_eoi(isr) ==
  IF AcknowledgedAt = "PIC" /\ isr # {} THEN isr \ {Lowest(isr)} ELSE isr
apic_send_eoi(isr) ==
  IF AcknowledgedAt = "APIC" THEN {v \in isr : \E w \in isr : v < w} ELSE isr

Interruptible == pc = "on" /\ sd = "no"

PicInterrupt(irq) ==
  /\ Interruptible /\ PicDelivers(irq)
  /\ handled' = <<irq, irq>>
  /\ pic_isr' = pic_send_eoi(pic_isr \cup {irq})
  /\ lapic_isr' = apic_send_eoi(lapic_isr)
  /\ UNCHANGED <<acpiTables, shutdownVars, klogVars, routeVars, bootVars>>

ApicInterrupt(irq) ==
  /\ Interruptible /\ ApicDelivers(irq)
  /\ LET vector == ioapic[Wired(irq)]
     IN  /\ handled' = <<irq, vector - IRQ_VECTOR_BASE>>
         /\ lapic_isr' = apic_send_eoi(lapic_isr \cup {vector})
  /\ pic_isr' = pic_send_eoi(pic_isr)
  /\ UNCHANGED <<acpiTables, shutdownVars, klogVars, routeVars, bootVars>>

Shutdown ==
  /\ pc = "on"
  /\ shutdown \/ AcpiModeComesOn
  /\ UNCHANGED <<klogVars, routeVars, bootVars, serviceVars>>

IrqNext ==
  \/ ReadTables \/ EnableApic \/ RouteIrq \/ SwitchBackend \/ enable_interrupts
  \/ \E irq \in Devices : PicInterrupt(irq) \/ ApicInterrupt(irq)
  \/ Shutdown

-----------------------------------------------------------------------------
(* Properties. *)

\* HARDWARE_NOTES.md: "timer ticks advance", "shell input works".  Once
\* interrupts are enabled, the timer and the keyboard can interrupt.
TimerAndKeyboardDeliver ==
  pc = "on" => \A irq \in {TIMER, KEYBOARD} : PicDelivers(irq) \/ ApicDelivers(irq)

\* Outside of handlers no controller has an interrupt in service: each is
\* acknowledged where it came from, also on the PIC as fallback.
AllAcknowledged == pic_isr = {} /\ lapic_isr = {}

\* An interrupt is handled as that of the device that raised it, also where
\* the firmware moves IRQs to other GSIs, as long as no two of them share one.
RightHandler == handled[1] = handled[2]

-----------------------------------------------------------------------------
(* When the properties above hold for every machine, and the invariants      *)
(* behind them.                                                              *)

\* The interrupt the kernel takes an IRQ to be wired to.
Gsi(irq) == acpi_get_irq_override(irq, g_madt.iso)

\* What acpi_init has read is how the machine is wired.
WiringKnown == \A irq \in Devices \cup {TIMER, KEYBOARD} : Gsi(irq) = Wired(irq)

\* No device has the GSI of a lower IRQ, nor the timer that of the keyboard.
NoClash ==
  /\ \A irq \in Devices, q \in IRQs : q < irq => Gsi(q) # Gsi(irq)
  /\ Gsi(TIMER) # Gsi(KEYBOARD)

\* The I/O APIC that acpi_init has kept serves the timer and the keyboard.
CriticalServed == \A irq \in {TIMER, KEYBOARD} : ~(Gsi(irq) < g_madt.ioapic.gsi_base)

\* Routing failed after some entries were written: they stay in force although
\* interrupts are acknowledged at the PIC.
HalfRouted == g_backend = "PIC" /\ DOMAIN ioapic # {}

\* The types found in the DSDT are those of the machine's S5 package.
TypesRead ==
  g_poweroff.have =>
    g_poweroff.slp_typa % 8 = firmware.s5[1] /\ g_poweroff.slp_typb % 8 = firmware.s5[2]

\* Shutdown: what each step has left in the control registers.
PowerOK ==
  /\ sd # "no" => pc = "on"
  /\ sd \in {"no", "poll", "write_a", "write_b", "halt"}
  /\ DOMAIN pm1 = 1 .. 2
  /\ \A r \in 1 .. 2 : DOMAIN pm1[r] = {"sci_en", "slp_typ", "slp_en"}
  /\ sd \in {"no", "poll", "write_a"} => pm1[1].slp_en = FALSE
  /\ sd \in {"poll", "write_a", "write_b"} => g_poweroff.have
  /\ sd \in {"write_a", "write_b", "halt"} /\ g_poweroff.have
       => (g_poweroff.smi => AcpiMode \/ polls = MAX_POLLS)
  /\ sd \in {"write_b", "halt"} /\ g_poweroff.have
       => pm1[1].slp_en = TRUE /\ pm1[1].slp_typ = g_poweroff.slp_typa % 8
  /\ sd = "halt" /\ g_poweroff.have /\ g_poweroff.pm1b
       => pm1[2].slp_en = TRUE /\ pm1[2].slp_typ = g_poweroff.slp_typb % 8
  /\ sd = "halt" /\ ~g_poweroff.have => pm1[1].slp_en = FALSE

\* The entries of the I/O APIC are those of the IRQs the loop has handled.
TableOK ==
  /\ next_irq \in Nat
  /\ gsi_claimed = DOMAIN ioapic
  /\ pc \in {"irq_init", "acpi_init", "enable_apic"} => DOMAIN ioapic = {} /\ next_irq = 0
  /\ \A g \in DOMAIN ioapic :
       /\ ~(g < g_madt.ioapic.gsi_base)
       /\ \E q \in IRQs : q < next_irq /\ Gsi(q) = g /\ ioapic[g] = IRQ_VECTOR_BASE + q
  /\ NoClash =>
       \A irq \in Devices :
         Gsi(irq) \in DOMAIN ioapic => ioapic[Gsi(irq)] = IRQ_VECTOR_BASE + irq
  /\ pc = "route" \/ g_backend = "APIC" =>
       \A irq \in IRQs :
         irq < next_irq /\ ~(Gsi(irq) < g_madt.ioapic.gsi_base) => Gsi(irq) \in DOMAIN ioapic

BackendOK ==
  /\ pc \in {"irq_init", "acpi_init", "enable_apic", "route", "unmask", "on"}
  /\ g_backend \in {"PIC", "APIC"}
  /\ pc = "route" => lapic_enabled
  /\ g_backend = "APIC" => /\ lapic_enabled /\ pic_masked = IRQs /\ pc \in {"unmask", "on"}
                           /\ next_irq \notin IRQs
  /\ g_backend = "PIC" /\ pc = "on" => pic_masked \cap {TIMER, KEYBOARD} = {}

ServiceOK ==
  /\ pc # "on" => AllAcknowledged /\ RightHandler
  /\ HalfRouted \/ AllAcknowledged
  /\ DOMAIN ioapic = {} \/ (WiringKnown /\ NoClash) => RightHandler

RoutingInv == TableOK /\ BackendOK /\ ServiceOK
=============================================================================
