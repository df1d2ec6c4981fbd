------------------------------- MODULE MCBoot -------------------------------
(* Instance of Boot: 32 pages of memory, six IRQs, and machines as PCs are, *)
(* with tables that are complete, missing or damaged.                      *)
EXTENDS Boot, TLC

MCDevices == {0, 1, 3, 4, 5}

-----------------------------------------------------------------------------
(* Tables for interrupts. *)

Cpu == [type |-> 0, length |-> 8]
Nmi == [type |-> 4, length |-> 6]
Ioapic == [type |-> 1, length |-> 12, addr |-> 1, gsi_base |-> 0]
Iso(irq, gsi) == [type |-> 2, length |-> 10, source_irq |-> irq, gsi |-> gsi]
Endless == [type |-> 2, length |-> 0, source_irq |-> 0, gsi |-> 5]
CutOff == [type |-> 1, length |-> 12, addr |-> 0, gsi_base |-> 0]

Madt(lapic, entries) ==
  [signature |-> "APIC", valid |-> TRUE, lapic_addr |-> lapic, entries |-> entries,
   size |-> EndOf(entries)[Len(entries)]]

\* The timer may be moved to pin 2, which no device has, and every IRQ to a
\* pin above those of the IRQs.
Moves == {Iso(0, 2)} \cup {Iso(a, g) : a \in MCDevices, g \in {6, 7}}

\* No, one or two IRQs moved.
Wirings ==
  {<<>>} \cup {<<m>> : m \in Moves}
    \cup {<<m, n>> : <<m, n>> \in {<<a, b>> \in Moves \X Moves :
                                     a.source_irq # b.source_irq /\ a.gsi # b.gsi}}

-----------------------------------------------------------------------------
(* Tables for powering off. *)

\* How an AML compiler writes the package of a name: a prefix or none, the
\* length in one byte or two, and integers as short as it can or not.
Name(prefix, nameseg) == <<NAME_OP>> \o prefix \o nameseg
Number(n, width) ==
  CASE width = 1 -> <<n>>
    [] width = 2 -> <<BYTE_PREFIX, n>>
    [] width = 3 -> <<WORD_PREFIX, n, 0>>
Package(length, a, b) == <<PACKAGE_OP>> \o length \o <<4>> \o a \o b \o <<0, 0>>

S4_NAME == <<95, 83, 52, 95>>

\* S5 is used in a method and S4 is defined before the package itself comes.
Before == <<160>> \o S5_NAME \o Package(<<8>>, <<1>>, <<1>>) \o Name(<<>>, S4_NAME)
            \o Package(<<8>>, <<1>>, <<1>>)

Dsdt(aml) == [signature |-> "DSDT", valid |-> TRUE, aml |-> aml]

Dsdts(a, b) ==
  {Dsdt(before \o Name(prefix, S5_NAME)
          \o Package(length, Number(a, wa), Number(b, wb))) :
     before \in {<<>>, Before}, prefix \in {<<>>, <<ROOT_CHAR>>, <<PARENT_CHAR>>},
     length \in {<<8>>, <<72, 0>>}, wa \in {2, 3}, wb \in {2, 3}}

Fadt(dsdt, pm1b, smi) ==
  [signature |-> "FACP", valid |-> TRUE, length |-> 116, dsdt |-> dsdt,
   pm1a |-> TRUE, pm1b |-> pm1b, smi_cmd |-> smi, acpi_enable |-> smi]

TheDsdt ==
  Dsdt(Name(<<ROOT_CHAR>>, S5_NAME) \o Package(<<8>>, Number(5, 2), Number(7, 2)))
OneZero == Dsdt(Name(<<>>, S5_NAME) \o Package(<<6>>, Number(1, 1), Number(0, 1)))
TheFadt == Fadt(TheDsdt, TRUE, TRUE)

\* Tables without a way to power off.
BadFadts ==
  {[TheFadt EXCEPT !.length = 84], [TheFadt EXCEPT !.dsdt = NoTable],
   [TheFadt EXCEPT !.dsdt.valid = FALSE], [TheFadt EXCEPT !.pm1a = FALSE],
   [TheFadt EXCEPT !.dsdt.aml = SubSeq(@, 1, 12)]}

-----------------------------------------------------------------------------
(* Memory and the kernel file. *)

\* Firmware data at the bottom and at the top, ACPI memory in between.
Typed(top, special) ==
  [p \in 0 .. top |-> IF p \in DOMAIN special THEN special[p] ELSE EFI_CONVENTIONAL_MEMORY]

TheMemory == Typed(31, 0 :> 4 @@ 20 :> 9 @@ 21 :> 10)

Segment(type, paddr, pages) == [type |-> type, paddr |-> paddr, pages |-> pages]

TheKernel ==
  [names |-> {"kernel.elf"}, magic |-> "ELF", machine |-> "x86_64", type |-> "EXEC",
   segments |-> <<Segment("LOAD", 2, 1), Segment("LOAD", 3, 1), Segment("STACK", 0, 0)>>]

-----------------------------------------------------------------------------
(* Machines. *)

Rsdp ==
  [signature_ok |-> TRUE, checksum_ok |-> TRUE, revision |-> 2, length |-> 36,
   extended_ok |-> TRUE, page |-> 20]

OldRsdp == [Rsdp EXCEPT !.revision = 0, !.length = 20]

Entry(guid, table) == [guid |-> guid, table |-> table]

Root(tables) == [valid |-> TRUE, tables |-> tables]

Machine(madt, fadt, wiring, pins) ==
  [config |-> <<Entry("smbios", NoTable), Entry("acpi10", OldRsdp), Entry("acpi20", Rsdp)>>,
   rsdt |-> Root(<<madt, fadt>>), xsdt |-> Root(<<fadt, madt>>),
   wiring |-> wiring, max_redir |-> pins - 1, s5 |-> <<5, 7>>,
   memory |-> TheMemory, framebuffer |-> {34}, restless |-> FALSE,
   roomy |-> TRUE,
   protocols |-> {"LoadedImage", "FileSystem", "Volume"}, kernel |-> TheKernel]

Wired2 == <<Iso(0, 2)>>
TheMadt == Madt(1, <<Cpu, Ioapic, Nmi>> \o Wired2)
TheMachine == Machine(TheMadt, TheFadt, Wired2, 8)

\* Every wiring; a table that ends too early, too late or has no end; no
\* address, no I/O APIC, and too few pins for the timer.
MadtMachines ==
  {Machine(Madt(1, <<Cpu, Ioapic>> \o w), TheFadt, w, 8) : w \in Wirings}
    \cup {Machine(Madt(1, <<Ioapic>> \o Wired2 \o <<Endless>>), TheFadt, Wired2, 8),
          Machine([Madt(1, <<Ioapic>> \o Wired2 \o <<CutOff>>) EXCEPT !.size = @ - 4],
                  TheFadt, Wired2, 8),
          Machine(Madt(0, <<Cpu, Ioapic>>), TheFadt, <<>>, 8),
          Machine(Madt(1, <<Cpu>>), TheFadt, <<>>, 8),
          Machine(Madt(1, <<Cpu, Ioapic>> \o Wired2), TheFadt, Wired2, 2)}

PowerMachines ==
  {Machine(TheMadt, Fadt(d, pm1b, smi), Wired2, 8) :
     d \in Dsdts(5, 7), pm1b \in BOOLEAN, smi \in BOOLEAN}
    \cup {Machine(TheMadt, fadt, Wired2, 8) : fadt \in BadFadts}
    \cup {[Machine(TheMadt, Fadt(OneZero, TRUE, FALSE), Wired2, 8) EXCEPT !.s5 = <<1, 0>>]}

\* No RSDP, a damaged or an old one; damaged or missing root tables.
WithRsdp(rsdp) == [TheMachine EXCEPT !.config = <<Entry("acpi20", rsdp)>>]

RootMachines ==
  {[TheMachine EXCEPT !.config = <<>>],
   [TheMachine EXCEPT !.config = <<Entry("acpi10", OldRsdp)>>],
   WithRsdp([Rsdp EXCEPT !.signature_ok = FALSE]),
   WithRsdp([Rsdp EXCEPT !.checksum_ok = FALSE]),
   WithRsdp([Rsdp EXCEPT !.extended_ok = FALSE]), WithRsdp([Rsdp EXCEPT !.length = 20]),
   [TheMachine EXCEPT !.xsdt = NoTable], [TheMachine EXCEPT !.xsdt.valid = FALSE],
   [TheMachine EXCEPT !.xsdt.tables[2].valid = FALSE, !.rsdt.valid = FALSE]}

\* A firmware that changes memory while the loader runs; with runtime and MMIO
\* memory, a hole, or the framebuffer below the end of memory.
RestlessMachines ==
  {[WithRsdp([Rsdp EXCEPT !.checksum_ok = FALSE])
      EXCEPT !.restless = TRUE, !.roomy = roomy, !.memory = m[1], !.framebuffer = m[2]] :
     roomy \in BOOLEAN,
     m \in {<<TheMemory, {34}>>,
           <<Typed(31, 19 :> 6 @@ 22 :> 5 @@ 23 :> 11), {33, 34}>>,
           <<[p \in (0 .. 29) \cup {36} |-> IF p \in {0, 36} THEN 11 ELSE 7], {31}>>,
           <<Typed(33, 24 :> 0), {24}>>}}

\* What the loader refuses: memory that is taken, a missing protocol or file, a
\* file that is no kernel; and a framebuffer beyond the loader's page tables.
RefusedMachines ==
  {[TheMachine EXCEPT !.memory[p] = 6] : p \in {3, 18}}
    \cup {[TheMachine EXCEPT !.protocols = @ \ {p}] : p \in {"FileSystem", "Volume"}}
    \cup {[TheMachine EXCEPT !.kernel.names = {}], [TheMachine EXCEPT !.kernel.type = "DYN"],
          [TheMachine EXCEPT !.framebuffer = {60}]}

MCFirmwares ==
  MadtMachines \cup PowerMachines \cup RootMachines \cup RestlessMachines \cup RefusedMachines

\* The machines are such as the proofs are about.
ASSUME MCMachinesAreReal == RealMachines
=============================================================================
