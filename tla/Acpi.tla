-------------------------------- MODULE Acpi --------------------------------
(***************************************************************************)
(* kernel/acpi.c: finding the firmware's tables, reading the interrupt     *)
(* controllers from the MADT and the sleep types from the FADT and the     *)
(* DSDT, and powering the machine off with them.                           *)
(*                                                                         *)
(* A table is a record with its signature and whether its checksum is      *)
(* right; an entry of the MADT has a type and the length it claims.  Of a  *)
(* DSDT the model has the bytes, since the kernel scans them.  The RSDP is *)
(* the one the boot loader has found.                                      *)
(***************************************************************************)
EXTENDS BootLoader, Klog

CONSTANTS
  MAX_ISO,     \* room for overrides, 16 in the code
  MAX_POLLS    \* times shutdown looks for ACPI mode, 30000 in the code

ASSUME AcpiAssumption == MAX_ISO \in Nat /\ MAX_POLLS \in Nat

VARIABLES
  g_madt,      \* [present, lapic_addr, ioapic, iso]
  g_poweroff,  \* [have, pm1a, pm1b, slp_typa, slp_typb, smi_cmd]
  sd,          \* where shutdown is
  polls,
  pm1          \* the control registers: <<PM1a, PM1b>>

acpiTables == <<g_madt, g_poweroff>>
shutdownVars == <<sd, polls, pm1>>

Lowest(S) == CHOOSE k \in S : \A m \in S : k <= m

-----------------------------------------------------------------------------
(* Finding tables. *)

table_valid(table) == table # NoTable /\ table.valid

\* The tables with a signature that a root table lists.
Listed(root, signature) ==
  IF table_valid(root)
  THEN SelectSeq(root.tables, LAMBDA t : table_valid(t) /\ t.signature = signature)
  ELSE <<>>

acpi_find_table(rsdt, xsdt, signature) ==
  LET found == Listed(xsdt, signature) \o Listed(rsdt, signature)
  IN  IF found = <<>> THEN NoTable ELSE found[1]

-----------------------------------------------------------------------------
(* The MADT. *)

NoMadt ==
  [present |-> FALSE, lapic_addr |-> 0, ioapic |-> [addr |-> 0, gsi_base |-> 0],
   iso |-> <<>>]

HEADER_SIZE == 2

\* Where the entry after the k-th begins, in bytes.
EndOf(entries) ==
  LET end[k \in 0 .. Len(entries)] == IF k = 0 THEN 0 ELSE end[k - 1] + entries[k].length
  IN  end

\* The entries the loop of parse_madt reads: up to the first one that is
\* shorter than its header or reaches beyond the table.
ReadEntries(madt) ==
  LET bad == {k \in 1 .. Len(madt.entries) :
                \/ madt.entries[k].length < HEADER_SIZE
                \/ EndOf(madt.entries)[k] > madt.size}
  IN  IF bad = {} THEN madt.entries ELSE SubSeq(madt.entries, 1, Lowest(bad) - 1)

\* parse_madt keeps the last I/O APIC and the first MAX_ISO overrides.
parse_madt(madt) ==
  LET ioapics == SelectSeq(ReadEntries(madt), LAMBDA e : e.type = 1 /\ e.length >= 12)
      isos == SelectSeq(ReadEntries(madt), LAMBDA e : e.type = 2 /\ e.length >= 10)
  IN  IF madt = NoTable THEN NoMadt
      ELSE [present |-> TRUE, lapic_addr |-> madt.lapic_addr,
            ioapic |-> IF ioapics = <<>> THEN NoMadt.ioapic
                       ELSE [addr |-> ioapics[Len(ioapics)].addr,
                             gsi_base |-> ioapics[Len(ioapics)].gsi_base],
            iso |-> SubSeq(isos, 1, IF Len(isos) < MAX_ISO THEN Len(isos) ELSE MAX_ISO)]

\* acpi_get_irq_override.
acpi_get_irq_override(irq, iso) ==
  LET found == {k \in 1 .. Len(iso) : iso[k].source_irq = irq}
  IN  IF found = {} THEN irq ELSE iso[Lowest(found)].gsi

-----------------------------------------------------------------------------
(* The sleep types of S5, in the bytes of the DSDT. *)

S5_NAME == <<95, 83, 53, 95>>
NAME_OP == 8
PACKAGE_OP == 18
BYTE_PREFIX == 10
WORD_PREFIX == 11
ROOT_CHAR == 92
PARENT_CHAR == 94

\* Variant of Named that takes every occurrence of the name for its definition.
AnyOccurrence(aml, i) == i > 1 /\ SubSeq(aml, i, i + 3) = S5_NAME

\* The name at i is being defined, and not only used.
Named(aml, i) ==
  /\ SubSeq(aml, i, i + 3) = S5_NAME
  /\ i > 1
  /\ \/ aml[i - 1] = NAME_OP
     \/ i > 2 /\ aml[i - 2] = NAME_OP /\ aml[i - 1] \in {ROOT_CHAR, PARENT_CHAR}

\* The integer at pos, of which one byte is kept, and the position after it.
Element(aml, pos) ==
  LET width == IF pos > Len(aml) THEN 1
               ELSE IF aml[pos] = BYTE_PREFIX THEN 2
               ELSE IF aml[pos] = WORD_PREFIX THEN 3 ELSE 1
      ok == pos + width - 1 <= Len(aml)
  IN  [ok |-> ok, next |-> pos + width,
       value |-> IF ~ok THEN 0 ELSE IF width = 1 THEN aml[pos] ELSE aml[pos + 1]]

\* The first two elements of the package that follows the name at i.
PackageAt(aml, i) ==
  LET follow == aml[i + 5] \div 64
      a == Element(aml, i + 7 + follow)
      b == Element(aml, a.next)
  IN  [ok |-> aml[i + 4] = PACKAGE_OP /\ a.ok /\ b.ok, typa |-> a.value, typb |-> b.value]

aml_extract_s5_types(aml) ==
  LET at == {i \in 1 .. Len(aml) - 7 : Named(aml, i) /\ PackageAt(aml, i).ok}
  IN  IF at = {} THEN [ok |-> FALSE, typa |-> 0, typb |-> 0]
      ELSE PackageAt(aml, Lowest(at))

-----------------------------------------------------------------------------
(* acpi_init. *)

NoPoweroff ==
  [have |-> FALSE, pm1a |-> FALSE, pm1b |-> FALSE, slp_typa |-> 0, slp_typb |-> 0,
   smi |-> FALSE]

MIN_FADT_LENGTH == 90

\* parse_fadt_poweroff.  pm1a and pm1b say whether the register exists, smi
\* whether there are a command port and a value to enable ACPI mode with.
parse_fadt_poweroff(fadt) ==
  IF ~table_valid(fadt) \/ fadt.length < MIN_FADT_LENGTH THEN NoPoweroff
  ELSE LET s5 == IF table_valid(fadt.dsdt) THEN aml_extract_s5_types(fadt.dsdt.aml)
                 ELSE [ok |-> FALSE, typa |-> 0, typb |-> 0]
       IN  [have |-> s5.ok /\ fadt.pm1a, pm1a |-> fadt.pm1a, pm1b |-> fadt.pm1b,
            slp_typa |-> s5.typa, slp_typb |-> s5.typb,
            smi |-> fadt.smi_cmd /\ fadt.acpi_enable]

RSDP_V2_LENGTH == 36

\* What acpi_init logs.
list_tables(rsdt, xsdt) ==
  LET root == IF table_valid(xsdt) THEN xsdt ELSE rsdt
      valid == SelectSeq(root.tables, table_valid)
  IN  IF ~table_valid(root) THEN <<>>
      ELSE <<Info("tables")>> \o [k \in DOMAIN valid |-> Info(valid[k].signature)]

EntryLines(entry) ==
  CASE entry.type = 0 /\ entry.length >= 8 -> <<Info("CPU")>>
    [] entry.type = 1 /\ entry.length >= 12 -> <<Info("IOAPIC"), Info("GSI base")>>
    [] entry.type = 2 /\ entry.length >= 10 -> <<Info("IRQ"), Info("GSI"), Info("flags")>>
    [] OTHER -> <<>>

MadtLines(madt) ==
  IF madt = NoTable THEN <<Warn("no MADT")>>
  ELSE LET read == ReadEntries(madt)
           lines[k \in 0 .. Len(read)] ==
             IF k = 0 THEN <<Info("MADT"), Info("LAPIC")>>
             ELSE lines[k - 1] \o EntryLines(read[k])
       IN  lines[Len(read)]

FadtLine(fadt) ==
  IF ~table_valid(fadt) THEN Warn("no FADT")
  ELSE IF fadt.length < MIN_FADT_LENGTH THEN Warn("FADT too small")
  ELSE IF ~table_valid(fadt.dsdt) THEN Warn("DSDT invalid")
  ELSE IF ~aml_extract_s5_types(fadt.dsdt.aml).ok THEN Warn("no S5")
  ELSE IF ~fadt.pm1a THEN Warn("no PM1a") ELSE Info("poweroff ready")

RsdpLine(rsdp) ==
  IF rsdp = NoTable THEN Warn("no RSDP")
  ELSE IF ~rsdp.signature_ok THEN Error("RSDP signature") ELSE Error("RSDP checksum")

Trusted(rsdp) == rsdp # NoTable /\ rsdp.signature_ok /\ rsdp.checksum_ok

Extended(rsdp) == rsdp.revision >= 2 /\ rsdp.length >= RSDP_V2_LENGTH /\ rsdp.extended_ok

Xsdt(rsdp) == IF Extended(rsdp) THEN firmware.xsdt ELSE NoTable

Find(rsdp, signature) == acpi_find_table(firmware.rsdt, Xsdt(rsdp), signature)

AcpiLines(rsdp) ==
  IF Trusted(rsdp)
  THEN <<Info(IF Extended(rsdp) THEN "XSDT available" ELSE "RSDT available")>>
         \o list_tables(firmware.rsdt, Xsdt(rsdp))
         \o MadtLines(Find(rsdp, "APIC")) \o <<FadtLine(Find(rsdp, "FACP"))>>
  ELSE <<RsdpLine(rsdp)>>

acpi_init ==
  LET rsdp == bootInfo.rsdp
  IN  /\ g_madt' = IF Trusted(rsdp) THEN parse_madt(Find(rsdp, "APIC")) ELSE NoMadt
      /\ g_poweroff' = IF Trusted(rsdp) THEN parse_fadt_poweroff(Find(rsdp, "FACP"))
                       ELSE NoPoweroff
      /\ klog_lines(AcpiLines(rsdp))
      /\ UNCHANGED shutdownVars

AcpiInit ==
  /\ g_madt = NoMadt
  /\ g_poweroff = NoPoweroff
  /\ sd = "no"
  /\ polls = 0
  /\ pm1 \in {<<[sci_en |-> on, slp_typ |-> 0, slp_en |-> FALSE],
                [sci_en |-> on, slp_typ |-> 0, slp_en |-> FALSE]>> : on \in BOOLEAN}

-----------------------------------------------------------------------------
(* shutdown, with interrupts disabled from its first instruction. *)

AcpiMode == pm1[1].sci_en

\* Variant of ShutdownBegins that does not wait for an answer.
ShutdownBeginsHastily ==
  /\ sd = "no"
  /\ sd' = IF g_poweroff.have THEN "write_a" ELSE "halt"
  /\ UNCHANGED <<acpiTables, polls, pm1>>

\* ACPI mode is asked for where the firmware still has the machine.
ShutdownBegins ==
  /\ sd = "no"
  /\ sd' = IF ~g_poweroff.have THEN "halt"
           ELSE IF ~AcpiMode /\ g_poweroff.smi THEN "poll" ELSE "write_a"
  /\ UNCHANGED <<acpiTables, polls, pm1>>

\* Variant of Poll that waits for the answer however long it takes.
PollForever ==
  /\ sd = "poll" /\ AcpiMode
  /\ sd' = "write_a"
  /\ UNCHANGED <<acpiTables, polls, pm1>>

Poll ==
  /\ sd = "poll"
  /\ IF AcpiMode \/ polls = MAX_POLLS
     THEN sd' = "write_a" /\ UNCHANGED polls
     ELSE polls' = polls + 1 /\ UNCHANGED sd
  /\ UNCHANGED <<acpiTables, pm1>>

\* The firmware answers the request, in time or late or never.
AcpiModeComesOn ==
  /\ sd # "no" /\ g_poweroff.have /\ g_poweroff.smi /\ ~AcpiMode
  /\ pm1' = [pm1 EXCEPT ![1].sci_en = TRUE]
  /\ UNCHANGED <<acpiTables, sd, polls>>

Sleep(r, typ) == [pm1 EXCEPT ![r].slp_typ = typ % 8, ![r].slp_en = TRUE]

WriteA ==
  /\ sd = "write_a"
  /\ pm1' = Sleep(1, g_poweroff.slp_typa)
  /\ sd' = IF g_poweroff.pm1b THEN "write_b" ELSE "halt"
  /\ UNCHANGED <<acpiTables, polls>>

\* The writes to three fixed ports of virtual machines that shutdown makes
\* after this are left out: no register of pm1 is at one of them.
WriteB ==
  /\ sd = "write_b"
  /\ pm1' = Sleep(2, g_poweroff.slp_typb)
  /\ sd' = "halt"
  /\ UNCHANGED <<acpiTables, polls>>

shutdown == ShutdownBegins \/ Poll \/ WriteA \/ WriteB

-----------------------------------------------------------------------------
(* Properties. *)

\* Where the kernel has found a way to power off, every control register
\* that exists is told to sleep with the type that the machine's S5 package
\* has for it, however the DSDT encodes it and whatever else mentions S5.
S5TypesWritten ==
  sd = "halt" /\ g_poweroff.have =>
    \A r \in {1} \cup (IF g_poweroff.pm1b THEN {2} ELSE {}) :
      pm1[r].slp_en /\ pm1[r].slp_typ = firmware.s5[r]

\* A machine that has an ACPI mode to switch on is told to sleep only in
\* that mode, or after it has let every look at it pass unanswered.
SleepsInAcpiMode ==
  pm1[1].slp_en /\ g_poweroff.smi => AcpiMode \/ polls = MAX_POLLS

\* shutdown comes to its end even if the firmware never answers.
ShutdownEnds == sd # "no" ~> sd = "halt"
=============================================================================
