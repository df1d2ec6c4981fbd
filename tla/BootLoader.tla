----------------------------- MODULE BootLoader -----------------------------
(***************************************************************************)
(* boot/bootloader.c: efi_main from its first allocation to the jump into  *)
(* the kernel.                                                             *)
(*                                                                         *)
(* Until boot services end, memory belongs to the firmware: a function     *)
(* from pages to EFI memory types, cut into descriptors on demand.  The    *)
(* loader's own allocations change it, and so may the firmware's timers at *)
(* any time; each change makes the keys of earlier maps stale.  Calls      *)
(* whose result the loader does not check are taken to succeed, so that    *)
(* memory does not run out.                                                *)
(***************************************************************************)
EXTENDS MemoryMap, Sequences

CONSTANTS
  Firmwares,     \* the machines: see the fields used here, in Acpi and in IrqRouting
  NoTable,       \* a null pointer
  PT_BASE,       \* first page of the loader's page tables, 0x600 in the code
  PT_PAGES,      \* how many there are, 32 in the code
  SPARE,         \* room for further descriptors, 8 in the code
  MaxChanges     \* bound: changes of memory by the firmware itself

ASSUME LoaderAssumption ==
  PT_BASE \in Nat /\ PT_PAGES \in Nat /\ SPARE \in Nat /\ MaxChanges \in Nat

VARIABLES
  firmware,      \* the machine
  memory,        \* pages -> EFI memory type
  key,           \* key of the present memory map
  services,      \* whether boot services run
  lpc,           \* next step of efi_main, "kernel" after the jump
  segment,       \* program header the loop handles next
  pool,          \* page of the loader's last pool allocation
  mmap_size,     \* room for descriptors
  map_key,
  attempts,
  bootInfo,      \* [framebuffer, rsdp, memory_map, pages]: pages are those of
                 \* the record and of the map
  changes,       \* changes of memory by the firmware
  measured       \* those before the room was measured

loaderVars == <<firmware, memory, key, services, lpc, segment, pool, mmap_size, map_key,
                attempts, bootInfo, changes, measured>>

EfiLoaderData == 2
EfiBootServicesData == 4

-----------------------------------------------------------------------------
(* The firmware's memory services. *)

PagesOfType(type) == {p \in DOMAIN memory : memory[p] = type}

\* The memory map: a descriptor for each longest run of pages of one type.
Descriptors ==
  LET Joined(p) == p - 1 \in DOMAIN memory /\ memory[p - 1] = memory[p]
      Ends(p) == ~(p + 1 \in DOMAIN memory /\ memory[p + 1] = memory[p])
      Last(p) == Min({q \in DOMAIN memory : q >= p /\ Ends(q)})
  IN  {[PhysicalStart |-> p, NumberOfPages |-> Last(p) - p + 1, Type |-> memory[p]] :
         p \in {q \in DOMAIN memory : ~Joined(q)}}

Claim(pages, type) ==
  /\ memory' = [p \in DOMAIN memory |-> IF p \in pages THEN type ELSE memory[p]]
  /\ key' = key + 1

\* AllocatePages at an address succeeds where all pages are free.
Available(pages) == pages \subseteq PagesOfType(EFI_CONVENTIONAL_MEMORY)

\* AllocatePool takes from the page the pool has, if the firmware has left room
\* in it, or else the highest free page.
AllocatePool ==
  \/ /\ pool # {} /\ firmware.roomy
     /\ UNCHANGED <<memory, key, pool>>
  \/ /\ pool = {} \/ ~firmware.roomy
     /\ PagesOfType(EFI_CONVENTIONAL_MEMORY) # {}
     /\ pool' = {Max(PagesOfType(EFI_CONVENTIONAL_MEMORY))}
     /\ Claim(pool', EfiLoaderData)

-----------------------------------------------------------------------------
(* efi_main. *)

NoBootInfo ==
  [framebuffer |-> {}, rsdp |-> NoTable, memory_map |-> {}, pages |-> {}]

LoaderInit ==
  /\ firmware \in Firmwares
  /\ memory = firmware.memory
  /\ key = 0
  /\ services = TRUE
  /\ lpc = "tables"
  /\ segment = 1
  /\ pool = {}
  /\ mmap_size = 0
  /\ map_key = 0
  /\ attempts = 0
  /\ bootInfo = NoBootInfo
  /\ changes = 0
  /\ measured = 0

\* Every error is reported and ends in an endless loop.
Hang == lpc' = "hang"

AllocateTables ==
  /\ lpc = "tables"
  /\ LET pages == PT_BASE .. PT_BASE + PT_PAGES - 1
     IN  IF Available(pages)
         THEN Claim(pages, EfiLoaderData) /\ lpc' = "open"
         ELSE Hang /\ UNCHANGED <<memory, key>>
  /\ UNCHANGED <<firmware, services, segment, pool, mmap_size, map_key, attempts, bootInfo,
                 changes, measured>>

\* The protocols, the volume, the file under one of three names, its header.
KernelOpens ==
  LET file == firmware.kernel
  IN  /\ {"LoadedImage", "FileSystem", "Volume"} \subseteq firmware.protocols
      /\ file.names \cap {"kernel.elf", "KERNEL.ELF", "\\kernel.elf"} # {}
      /\ file.magic = "ELF" /\ file.machine = "x86_64" /\ file.type = "EXEC"

\* The program headers are read into memory from the pool.
OpenKernel ==
  /\ lpc = "open"
  /\ IF KernelOpens
     THEN AllocatePool /\ lpc' = "segments"
     ELSE Hang /\ UNCHANGED <<memory, key, pool>>
  /\ UNCHANGED <<firmware, services, segment, mmap_size, map_key, attempts, bootInfo,
                 changes, measured>>

IsLoad(k) == firmware.kernel.segments[k].type = "LOAD"

SegmentPages(k) ==
  LET ph == firmware.kernel.segments[k]
  IN  ph.paddr .. ph.paddr + ph.pages - 1

\* One program header; a segment is loaded at its own physical address.
LoadSegment ==
  /\ lpc = "segments" /\ segment <= Len(firmware.kernel.segments)
  /\ LET pages == SegmentPages(segment)
     IN  \/ ~IsLoad(segment) /\ UNCHANGED <<memory, key, lpc>>
         \/ IsLoad(segment) /\ Available(pages)
              /\ Claim(pages, EfiLoaderData) /\ UNCHANGED lpc
         \/ IsLoad(segment) /\ ~Available(pages)
              /\ Hang /\ UNCHANGED <<memory, key>>
  /\ segment' = segment + 1
  /\ UNCHANGED <<firmware, services, pool, mmap_size, map_key, attempts, bootInfo,
                 changes, measured>>

\* The first ACPI 2.0 table, or else the last ACPI 1.0 table.
find_rsdp(tables) ==
  LET Of(guid) == SelectSeq(tables, LAMBDA t : t.guid = guid)
  IN  IF Of("acpi20") # <<>> THEN Of("acpi20")[1].table
      ELSE IF Of("acpi10") # <<>> THEN Of("acpi10")[Len(Of("acpi10"))].table
      ELSE NoTable

\* The files are closed, the framebuffer is asked for and BootInfo filled in.
FillBootInfo ==
  /\ lpc = "segments" /\ segment > Len(firmware.kernel.segments)
  /\ AllocatePool
  /\ bootInfo' = [bootInfo EXCEPT !.framebuffer = firmware.framebuffer,
                                  !.rsdp = find_rsdp(firmware.config),
                                  !.pages = pool']
  /\ lpc' = "measure"
  /\ UNCHANGED <<firmware, services, segment, mmap_size, map_key, attempts,
                 changes, measured>>

\* Variant of MeasureMap that leaves no room for further descriptors.
MeasureMapExactly ==
  /\ lpc = "measure"
  /\ mmap_size' = Cardinality(Descriptors)
  /\ measured' = changes
  /\ lpc' = "room"
  /\ UNCHANGED <<firmware, memory, key, services, segment, pool, map_key, attempts, bootInfo,
                 changes>>

\* The page tables are filled in and the size of the map is asked for.
MeasureMap ==
  /\ lpc = "measure"
  /\ mmap_size' = Cardinality(Descriptors) + SPARE
  /\ measured' = changes
  /\ lpc' = "room"
  /\ UNCHANGED <<firmware, memory, key, services, segment, pool, map_key, attempts, bootInfo,
                 changes>>

AllocateMap ==
  /\ lpc = "room"
  /\ AllocatePool
  /\ bootInfo' = [bootInfo EXCEPT !.pages = @ \cup pool']
  /\ lpc' = "get_map"
  /\ UNCHANGED <<firmware, services, segment, mmap_size, map_key, attempts,
                 changes, measured>>

\* GetMemoryMap in the loop.
GetMap ==
  /\ lpc = "get_map"
  /\ IF Cardinality(Descriptors) <= mmap_size
     THEN /\ bootInfo' = [bootInfo EXCEPT !.memory_map = Descriptors]
          /\ map_key' = key
          /\ lpc' = "exit"
     ELSE Hang /\ UNCHANGED <<bootInfo, map_key>>
  /\ UNCHANGED <<firmware, memory, key, services, segment, pool, mmap_size, attempts,
                 changes, measured>>

\* Variant of ExitBoot that goes on after the last attempt.
ExitBootRegardless ==
  /\ lpc = "exit"
  /\ services' = (map_key # key)
  /\ attempts' = attempts + 1
  /\ lpc' = IF map_key = key \/ attempts' = 2 THEN "kernel" ELSE "get_map"
  /\ UNCHANGED <<firmware, memory, key, segment, pool, mmap_size, map_key, bootInfo,
                 changes, measured>>

\* ExitBootServices refuses a stale key; after two attempts the loader stops.
ExitBoot ==
  /\ lpc = "exit"
  /\ services' = (map_key # key)
  /\ attempts' = attempts + 1
  /\ lpc' = IF map_key = key THEN "kernel" ELSE IF attempts' < 2 THEN "get_map" ELSE "hang"
  /\ UNCHANGED <<firmware, memory, key, segment, pool, mmap_size, map_key, bootInfo,
                 changes, measured>>

\* A timer of the firmware takes a page for itself or gives one back.
FirmwareChanges ==
  /\ services /\ lpc # "hang" /\ firmware.restless /\ changes < MaxChanges
  /\ \/ PagesOfType(EFI_CONVENTIONAL_MEMORY) # {}
          /\ Claim({Max(PagesOfType(EFI_CONVENTIONAL_MEMORY))}, EfiBootServicesData)
     \/ \E p \in PagesOfType(EfiBootServicesData) : Claim({p}, EFI_CONVENTIONAL_MEMORY)
  /\ changes' = changes + 1
  /\ UNCHANGED <<firmware, services, lpc, segment, pool, mmap_size, map_key, attempts,
                 bootInfo, measured>>

efi_main ==
  \/ AllocateTables \/ OpenKernel \/ LoadSegment \/ FillBootInfo
  \/ MeasureMap \/ AllocateMap \/ GetMap \/ ExitBoot
  \/ FirmwareChanges
=============================================================================
