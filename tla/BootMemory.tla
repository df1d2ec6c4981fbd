----------------------------- MODULE BootMemory -----------------------------
(***************************************************************************)
(* init_memory of kernel/kernel.c: the kernel's page tables                *)
(* (kernel/paging.c), the page bitmap (kernel/pmm.c), the first region of  *)
(* the heap (kernel/kmalloc.c) and the shadow buffer of the display, all   *)
(* placed with what the boot loader has handed over.                       *)
(*                                                                         *)
(* The kernel puts its tables and the bitmap behind its image without      *)
(* asking the memory map.  Until it loads them it runs on the tables of    *)
(* the loader.                                                             *)
(***************************************************************************)
EXTENDS BootLoader

CONSTANTS
  KERNEL_PHYS_BASE,   \* first page of the kernel, 0x100 in the code
  LOW_PAGES,          \* pages never used, 16 in the code
  PDE_PAGES,          \* pages an entry of a page directory maps, 512 in the code
  PD_PAGES,           \* pages a page directory maps, 512 * 512 in the code
  LOADER_PDS,         \* page directories of the loader, at most 28 in the code
  IDENTITY_MIN,       \* pages mapped at least, those of 4 GiB in the code
  BITMAP_PAGE_BITS,   \* pages a page of the bitmap stands for, 32768 in the code
  HEAP_PAGES,         \* pages of the first heap region, 2 in the code
  TEST_PAGES          \* pages the smoke tests hold at once, 6 in the code

ASSUME MemoryAssumption ==
  /\ {KERNEL_PHYS_BASE, LOW_PAGES, LOADER_PDS, IDENTITY_MIN, TEST_PAGES} \subseteq Nat
  /\ {PDE_PAGES, PD_PAGES, BITMAP_PAGE_BITS, HEAP_PAGES} \subseteq Nat \ {0}

VARIABLES
  kpc,           \* next step of init_memory, "ready" after the last
  arena,         \* pages of the kernel's page tables
  mapped,        \* pages of the identity mapping
  bitmap_pages,  \* pages the bitmap occupies
  bitmap,        \* pages marked used
  heap, shadow   \* pages of the heap and of the shadow buffer

memoryVars == <<kpc, arena, mapped, bitmap_pages, bitmap, heap, shadow>>

MemoryInit ==
  /\ kpc = "paging_init"
  /\ arena = {} /\ mapped = {} /\ bitmap_pages = {} /\ bitmap = {}
  /\ heap = {} /\ shadow = {}

RoundUp(n, unit) == ((n + unit - 1) \div unit) * unit

KernelImage ==
  UNION {SegmentPages(k) : k \in {j \in 1 .. Len(firmware.kernel.segments) : IsLoad(j)}}

FramebufferEnd == Max(bootInfo.framebuffer) + 1

\* What the kernel takes for its physical end: the virtual end has the
\* physical base in it already.
kernel_end_phys == Max(KernelImage) + 1 + KERNEL_PHYS_BASE

-----------------------------------------------------------------------------
(* paging_init. *)

\* The identity mapping of the loader: up to the framebuffer, rounded up, and
\* one page directory more, if there are enough.
LoaderMaps ==
  LET wanted == RoundUp(FramebufferEnd, PD_PAGES) \div PD_PAGES + 1
  IN  0 .. (IF wanted > LOADER_PDS THEN LOADER_PDS ELSE wanted) * PD_PAGES - 1

\* What kernel_main and paging_init touch while they run on those tables.
Touched(tables) ==
  bootInfo.pages \cup bootInfo.framebuffer \cup tables

max_memory ==
  RoundUp(Max({TopOf(Conventional(bootInfo.memory_map)), FramebufferEnd, IDENTITY_MIN}),
          PDE_PAGES)

\* Two tables at the top, a directory for each part of the identity mapping,
\* and two tables for the higher half.
TablePages ==
  kernel_end_phys .. kernel_end_phys + 3 + RoundUp(max_memory, PD_PAGES) \div PD_PAGES

paging_init ==
  /\ kpc = "paging_init"
  /\ IF Touched(TablePages) \subseteq LoaderMaps
     THEN /\ arena' = TablePages
          /\ mapped' = 0 .. max_memory - 1
          /\ kpc' = "pmm_init"
     ELSE kpc' = "fault" /\ UNCHANGED <<arena, mapped>>
  /\ UNCHANGED <<loaderVars, bitmap_pages, bitmap, heap, shadow>>

-----------------------------------------------------------------------------
(* pmm_init and the first allocations. *)

\* reserve_range of a page's length, from the middle of a page on.
RsdpPages ==
  IF bootInfo.rsdp = NoTable THEN {0} ELSE {bootInfo.rsdp.page, bootInfo.rsdp.page + 1}

\* Variant of ReservedAtBoot without the bitmap.
ReservedButBitmap(bits) ==
  (KERNEL_PHYS_BASE .. kernel_end_phys - 1) \cup arena \cup (0 .. LOW_PAGES - 1)
    \cup bootInfo.framebuffer \cup RsdpPages

\* What pmm_init reserves besides the protected descriptors.
ReservedAtBoot(bits) ==
  (KERNEL_PHYS_BASE .. kernel_end_phys - 1) \cup arena \cup bits \cup (0 .. LOW_PAGES - 1)
    \cup bootInfo.framebuffer \cup RsdpPages

\* The bitmap lies behind the tables.
BitmapPages ==
  LET arena_end == Max(arena) + 1
      bits == RoundUp(TopOf(bootInfo.memory_map), BITMAP_PAGE_BITS)
  IN  arena_end .. arena_end + bits \div BITMAP_PAGE_BITS - 1

TotalPages == 0 .. TopOf(bootInfo.memory_map) - 1

pmm_init ==
  /\ kpc = "pmm_init"
  /\ bitmap_pages' = BitmapPages
  /\ bitmap' = BitmapOf(bootInfo.memory_map, TotalPages, ReservedAtBoot(bitmap_pages'))
  /\ kpc' = "kmalloc_init"
  /\ UNCHANGED <<loaderVars, arena, mapped, heap, shadow>>

\* The runs pmm_alloc_pages may return: the first that is free.
FirstRun(count) ==
  LET total_pages == TopOf(bootInfo.memory_map)
      free == {p \in 1 .. total_pages - count : (p .. p + count - 1) \cap bitmap = {}}
  IN  IF free = {} THEN {} ELSE Min(free) .. Min(free) + count - 1

\* A failed kassert is a panic.
kmalloc_init ==
  /\ kpc = "kmalloc_init"
  /\ heap' = FirstRun(HEAP_PAGES)
  /\ bitmap' = bitmap \cup heap'
  /\ kpc' = IF heap' = {} THEN "panic" ELSE "shadow"
  /\ UNCHANGED <<loaderVars, arena, mapped, bitmap_pages, shadow>>

AllocateShadow ==
  /\ kpc = "shadow"
  /\ shadow' = FirstRun(Cardinality(bootInfo.framebuffer))
  /\ bitmap' = bitmap \cup shadow'
  /\ kpc' = IF shadow' = {} THEN "panic" ELSE "tests"
  /\ UNCHANGED <<loaderVars, arena, mapped, bitmap_pages, heap>>

\* run_memory_smoke_tests and run_heap_smoke_tests give back what they take,
\* unless memory runs out: then a kassert fails.
SmokeTests ==
  /\ kpc = "tests"
  /\ kpc' = IF Cardinality(TotalPages \ bitmap) < TEST_PAGES THEN "panic" ELSE "ready"
  /\ UNCHANGED <<loaderVars, arena, mapped, bitmap_pages, bitmap, heap, shadow>>

init_memory ==
  lpc = "kernel" /\ (paging_init \/ pmm_init \/ kmalloc_init \/ AllocateShadow)

-----------------------------------------------------------------------------
(* Properties. *)

\* The memory map the kernel is started with is the one that was in force when
\* boot services ended, although the firmware may change memory between
\* GetMemoryMap and ExitBootServices, or while the loader makes room for it.
HandoverIsCurrent ==
  lpc = "kernel" => ~services /\ bootInfo.memory_map = Descriptors

\* A machine on which nothing stands in the way of booting.
Sound ==
  /\ KernelOpens
  /\ \A p \in KernelImage \cup (PT_BASE .. PT_BASE + PT_PAGES - 1) :
       firmware.memory[p] = EFI_CONVENTIONAL_MEMORY
  /\ Max(DOMAIN firmware.memory \cup firmware.framebuffer) < LOADER_PDS * PD_PAGES

\* "CRITICAL - nothing between GetMemoryMap and ExitBootServices": one change of
\* memory after the room for the map was measured is survived.  The second
\* attempt of the loop, the spare descriptors and the mapping of the loader
\* suffice to bring a machine into the kernel, and its memory up, if it is
\* Sound (the loader's own pages free, all memory and the framebuffer below the
\* end of what the loader maps) and has the pages the kernel asks for.
OneChangeIsSurvived ==
  lpc = "hang" \/ kpc \in {"fault", "panic"} => ~Sound \/ changes - measured >= 2

\* Pages something still needs, each kind apart.
Owners ==
  <<KernelImage, arena, bitmap_pages, bootInfo.pages,
    bootInfo.framebuffer, UNION {Covers(d) : d \in Protected(bootInfo.memory_map)},
    heap, shadow>>

\* Once init_memory is done, no two of these share a page, although tables and
\* bitmap are placed without looking at the map; no page of theirs can be
\* allocated; and every page that can is in the identity mapping, through which
\* the kernel writes to it.
KernelMemoryKept ==
  lpc = "kernel" /\ kpc = "ready" =>
    LET free == (0 .. TopOf(bootInfo.memory_map) - 1) \ bitmap
        owners == Owners
    IN  /\ \A j, k \in DOMAIN owners : j < k => owners[j] \cap owners[k] = {}
        /\ \A k \in DOMAIN owners : free \cap owners[k] = {}
        /\ free \cup bootInfo.framebuffer \cup shadow \cup heap \subseteq mapped

-----------------------------------------------------------------------------
(* The invariant of efi_main behind HandoverIsCurrent: keys only grow, so a *)
(* map whose key is still that of the present one has not gone stale.       *)
LoaderOK ==
  /\ key \in Nat /\ map_key \in Nat /\ map_key <= key
  /\ "memory_map" \in DOMAIN bootInfo
  /\ services = (lpc # "kernel")
  /\ lpc = "kernel" => map_key = key
  /\ lpc \in {"exit", "kernel"} /\ map_key = key => bootInfo.memory_map = Descriptors

-----------------------------------------------------------------------------
(* KernelMemoryKept for every machine. *)

\* A machine with a memory and a framebuffer of finitely many pages, a
\* framebuffer the firmware describes, if at all, neither as memory that it
\* hands out nor as memory of its own, and a kernel of at least a page.
RealMachine(f) ==
  /\ \E top \in DOMAIN f.memory \cup f.framebuffer :
       DOMAIN f.memory \cup f.framebuffer \subseteq 0 .. top
  /\ f.framebuffer # {} /\ Cardinality(f.framebuffer) \in Nat
  /\ \A p \in f.framebuffer \cap DOMAIN f.memory :
       f.memory[p] \notin {EfiLoaderData, EfiBootServicesData, EFI_CONVENTIONAL_MEMORY,
                           5, 6, 9, 10, 11}
  /\ LET segments == f.kernel.segments
     IN  /\ Len(segments) \in Nat
         /\ \A k \in 1 .. Len(segments) : {segments[k].paddr, segments[k].pages} \subseteq Nat
         /\ \E k \in 1 .. Len(segments) : segments[k].type = "LOAD" /\ segments[k].pages > 0

RealMachines == \A f \in Firmwares : RealMachine(f)

ConventionalPages(m) == UNION {Covers(d) : d \in Conventional(m)}
ProtectedPages(m) == UNION {Covers(d) : d \in Protected(m)}

\* There is free memory behind the kernel where it puts its tables and bitmap.
PlacedOnFreeMemory ==
  arena \cup bitmap_pages \subseteq ConventionalPages(bootInfo.memory_map)

\* The segments the loop is through with.
LoadedPages ==
  UNION {SegmentPages(k) : k \in {j \in 1 .. Len(firmware.kernel.segments) :
                                    j < segment /\ IsLoad(j)}}

OfLoader(pages) == \A p \in pages : p \in DOMAIN memory /\ memory[p] = EfiLoaderData

\* What the loader has allocated stays the loader's, and nothing twice.
AllocationsOK ==
  /\ firmware \in Firmwares /\ segment \in Nat
  /\ DOMAIN memory = DOMAIN firmware.memory
  /\ DOMAIN bootInfo = {"framebuffer", "rsdp", "memory_map", "pages"}
  /\ OfLoader(pool) /\ OfLoader(bootInfo.pages)
  /\ lpc # "hang" => OfLoader(LoadedPages) /\ LoadedPages \cap (pool \cup bootInfo.pages) = {}
  /\ \A p \in firmware.framebuffer \cap DOMAIN memory : memory[p] = firmware.memory[p]
  /\ lpc \in {"measure", "room", "get_map", "exit", "kernel"} =>
       segment > Len(firmware.kernel.segments) /\ bootInfo.framebuffer = firmware.framebuffer

BootBitmap == BitmapOf(bootInfo.memory_map, TotalPages, ReservedAtBoot(bitmap_pages))

\* Pages pmm_alloc_pages has handed out.
Granted(pages) == pages \subseteq TotalPages \cap bitmap /\ pages \cap BootBitmap = {}

\* The steps of init_memory build on each other.
InitMemoryOK ==
  /\ kpc # "paging_init" => lpc = "kernel"
  /\ kpc \in {"paging_init", "pmm_init", "kmalloc_init"} => heap = {}
  /\ kpc \in {"paging_init", "pmm_init", "kmalloc_init", "shadow"} => shadow = {}
  /\ kpc \in {"pmm_init", "kmalloc_init", "shadow", "tests", "ready"} =>
       arena = TablePages /\ mapped = 0 .. max_memory - 1
  /\ kpc \in {"kmalloc_init", "shadow", "tests", "ready"} =>
       /\ bitmap_pages = BitmapPages
       /\ BootBitmap \subseteq bitmap
       /\ Granted(heap) /\ Granted(shadow) /\ heap \cap shadow = {}
=============================================================================
