-------------------------- MODULE BootMemoryProofs --------------------------
(***************************************************************************)
(* Proofs about the boot loader and the memory of the kernel at boot, for  *)
(* every machine and every change the firmware makes to its memory:        *)
(* boot/bootloader.c, kernel/paging.c, pmm.c and kmalloc.c.                *)
(***************************************************************************)
EXTENDS Boot, WellFoundedInduction, TLAPS

-----------------------------------------------------------------------------
(* The boot loader. *)

\* Each change of memory makes the key a new one.
LEMMA ClaimAges ==
  ASSUME LoaderOK, NEW pages, NEW type, Claim(pages, type)
  PROVE  key' \in Nat /\ map_key < key'
BY DEF LoaderOK, Claim

\* AllocatePool claims a page or changes nothing.
LEMMA PoolAges ==
  ASSUME LoaderOK, AllocatePool
  PROVE  key' \in Nat /\ map_key <= key'
BY ClaimAges DEF LoaderOK, AllocatePool

\* A step before the map is read, which leaves the map and its key alone.
LEMMA EarlyStepKeeps ==
  ASSUME LoaderOK, lpc \notin {"exit", "kernel"}, lpc' \notin {"exit", "kernel"},
         services' = services, map_key' = map_key, key' \in Nat, map_key <= key',
         DOMAIN bootInfo' = DOMAIN bootInfo
  PROVE  LoaderOK'
BY DEF LoaderOK

\* Every step of efi_main, and every change by the firmware, keeps LoaderOK.
LEMMA LoaderKeeps ==
  ASSUME LoaderOK, efi_main
  PROVE  LoaderOK'
<1>1. CASE AllocateTables
  <2>1. key' \in Nat /\ map_key <= key'
    BY <1>1, ClaimAges DEF AllocateTables, LoaderOK
  <2> QED
    BY <1>1, <2>1, EarlyStepKeeps DEF AllocateTables, Hang
<1>2. CASE OpenKernel
  <2>1. key' \in Nat /\ map_key <= key'
    BY <1>2, PoolAges DEF OpenKernel, LoaderOK
  <2> QED
    BY <1>2, <2>1, EarlyStepKeeps, Zenon DEF OpenKernel, Hang
<1>3. CASE LoadSegment
  <2>1. key' \in Nat /\ map_key <= key'
    BY <1>3, ClaimAges DEF LoadSegment, LoaderOK
  <2> QED
    BY <1>3, <2>1, EarlyStepKeeps, Zenon DEF LoadSegment, Hang
<1>4. CASE FillBootInfo
  <2>1. key' \in Nat /\ map_key <= key'
    BY <1>4, PoolAges DEF FillBootInfo
  <2>2. DOMAIN bootInfo' = DOMAIN bootInfo
    BY <1>4 DEF FillBootInfo
  <2> QED
    BY <1>4, <2>1, <2>2, EarlyStepKeeps DEF FillBootInfo
<1>5. CASE MeasureMap
  BY <1>5, EarlyStepKeeps DEF MeasureMap, LoaderOK
<1>6. CASE AllocateMap
  <2>1. key' \in Nat /\ map_key <= key'
    BY <1>6, PoolAges DEF AllocateMap
  <2>2. DOMAIN bootInfo' = DOMAIN bootInfo
    BY <1>6 DEF AllocateMap
  <2> QED
    BY <1>6, <2>1, <2>2, EarlyStepKeeps DEF AllocateMap
<1>7. CASE GetMap
  <2>1. CASE Cardinality(Descriptors) <= mmap_size
    <3>1. /\ bootInfo' = [bootInfo EXCEPT !.memory_map = Descriptors]
          /\ map_key' = key /\ key' = key /\ services' = services
          /\ lpc = "get_map" /\ lpc' = "exit" /\ memory' = memory
      BY <1>7, <2>1 DEF GetMap
    <3>2. bootInfo'.memory_map = Descriptors /\ DOMAIN bootInfo' = DOMAIN bootInfo
      BY <3>1 DEF LoaderOK
    <3>3. Descriptors' = Descriptors
      BY <3>1, Zenon DEF Descriptors
    <3> QED
      BY <3>1, <3>2, <3>3 DEF LoaderOK
  <2>2. CASE ~(Cardinality(Descriptors) <= mmap_size)
    BY <1>7, <2>2, EarlyStepKeeps, Zenon DEF GetMap, Hang, LoaderOK
  <2> QED
    BY <2>1, <2>2
<1>8. CASE ExitBoot
  <2>1. Descriptors' = Descriptors
    BY <1>8 DEF ExitBoot, Descriptors
  <2>2. /\ key' = key /\ map_key' = map_key /\ bootInfo' = bootInfo
        /\ lpc = "exit" /\ services' = (map_key # key)
        /\ map_key = key => lpc' = "kernel"
        /\ map_key # key => lpc' \in {"get_map", "hang"}
    BY <1>8 DEF ExitBoot
  <2> QED
    BY <2>1, <2>2, Zenon DEF LoaderOK
<1>9. CASE FirmwareChanges
  <2>1. key' \in Nat /\ map_key < key'
    BY <1>9, ClaimAges, Zenon DEF FirmwareChanges
  <2>2. /\ services /\ services' = services /\ lpc' = lpc /\ map_key' = map_key
        /\ bootInfo' = bootInfo
    BY <1>9 DEF FirmwareChanges
  <2>3. services = (lpc # "kernel")
    BY DEF LoaderOK
  <2>4. lpc' # "kernel" /\ services' = (lpc' # "kernel")
    BY ONLY <2>2, <2>3, Zenon
  <2>5. map_key' # key' /\ map_key' <= key' /\ map_key' \in Nat
    BY <2>1, <2>2 DEF LoaderOK
  <2>6. "memory_map" \in DOMAIN bootInfo'
    BY <2>2 DEF LoaderOK
  <2> QED
    BY ONLY <2>1, <2>4, <2>5, <2>6 DEF LoaderOK
<1> QED
  BY <1>1, <1>2, <1>3, <1>4, <1>5, <1>6, <1>7, <1>8, <1>9, ZenonT(60) DEF efi_main

\* Outside the loader nothing changes what it handed over.
LEMMA LoaderLeft ==
  ASSUME LoaderOK, UNCHANGED loaderVars
  PROVE  LoaderOK'
<1>1. Descriptors' = Descriptors
  BY DEF loaderVars, Descriptors
<1> QED
  BY <1>1 DEF loaderVars, LoaderOK

\* LoaderOK holds when efi_main begins.
LEMMA LoaderStarts == LoaderInit => LoaderOK
<1> SUFFICES ASSUME LoaderInit PROVE LoaderOK
  OBVIOUS
<1>1. "memory_map" \in DOMAIN bootInfo
  BY DEF LoaderInit, NoBootInfo
<1>2. services = (lpc # "kernel")
  BY Zenon DEF LoaderInit
<1>3. key = 0 /\ map_key = 0 /\ lpc = "tables"
  BY DEF LoaderInit
<1> QED
  BY ONLY <1>1, <1>2, <1>3 DEF LoaderOK

\* The steps of the kernel leave the loader's variables alone.
LEMMA KernelLeavesLoader ==
  ASSUME \/ KernelStarts \/ KernelMemory \/ KernelRuns \/ UNCHANGED vars
  PROVE  UNCHANGED loaderVars
<1>1. CASE KernelMemory
  BY <1>1, Zenon DEF KernelMemory, init_memory, paging_init, pmm_init, kmalloc_init,
       AllocateShadow,
       SmokeTests
<1> QED
  BY <1>1 DEF KernelStarts, KernelRuns, vars

\* ExitBootServices accepts only the key of the map that is in force: the
\* kernel starts with that map, whatever the firmware changed before.
THEOREM HandoverHolds == Spec => []HandoverIsCurrent
<1>1. Init => LoaderOK
  BY LoaderStarts DEF Init
<1>2. LoaderOK /\ [Next]_vars => LoaderOK'
  BY LoaderKeeps, LoaderLeft, KernelLeavesLoader DEF Next, Loader
<1>3. LoaderOK => HandoverIsCurrent
  BY Zenon DEF LoaderOK, HandoverIsCurrent
<1> QED
  BY <1>1, <1>2, <1>3, PTL DEF Spec

-----------------------------------------------------------------------------
(* The kernel's memory. *)

\* A non-empty set of naturals has a least element.
LEMMA LeastNatural ==
  ASSUME NEW S, S \subseteq Nat, S # {}
  PROVE  \E x \in S : \A y \in S : x <= y
<1>1. PICK R : R = OpToRel(<, Nat)
  BY Zenon
<1>2. IsWellFoundedOn(R, Nat)
  BY <1>1, NatLessThanWellFounded, Zenon
<1>3. PICK x \in S : \A y \in S : <<y, x>> \notin R
  BY ONLY <1>2, S \subseteq Nat, S # {}, WFMin, Zenon
<1>4. \A a, b \in Nat : b < a => <<b, a>> \in R
  BY <1>1 DEF OpToRel
<1>5. \A y \in S : ~(y < x)
  BY ONLY <1>3, <1>4, S \subseteq Nat, x \in S, Zenon
<1> QED BY <1>5

\* A set of numbers that is not empty and ends somewhere has a greatest one.
LEMMA MaxOf ==
  ASSUME NEW S, S # {}, NEW top \in Nat, S \subseteq 0 .. top
  PROVE  Max(S) \in S /\ \A y \in S : Max(S) >= y
<1>1. PICK D : D = {i \in Nat : top - i \in S}
  BY Zenon
<1>2. PICK s \in S : TRUE
  BY Zenon
<1>3. D # {} /\ D \subseteq Nat
  <2>1. top - s \in Nat /\ top - (top - s) = s
    BY <1>2
  <2> QED BY <1>1, <1>2, <2>1
<1>4. PICK i \in D : \A j \in D : i <= j
  BY <1>3, LeastNatural, Zenon
<1>5. PICK m : m = top - i
  BY Zenon
<1>6. m \in S
  BY <1>1, <1>5, Zenon
<1>7. \A y \in S : m >= y
  <2> SUFFICES ASSUME NEW y \in S PROVE m >= y
    OBVIOUS
  <2>1. top - y \in Nat /\ top - (top - y) = y /\ y \in Nat
    OBVIOUS
  <2>2. top - y \in D
    BY <1>1, <2>1
  <2>3. i <= top - y /\ i \in Nat
    BY <1>3, <1>4, <2>2
  <2> QED BY ONLY <1>5, <2>1, <2>3, top \in Nat
<1> QED BY ONLY <1>6, <1>7, Zenon DEF Max

\* A set of numbers that is not empty has a least one.
LEMMA MinOf ==
  ASSUME NEW S, S # {}, S \subseteq Nat
  PROVE  Min(S) \in S /\ \A y \in S : Min(S) <= y
<1>1. PICK i \in S : \A j \in S : i <= j
  BY LeastNatural, Zenon
<1> QED BY ONLY <1>1, Zenon DEF Min

\* RoundUp does not make a number smaller, and its result is a number.
LEMMA RoundedUp ==
  ASSUME NEW n \in Nat, NEW unit \in Nat \ {0}
  PROVE  RoundUp(n, unit) \in Nat /\ RoundUp(n, unit) >= n
         /\ RoundUp(n, unit) \div unit \in Nat
<1>1. PICK a \in Nat : a = n + unit - 1
  OBVIOUS
<1>2. PICK q : q = a \div unit
  BY Zenon
<1>3. PICK r : r = a % unit
  BY Zenon
<1>4. q \in Int /\ r \in Int /\ a = unit * q + r /\ 0 <= r /\ r < unit
  BY ONLY <1>2, <1>3, a \in Nat, unit \in Nat \ {0}
<1>5. q \in Nat
  BY ONLY <1>2, a \in Nat, unit \in Nat \ {0}
<1>6. PICK s \in Nat : s = q * unit
  BY ONLY <1>5, unit \in Nat \ {0}
<1>7. s >= n
  BY ONLY <1>1, <1>4, <1>6, n \in Nat, unit \in Nat \ {0}, a \in Nat
<1>8. s \div unit \in Nat
  BY ONLY s \in Nat, unit \in Nat \ {0}
<1> QED BY ONLY <1>1, <1>2, <1>6, <1>7, <1>8, Zenon DEF RoundUp

\* A descriptor covers pages of its own type, none of them beyond memory.
LEMMA RunOfOneType ==
  ASSUME NEW top \in Nat, DOMAIN memory \subseteq 0 .. top, NEW d \in Descriptors
  PROVE  /\ d.PhysicalStart \in Nat /\ d.NumberOfPages \in Nat
         /\ d.PhysicalStart + d.NumberOfPages \in 0 .. top + 1
         /\ \A p \in Covers(d) : p \in DOMAIN memory /\ memory[p] = d.Type
<1>1. PICK first \in DOMAIN memory :
        d = [PhysicalStart |-> first,
             NumberOfPages |->
               Min({q \in DOMAIN memory :
                      q >= first /\ ~(q + 1 \in DOMAIN memory /\ memory[q + 1] = memory[q])})
                 - first + 1,
             Type |-> memory[first]]
  BY DEF Descriptors
<1>2. PICK E : E = {q \in DOMAIN memory :
                      q >= first /\ ~(q + 1 \in DOMAIN memory /\ memory[q + 1] = memory[q])}
  BY Zenon
<1>3. PICK B : B = {i \in Nat : ~(first + i \in DOMAIN memory /\ memory[first + i] = memory[first])}
  BY Zenon
<1>4. first \in Nat /\ first <= top
  OBVIOUS
<1>5. B # {} /\ B \subseteq Nat
  <2>1. top + 1 - first \in Nat /\ first + (top + 1 - first) = top + 1
    BY <1>4
  <2>2. top + 1 \notin DOMAIN memory
    OBVIOUS
  <2> QED BY ONLY <1>3, <2>1, <2>2, Zenon
<1>6. PICK i \in B : \A j \in B : i <= j
  BY <1>5, LeastNatural, Zenon
<1>7. i \in Nat /\ i # 0
  <2>1. first + 0 = first
    BY <1>4
  <2> QED BY <1>3, <1>6, <2>1
<1>8. \A j \in Nat : j < i => first + j \in DOMAIN memory /\ memory[first + j] = memory[first]
  BY <1>3, <1>6, <1>7
<1>9. PICK q : q = first + (i - 1)
  BY Zenon
<1>10. q \in E
  <2>1. i - 1 \in Nat /\ i - 1 < i
    BY <1>7
  <2>2. q \in DOMAIN memory /\ memory[q] = memory[first]
    BY <1>8, <1>9, <2>1
  <2>3. q + 1 = first + i /\ q >= first
    BY <1>4, <1>7, <1>9
  <2>4. ~(q + 1 \in DOMAIN memory /\ memory[q + 1] = memory[q])
    BY ONLY <1>3, i \in B, <2>2, <2>3, Zenon
  <2> QED BY <1>2, <2>2, <2>3, <2>4, Zenon
<1>11. E # {} /\ E \subseteq Nat
  <2>1. E \subseteq DOMAIN memory /\ DOMAIN memory \subseteq Nat
    BY <1>2
  <2> QED BY <1>10, <2>1, Zenon
<1>12. PICK last : last = Min(E)
  BY Zenon
<1>13. last \in E /\ last <= q
  BY ONLY <1>10, <1>11, <1>12, MinOf, Zenon
<1>14. last \in Nat /\ last >= first /\ last <= top /\ last < first + i
  <2>1. last \in DOMAIN memory /\ last >= first
    BY ONLY <1>2, <1>13, Zenon
  <2> QED BY ONLY <1>4, <1>7, <1>9, <1>13, <2>1, DOMAIN memory \subseteq 0 .. top, top \in Nat
<1>15. d = [PhysicalStart |-> first, NumberOfPages |-> last - first + 1, Type |-> memory[first]]
  BY ONLY <1>1, <1>2, <1>12, Zenon
<1>16. /\ d.PhysicalStart = first /\ d.NumberOfPages = last - first + 1
       /\ d.Type = memory[first]
  BY ONLY <1>15
<1>17. last - first + 1 \in Nat /\ first + (last - first + 1) = last + 1
  BY ONLY <1>4, <1>14
<1>18. ASSUME NEW p \in first .. last PROVE p \in DOMAIN memory /\ memory[p] = memory[first]
  <2>1. PICK j \in Nat : j = p - first
    BY ONLY <1>4, <1>14, p \in first .. last
  <2>2. j < i /\ first + j = p
    BY ONLY <1>4, <1>7, <1>14, <2>1, p \in first .. last
  <2> QED BY ONLY <1>8, <2>2, j \in Nat, Zenon
<1>19. Covers(d) = first .. last
  <2>1. first + (last - first + 1) - 1 = last
    BY ONLY <1>4, <1>14
  <2> QED BY ONLY <1>16, <2>1, Zenon DEF Covers
<1>20. d.PhysicalStart + d.NumberOfPages \in 0 .. top + 1
  BY ONLY <1>4, <1>14, <1>16, <1>17, top \in Nat
<1> QED BY ONLY <1>4, <1>16, <1>17, <1>18, <1>19, <1>20, ZenonT(60)

\* A step that changes no page but free ones and those of the firmware.
TypesStay ==
  /\ DOMAIN memory' = DOMAIN memory
  /\ \A p \in DOMAIN memory :
       memory[p] \notin {EFI_CONVENTIONAL_MEMORY, EfiBootServicesData} => memory'[p] = memory[p]

\* Such is a claim of free pages or of pages of the firmware.
LEMMA ClaimTypes ==
  ASSUME NEW pages, NEW type, Claim(pages, type),
         \A p \in pages : p \in DOMAIN memory
                          /\ memory[p] \in {EFI_CONVENTIONAL_MEMORY, EfiBootServicesData}
  PROVE  TypesStay /\ \A p \in pages : p \in DOMAIN memory' /\ memory'[p] = type
BY DEF Claim, TypesStay

\* The highest free page is free.
LEMMA HighestIsFree ==
  ASSUME RealMachines, AllocationsOK, PagesOfType(EFI_CONVENTIONAL_MEMORY) # {}
  PROVE  Max(PagesOfType(EFI_CONVENTIONAL_MEMORY)) \in PagesOfType(EFI_CONVENTIONAL_MEMORY)
<1>1. PICK S : S = PagesOfType(EFI_CONVENTIONAL_MEMORY)
  BY Zenon
<1>2. PICK top \in DOMAIN firmware.memory \cup firmware.framebuffer :
        DOMAIN firmware.memory \cup firmware.framebuffer \subseteq 0 .. top
  BY Zenon DEF RealMachines, RealMachine, AllocationsOK
<1>3. top \in Nat
  <2>1. top \in 0 .. top
    BY <1>2, Zenon
  <2> QED BY <2>1
<1>4. S \subseteq 0 .. top
  BY <1>1, <1>2, Zenon DEF AllocationsOK, PagesOfType
<1>5. Max(S) \in S
  BY ONLY <1>1, <1>3, <1>4, PagesOfType(EFI_CONVENTIONAL_MEMORY) # {}, MaxOf, Zenon
<1> QED BY ONLY <1>1, <1>5, Zenon

\* A claim of the highest free page.
LEMMA HighestClaimed ==
  ASSUME RealMachines, AllocationsOK, PagesOfType(EFI_CONVENTIONAL_MEMORY) # {}, NEW type,
         Claim({Max(PagesOfType(EFI_CONVENTIONAL_MEMORY))}, type)
  PROVE  /\ TypesStay
         /\ \A p \in {Max(PagesOfType(EFI_CONVENTIONAL_MEMORY))} :
              p \in DOMAIN memory' /\ memory'[p] = type /\ memory[p] = EFI_CONVENTIONAL_MEMORY
<1>1. PICK top, X : top = Max(PagesOfType(EFI_CONVENTIONAL_MEMORY)) /\ X = {top}
  BY Zenon
<1>2. top \in DOMAIN memory /\ memory[top] = EFI_CONVENTIONAL_MEMORY
  BY <1>1, HighestIsFree, Zenon DEF PagesOfType
<1>3. Claim(X, type)
  BY <1>1, Zenon
<1>4. TypesStay /\ \A p \in X : p \in DOMAIN memory' /\ memory'[p] = type
  <2>1. \A p \in X : p \in DOMAIN memory
                     /\ memory[p] \in {EFI_CONVENTIONAL_MEMORY, EfiBootServicesData}
    BY ONLY <1>1, <1>2
  <2> QED BY ONLY <1>3, <2>1, ClaimTypes, Zenon
<1> QED BY ONLY <1>1, <1>2, <1>4, Zenon

\* The loader's own pages stay its own.
LEMMA OwnPagesStay ==
  ASSUME TypesStay, NEW pages, OfLoader(pages)
  PROVE  \A p \in pages : p \in DOMAIN memory' /\ memory'[p] = EfiLoaderData
BY DEF TypesStay, OfLoader, EfiLoaderData, EfiBootServicesData, EFI_CONVENTIONAL_MEMORY

\* AllocatePool gives the loader a page that holds no segment.
LEMMA PoolPages ==
  ASSUME RealMachines, AllocationsOK, AllocatePool, lpc # "hang"
  PROVE  /\ TypesStay
         /\ \A p \in pool' : p \in DOMAIN memory' /\ memory'[p] = EfiLoaderData
         /\ LoadedPages \cap pool' = {}
<1>1. OfLoader(pool) /\ OfLoader(LoadedPages) /\ LoadedPages \cap pool = {}
  BY Zenon DEF AllocationsOK
<1>2. CASE pool # {} /\ firmware.roomy /\ UNCHANGED <<memory, key, pool>>
  <2>1. memory' = memory /\ pool' = pool
    BY <1>2
  <2>2. TypesStay
    BY <2>1, Zenon DEF TypesStay
  <2> QED BY <1>1, <2>1, <2>2, Zenon DEF OfLoader
<1>3. CASE /\ PagesOfType(EFI_CONVENTIONAL_MEMORY) # {}
           /\ pool' = {Max(PagesOfType(EFI_CONVENTIONAL_MEMORY))}
           /\ Claim(pool', EfiLoaderData)
  <2>1. PICK X : X = {Max(PagesOfType(EFI_CONVENTIONAL_MEMORY))}
    BY Zenon
  <2>2. pool' = X /\ Claim({Max(PagesOfType(EFI_CONVENTIONAL_MEMORY))}, EfiLoaderData)
    BY <1>3, <2>1, Zenon
  <2>3. /\ TypesStay
        /\ \A p \in X : p \in DOMAIN memory' /\ memory'[p] = EfiLoaderData
                        /\ memory[p] = EFI_CONVENTIONAL_MEMORY
    BY <1>3, <2>1, <2>2, HighestClaimed, Zenon
  <2>4. EFI_CONVENTIONAL_MEMORY # EfiLoaderData
    BY DEF EFI_CONVENTIONAL_MEMORY, EfiLoaderData
  <2>5. LoadedPages \cap X = {}
    <3>1. PICK L : L = LoadedPages
      BY Zenon
    <3>2. \A p \in L : memory[p] = EfiLoaderData
      BY <1>1, <3>1, Zenon DEF OfLoader
    <3>3. L \cap X = {}
      BY ONLY <2>3, <2>4, <3>2
    <3> QED BY ONLY <3>1, <3>3, Zenon
  <2> QED BY ONLY <2>2, <2>3, <2>5, Zenon
<1> QED BY <1>2, <1>3, Zenon DEF AllocatePool

\* A step keeps AllocationsOK if what it allocates was free.
LEMMA AllocationsStay ==
  ASSUME RealMachines, AllocationsOK, TypesStay, firmware' = firmware, segment' \in Nat,
         DOMAIN bootInfo' = {"framebuffer", "rsdp", "memory_map", "pages"},
         NEW pages, pages = pool' \cup bootInfo'.pages,
         \A p \in pages : p \in DOMAIN memory' /\ memory'[p] = EfiLoaderData,
         NEW loaded, loaded = LoadedPages',
         lpc' # "hang" => /\ \A p \in loaded : p \in DOMAIN memory' /\ memory'[p] = EfiLoaderData
                          /\ loaded \cap pages = {},
         lpc' \in {"measure", "room", "get_map", "exit", "kernel"} =>
           segment' > Len(firmware.kernel.segments)
             /\ bootInfo'.framebuffer = firmware.framebuffer
  PROVE  AllocationsOK'
<1>1. \A p \in firmware.framebuffer \cap DOMAIN memory : memory[p] = firmware.memory[p]
  BY Zenon DEF AllocationsOK
<1>2. \A p \in firmware.framebuffer \cap DOMAIN firmware.memory :
         firmware.memory[p] \notin {EfiLoaderData, EfiBootServicesData, EFI_CONVENTIONAL_MEMORY,
                                    5, 6, 9, 10, 11}
  BY Zenon DEF RealMachines, RealMachine, AllocationsOK
<1>3. DOMAIN memory' = DOMAIN memory /\ DOMAIN memory = DOMAIN firmware.memory
      /\ firmware \in Firmwares
  BY Zenon DEF TypesStay, AllocationsOK
<1>4. \A p \in firmware.framebuffer \cap DOMAIN memory : memory'[p] = firmware.memory[p]
  BY ONLY <1>1, <1>2, <1>3, TypesStay DEF TypesStay
<1>5. (OfLoader(pool) /\ OfLoader(bootInfo.pages))'
  BY ONLY pages = pool' \cup bootInfo'.pages,
          \A p \in pages : p \in DOMAIN memory' /\ memory'[p] = EfiLoaderData, Zenon DEF OfLoader
<1>6. (lpc # "hang" => OfLoader(LoadedPages) /\ LoadedPages \cap (pool \cup bootInfo.pages) = {})'
  BY Zenon DEF OfLoader
<1> QED BY <1>3, <1>4, <1>5, <1>6, Zenon DEF AllocationsOK

\* A step that leaves the segments, the pool and the record's pages alone.
LEMMA NothingAllocated ==
  ASSUME RealMachines, AllocationsOK, TypesStay, UNCHANGED <<firmware, segment, pool>>,
         DOMAIN bootInfo' = DOMAIN bootInfo, bootInfo'.pages = bootInfo.pages,
         bootInfo'.framebuffer = bootInfo.framebuffer, lpc # "hang",
         lpc' \in {"measure", "room", "get_map", "exit", "kernel"} =>
           lpc \in {"measure", "room", "get_map", "exit", "kernel"}
  PROVE  AllocationsOK'
<1>1. /\ OfLoader(pool) /\ OfLoader(bootInfo.pages) /\ OfLoader(LoadedPages)
      /\ LoadedPages \cap (pool \cup bootInfo.pages) = {} /\ segment \in Nat
      /\ DOMAIN bootInfo = {"framebuffer", "rsdp", "memory_map", "pages"}
      /\ lpc \in {"measure", "room", "get_map", "exit", "kernel"} =>
           segment > Len(firmware.kernel.segments) /\ bootInfo.framebuffer = firmware.framebuffer
  BY Zenon DEF AllocationsOK
<1>2. firmware' = firmware /\ segment' = segment /\ pool' = pool
  BY Zenon
<1>3. LoadedPages' = LoadedPages
  BY <1>2, Zenon DEF LoadedPages, SegmentPages, IsLoad
<1>4. PICK L, P : L = LoadedPages /\ P = pool \cup bootInfo.pages
  BY Zenon
<1>5. OfLoader(L) /\ OfLoader(P) /\ L \cap P = {}
  BY <1>1, <1>4, Zenon DEF OfLoader
<1>6. P = pool' \cup bootInfo'.pages /\ L = LoadedPages'
  BY <1>2, <1>3, <1>4, Zenon
<1>7. /\ \A p \in L : p \in DOMAIN memory' /\ memory'[p] = EfiLoaderData
      /\ \A p \in P : p \in DOMAIN memory' /\ memory'[p] = EfiLoaderData
  BY ONLY <1>5, TypesStay, OwnPagesStay, Zenon
<1> QED BY <1>1, <1>2, <1>5, <1>6, <1>7, AllocationsStay, Zenon

\* A step that allocates from the pool and may add it to the record's pages.
LEMMA PoolAllocated ==
  ASSUME RealMachines, AllocationsOK, AllocatePool, lpc # "hang",
         UNCHANGED <<firmware, segment>>,
         DOMAIN bootInfo' = {"framebuffer", "rsdp", "memory_map", "pages"},
         bootInfo'.pages \subseteq bootInfo.pages \cup pool',
         lpc' \in {"measure", "room", "get_map", "exit", "kernel"} =>
           segment > Len(firmware.kernel.segments)
             /\ bootInfo'.framebuffer = firmware.framebuffer
  PROVE  AllocationsOK'
<1>1. /\ OfLoader(bootInfo.pages) /\ OfLoader(LoadedPages)
      /\ LoadedPages \cap (pool \cup bootInfo.pages) = {} /\ segment \in Nat
  BY Zenon DEF AllocationsOK
<1>2. firmware' = firmware /\ segment' = segment
  BY Zenon
<1>3. LoadedPages' = LoadedPages
  BY <1>2, ZenonT(60) DEF LoadedPages, SegmentPages, IsLoad
<1>4. PICK L, P, Q : L = LoadedPages /\ P = pool' \cup bootInfo'.pages /\ Q = bootInfo.pages
  BY Zenon
<1>5. OfLoader(L) /\ OfLoader(Q) /\ L \cap Q = {}
  BY <1>1, <1>4, Zenon
<1>6. /\ TypesStay /\ L \cap pool' = {}
      /\ \A p \in pool' : p \in DOMAIN memory' /\ memory'[p] = EfiLoaderData
  BY <1>4, PoolPages, Zenon
<1>7. /\ \A p \in L : p \in DOMAIN memory' /\ memory'[p] = EfiLoaderData
      /\ \A p \in Q : p \in DOMAIN memory' /\ memory'[p] = EfiLoaderData
  BY ONLY <1>5, <1>6, OwnPagesStay, Zenon
<1>8. P \subseteq Q \cup pool'
  BY <1>4, Zenon
<1>9. (\A p \in P : p \in DOMAIN memory' /\ memory'[p] = EfiLoaderData) /\ L \cap P = {}
  BY ONLY <1>5, <1>6, <1>7, <1>8, Zenon
<1>10. L = LoadedPages' /\ P = pool' \cup bootInfo'.pages
  BY <1>3, <1>4, Zenon
<1> QED BY <1>1, <1>2, <1>6, <1>7, <1>9, <1>10, AllocationsStay, Zenon

\* The loop adds the pages of a segment, which were free.
LEMMA SegmentAllocated ==
  ASSUME RealMachines, AllocationsOK, LoadSegment
  PROVE  AllocationsOK'
<1>1. /\ OfLoader(pool) /\ OfLoader(bootInfo.pages) /\ OfLoader(LoadedPages)
      /\ LoadedPages \cap (pool \cup bootInfo.pages) = {} /\ segment \in Nat
      /\ DOMAIN bootInfo = {"framebuffer", "rsdp", "memory_map", "pages"}
  <2>1. lpc # "hang"
    BY DEF LoadSegment
  <2> QED BY <2>1, Zenon DEF AllocationsOK
<1>2. /\ firmware' = firmware /\ segment' = segment + 1 /\ pool' = pool /\ bootInfo' = bootInfo
      /\ segment <= Len(firmware.kernel.segments) /\ lpc' \in {"segments", "hang"}
  BY DEF LoadSegment, Hang
<1>3. PICK L, P, S : /\ L = LoadedPages /\ P = pool \cup bootInfo.pages
                     /\ S = IF IsLoad(segment) THEN SegmentPages(segment) ELSE {}
  BY Zenon
<1>4. OfLoader(L) /\ OfLoader(P) /\ L \cap P = {}
  BY <1>1, <1>3, Zenon DEF OfLoader
<1>5. PICK M : M = LoadedPages'
  BY Zenon
<1>6. M \subseteq L \cup S
  <2>1. SUFFICES ASSUME NEW k, NEW p, k \in 1 .. Len(firmware.kernel.segments), k < segment + 1,
                        IsLoad(k), p \in SegmentPages(k)
                 PROVE  p \in L \cup S
    BY <1>2, <1>5, Zenon DEF LoadedPages, SegmentPages, IsLoad
  <2>2. k < segment \/ k = segment
    BY <1>1, <2>1
  <2>3. CASE k < segment
    BY <1>3, <2>1, <2>3, Zenon DEF LoadedPages
  <2>4. CASE k = segment
    BY <1>3, <2>1, <2>4, Zenon
  <2> QED BY <2>2, <2>3, <2>4, Zenon
<1>7. /\ TypesStay
      /\ lpc' # "hang" => \A p \in S : p \in DOMAIN memory' /\ memory'[p] = EfiLoaderData
                                       /\ memory[p] = EFI_CONVENTIONAL_MEMORY
  <2>1. CASE memory' = memory /\ (lpc' = "hang" \/ ~IsLoad(segment))
    BY <1>3, <2>1, Zenon DEF TypesStay
  <2>2. CASE IsLoad(segment) /\ Available(SegmentPages(segment))
             /\ Claim(SegmentPages(segment), EfiLoaderData)
    <3>1. S = SegmentPages(segment)
      BY <1>3, <2>2, Zenon
    <3>2. \A p \in S : p \in DOMAIN memory /\ memory[p] = EFI_CONVENTIONAL_MEMORY
      BY <2>2, <3>1, Zenon DEF Available, PagesOfType
    <3>3. \A p \in S : p \in DOMAIN memory
                       /\ memory[p] \in {EFI_CONVENTIONAL_MEMORY, EfiBootServicesData}
      BY ONLY <3>2
    <3>4. Claim(S, EfiLoaderData)
      BY <2>2, <3>1, Zenon
    <3>5. TypesStay /\ \A p \in S : p \in DOMAIN memory' /\ memory'[p] = EfiLoaderData
      BY ONLY <3>3, <3>4, ClaimTypes, Zenon
    <3> QED BY ONLY <3>2, <3>5, Zenon
  <2> QED BY <2>1, <2>2, Zenon DEF LoadSegment, Hang
<1>8. /\ \A p \in L : p \in DOMAIN memory' /\ memory'[p] = EfiLoaderData
      /\ \A p \in P : p \in DOMAIN memory' /\ memory'[p] = EfiLoaderData
  BY ONLY <1>4, <1>7, OwnPagesStay, Zenon
<1>9. EFI_CONVENTIONAL_MEMORY # EfiLoaderData
  BY DEF EFI_CONVENTIONAL_MEMORY, EfiLoaderData
<1>10. lpc' # "hang" => S \cap P = {}
  <2>1. \A p \in P : memory[p] = EfiLoaderData
    BY ONLY <1>4, Zenon DEF OfLoader
  <2> QED BY ONLY <1>7, <1>9, <2>1
<1>11. lpc' # "hang" => /\ \A p \in M : p \in DOMAIN memory' /\ memory'[p] = EfiLoaderData
                        /\ M \cap P = {}
  BY ONLY <1>4, <1>6, <1>7, <1>8, <1>10, Zenon
<1>12. P = pool' \cup bootInfo'.pages
  BY <1>2, <1>3, Zenon
<1>13. segment' \in Nat /\ DOMAIN bootInfo' = {"framebuffer", "rsdp", "memory_map", "pages"}
       /\ lpc' \notin {"measure", "room", "get_map", "exit", "kernel"}
  BY <1>1, <1>2
<1> QED BY <1>2, <1>5, <1>7, <1>8, <1>11, <1>12, <1>13, AllocationsStay, Zenon

\* Every step of efi_main, and every change by the firmware, keeps AllocationsOK.
LEMMA LoaderAllocates ==
  ASSUME RealMachines, AllocationsOK, efi_main
  PROVE  AllocationsOK'
<1>0. DOMAIN bootInfo = {"framebuffer", "rsdp", "memory_map", "pages"}
      /\ (lpc \in {"measure", "room", "get_map", "exit", "kernel"} =>
            segment > Len(firmware.kernel.segments)
              /\ bootInfo.framebuffer = firmware.framebuffer)
  BY Zenon DEF AllocationsOK
<1>1. CASE AllocateTables
  <2>1. TypesStay
    <3>1. PICK T : T = PT_BASE .. PT_BASE + PT_PAGES - 1
      BY Zenon
    <3>2. CASE memory' = memory
      BY <3>2, Zenon DEF TypesStay
    <3>3. CASE Available(T) /\ Claim(T, EfiLoaderData)
      <4>1. \A p \in T : p \in DOMAIN memory
                         /\ memory[p] \in {EFI_CONVENTIONAL_MEMORY, EfiBootServicesData}
        BY <3>3, Zenon DEF Available, PagesOfType
      <4> QED BY <3>3, <4>1, ClaimTypes, Zenon
    <3> QED BY <1>1, <3>1, <3>2, <3>3, Zenon DEF AllocateTables
  <2>2. /\ UNCHANGED <<firmware, segment, pool>> /\ bootInfo' = bootInfo
        /\ lpc # "hang" /\ lpc' \in {"open", "hang"}
    BY <1>1 DEF AllocateTables, Hang
  <2>3. lpc' \notin {"measure", "room", "get_map", "exit", "kernel"}
    BY <2>2
  <2> QED BY <2>1, <2>2, <2>3, NothingAllocated, Zenon
<1>2. CASE OpenKernel
  <2>1. /\ UNCHANGED <<firmware, segment>> /\ bootInfo' = bootInfo
        /\ lpc # "hang" /\ lpc' \in {"segments", "hang"}
    BY <1>2 DEF OpenKernel, Hang
  <2>2. lpc' \notin {"measure", "room", "get_map", "exit", "kernel"}
    BY <2>1
  <2>3. CASE AllocatePool
    <3>1. bootInfo'.pages \subseteq bootInfo.pages \cup pool'
      BY <2>1, Zenon
    <3>2. DOMAIN bootInfo' = {"framebuffer", "rsdp", "memory_map", "pages"}
      BY <1>0, <2>1, Zenon
    <3> QED BY <2>1, <2>2, <2>3, <3>1, <3>2, PoolAllocated, Zenon
  <2>4. CASE UNCHANGED <<memory, key, pool>>
    <3>1. TypesStay
      BY <2>4, Zenon DEF TypesStay
    <3>2. UNCHANGED <<firmware, segment, pool>>
      BY <2>1, <2>4
    <3> QED BY <2>1, <2>2, <3>1, <3>2, NothingAllocated, Zenon
  <2> QED BY <1>2, <2>3, <2>4, Zenon DEF OpenKernel
<1>3. CASE LoadSegment
  BY <1>3, SegmentAllocated, Zenon
<1>4. CASE FillBootInfo
  <2>1. /\ AllocatePool /\ lpc # "hang" /\ UNCHANGED <<firmware, segment>>
        /\ segment > Len(firmware.kernel.segments)
    BY <1>4 DEF FillBootInfo
  <2>2. /\ DOMAIN bootInfo' = {"framebuffer", "rsdp", "memory_map", "pages"}
        /\ bootInfo'.pages = pool' /\ bootInfo'.framebuffer = firmware.framebuffer
    <3>1. bootInfo' = [bootInfo EXCEPT !.framebuffer = firmware.framebuffer,
                                       !.rsdp = find_rsdp(firmware.config),
                                       !.pages = pool']
      BY <1>4, Zenon DEF FillBootInfo
    <3> QED BY ONLY <1>0, <3>1
  <2>3. bootInfo'.pages \subseteq bootInfo.pages \cup pool'
    BY <2>2, Zenon
  <2> QED BY <2>1, <2>2, <2>3, PoolAllocated, Zenon
<1>5. CASE AllocateMap
  <2>1. /\ AllocatePool /\ lpc = "room" /\ lpc # "hang" /\ UNCHANGED <<firmware, segment>>
    BY <1>5 DEF AllocateMap
  <2>2. /\ DOMAIN bootInfo' = {"framebuffer", "rsdp", "memory_map", "pages"}
        /\ bootInfo'.pages = bootInfo.pages \cup pool'
        /\ bootInfo'.framebuffer = bootInfo.framebuffer
    <3>1. bootInfo' = [bootInfo EXCEPT !.pages = @ \cup pool']
      BY <1>5, Zenon DEF AllocateMap
    <3> QED BY ONLY <1>0, <3>1
  <2>3. bootInfo'.pages \subseteq bootInfo.pages \cup pool'
    BY <2>2, Zenon
  <2>4. segment > Len(firmware.kernel.segments) /\ bootInfo.framebuffer = firmware.framebuffer
    BY <1>0, <2>1
  <2> QED BY <2>1, <2>2, <2>3, <2>4, PoolAllocated, Zenon
<1>6. CASE MeasureMap \/ GetMap \/ ExitBoot
  <2>1. /\ UNCHANGED <<firmware, segment, pool>> /\ memory' = memory
        /\ lpc \in {"measure", "get_map", "exit"} /\ lpc # "hang"
        /\ bootInfo' = bootInfo \/ bootInfo' = [bootInfo EXCEPT !.memory_map = Descriptors]
    BY <1>6 DEF MeasureMap, GetMap, ExitBoot
  <2>2. /\ DOMAIN bootInfo' = DOMAIN bootInfo /\ bootInfo'.pages = bootInfo.pages
        /\ bootInfo'.framebuffer = bootInfo.framebuffer
    <3>1. PICK D : D = Descriptors
      BY Zenon
    <3>2. bootInfo' = bootInfo \/ bootInfo' = [bootInfo EXCEPT !.memory_map = D]
      BY <2>1, <3>1, Zenon
    <3> QED BY ONLY <1>0, <3>2
  <2>3. TypesStay
    BY <2>1, Zenon DEF TypesStay
  <2>4. lpc \in {"measure", "room", "get_map", "exit", "kernel"}
    BY <2>1
  <2> QED BY <2>1, <2>2, <2>3, <2>4, NothingAllocated, ZenonT(60)
<1>7. CASE FirmwareChanges
  <2>1. /\ UNCHANGED <<firmware, segment, pool>> /\ bootInfo' = bootInfo /\ lpc # "hang"
        /\ lpc' = lpc
    BY <1>7, Zenon DEF FirmwareChanges
  <2>2. TypesStay
    <3>1. CASE /\ PagesOfType(EFI_CONVENTIONAL_MEMORY) # {}
               /\ Claim({Max(PagesOfType(EFI_CONVENTIONAL_MEMORY))}, EfiBootServicesData)
      BY <3>1, HighestClaimed, Zenon
    <3>2. ASSUME NEW p \in PagesOfType(EfiBootServicesData),
                 Claim({p}, EFI_CONVENTIONAL_MEMORY)
          PROVE  TypesStay
      <4>1. PICK X : X = {p}
        BY Zenon
      <4>2. Claim(X, EFI_CONVENTIONAL_MEMORY)
        BY <3>2, <4>1, Zenon
      <4>3. \A q \in X : q \in DOMAIN memory
                         /\ memory[q] \in {EFI_CONVENTIONAL_MEMORY, EfiBootServicesData}
        BY <4>1 DEF PagesOfType
      <4> QED BY ONLY <4>2, <4>3, ClaimTypes, Zenon
    <3> QED BY <1>7, <3>1, <3>2, Zenon DEF FirmwareChanges
  <2> QED BY <2>1, <2>2, NothingAllocated, Zenon
<1> QED BY <1>1, <1>2, <1>3, <1>4, <1>5, <1>6, <1>7, Zenon DEF efi_main

\* Before the loader begins it has allocated nothing.
LEMMA AllocationsStart == LoaderInit => AllocationsOK
<1> SUFFICES ASSUME LoaderInit PROVE AllocationsOK
  OBVIOUS
<1>1. /\ firmware \in Firmwares /\ memory = firmware.memory /\ segment = 1 /\ pool = {}
      /\ lpc = "tables"
  BY Zenon DEF LoaderInit
<1>2. DOMAIN bootInfo = {"framebuffer", "rsdp", "memory_map", "pages"} /\ bootInfo.pages = {}
  BY DEF LoaderInit, NoBootInfo
<1>3. LoadedPages = {}
  <2>1. {j \in 1 .. Len(firmware.kernel.segments) : j < segment /\ IsLoad(j)} = {}
    BY <1>1
  <2> QED BY <2>1, Zenon DEF LoadedPages
<1>4. segment \in Nat /\ lpc \notin {"measure", "room", "get_map", "exit", "kernel"}
  BY <1>1
<1> QED BY <1>1, <1>2, <1>3, <1>4, Zenon DEF AllocationsOK, OfLoader

\* The map the kernel has ends somewhere, and each of its parts.
LEMMA MapEnds ==
  ASSUME RealMachines, AllocationsOK, LoaderOK, lpc = "kernel",
         NEW m, m \subseteq bootInfo.memory_map
  PROVE  TopOf(m) \in Nat /\ \A d \in m : \A p \in Covers(d) : p \in Nat /\ p < TopOf(m)
<1>1. bootInfo.memory_map = Descriptors
  BY Zenon DEF LoaderOK
<1>2. PICK top \in DOMAIN firmware.memory \cup firmware.framebuffer :
        DOMAIN firmware.memory \cup firmware.framebuffer \subseteq 0 .. top
  BY Zenon DEF RealMachines, RealMachine, AllocationsOK
<1>3. top \in Nat
  <2>1. top \in 0 .. top
    BY <1>2, Zenon
  <2> QED BY <2>1
<1>4. DOMAIN memory \subseteq 0 .. top
  BY <1>2, Zenon DEF AllocationsOK
<1>5. \A d \in m : /\ d.PhysicalStart \in Nat /\ d.NumberOfPages \in Nat
                   /\ d.PhysicalStart + d.NumberOfPages \in 0 .. top + 1
  BY ONLY <1>1, <1>3, <1>4, m \subseteq bootInfo.memory_map, RunOfOneType, Zenon
<1>6. PICK S : S = {d.PhysicalStart + d.NumberOfPages : d \in m} \cup {0}
  BY Zenon
<1>7. PICK last \in Nat : last = top + 1
  BY ONLY <1>3
<1>8. S # {} /\ S \subseteq 0 .. last
  BY ONLY <1>3, <1>5, <1>6, <1>7
<1>9. PICK t : t = Max(S)
  BY Zenon
<1>10. t \in S /\ \A y \in S : t >= y
  BY ONLY <1>8, <1>9, last \in Nat, MaxOf, Zenon
<1>11. t \in Nat
  <2>1. t \in 0 .. last
    BY ONLY <1>8, <1>10, Zenon
  <2> QED BY ONLY <2>1, last \in Nat
<1>12. TopOf(m) = t
  BY ONLY <1>6, <1>9, Zenon DEF TopOf
<1>13. ASSUME NEW d \in m, NEW p \in Covers(d) PROVE p \in Nat /\ p < t
  <2>1. PICK a \in Nat, n \in Nat : a = d.PhysicalStart /\ n = d.NumberOfPages
    BY <1>5, Zenon
  <2>2. p \in a .. a + n - 1
    BY ONLY <2>1, p \in Covers(d), Zenon DEF Covers
  <2>3. a + n \in S
    BY ONLY <1>6, <2>1, d \in m, Zenon
  <2>4. t >= a + n
    BY ONLY <1>10, <2>3, Zenon
  <2> QED BY ONLY <1>11, <2>2, <2>4, a \in Nat, n \in Nat
<1> QED BY ONLY <1>11, <1>12, <1>13, Zenon

\* pmm_alloc_pages returns pages of the map that are not marked used.
LEMMA RunIsFree ==
  ASSUME TopOf(bootInfo.memory_map) \in Nat, NEW count \in Nat
  PROVE  FirstRun(count) \subseteq TotalPages /\ FirstRun(count) \cap bitmap = {}
<1>1. PICK total \in Nat : total = TopOf(bootInfo.memory_map)
  BY Zenon
<1>2. PICK F : F = {p \in 1 .. total - count : (p .. p + count - 1) \cap bitmap = {}}
  BY Zenon
<1>3. FirstRun(count) = IF F = {} THEN {} ELSE Min(F) .. Min(F) + count - 1
  BY ONLY <1>1, <1>2, Zenon DEF FirstRun
<1>4. CASE F = {}
  BY ONLY <1>3, <1>4, Zenon
<1>5. CASE F # {}
  <2>1. F \subseteq Nat
    BY ONLY <1>2, total \in Nat, count \in Nat
  <2>2. PICK f : f = Min(F)
    BY Zenon
  <2>3. f \in F
    BY ONLY <1>5, <2>1, <2>2, MinOf, Zenon
  <2>4. f \in 1 .. total - count /\ (f .. f + count - 1) \cap bitmap = {}
    BY ONLY <1>2, <2>3, Zenon
  <2>5. f .. f + count - 1 \subseteq 0 .. total - 1
    BY ONLY <2>4, total \in Nat, count \in Nat
  <2> QED BY ONLY <1>1, <1>3, <1>5, <2>2, <2>4, <2>5, Zenon DEF TotalPages
<1> QED BY <1>4, <1>5

\* A framebuffer has finitely many pages.
LEMMA FramebufferIsFinite ==
  ASSUME RealMachines, AllocationsOK, lpc = "kernel"
  PROVE  Cardinality(bootInfo.framebuffer) \in Nat
<1>1. bootInfo.framebuffer = firmware.framebuffer
  BY DEF AllocationsOK
<1>2. Cardinality(firmware.framebuffer) \in Nat
  BY Zenon DEF RealMachines, RealMachine, AllocationsOK
<1> QED BY ONLY <1>1, <1>2, Zenon

\* Where the kernel places its tables depends on what it was handed alone.
LEMMA PlacesStay ==
  ASSUME UNCHANGED loaderVars
  PROVE  /\ kernel_end_phys' = kernel_end_phys /\ max_memory' = max_memory
         /\ TablePages' = TablePages /\ TotalPages' = TotalPages /\ KernelImage' = KernelImage
         /\ arena' = arena => BitmapPages' = BitmapPages
         /\ arena' = arena /\ bitmap_pages' = bitmap_pages => BootBitmap' = BootBitmap
<1>1. firmware' = firmware /\ bootInfo' = bootInfo
  BY DEF loaderVars
<1>2. KernelImage' = KernelImage
  BY <1>1, Zenon DEF KernelImage, SegmentPages, IsLoad
<1>3. kernel_end_phys' = kernel_end_phys
  BY <1>2, Zenon DEF kernel_end_phys
<1>4. max_memory' = max_memory
  BY <1>1, Zenon DEF max_memory, FramebufferEnd
<1>5. TotalPages' = TotalPages
  BY <1>1, Zenon DEF TotalPages
<1>6. arena' = arena => BitmapPages' = BitmapPages
  BY <1>1, Zenon DEF BitmapPages
<1>7. arena' = arena /\ bitmap_pages' = bitmap_pages => BootBitmap' = BootBitmap
  BY <1>1, <1>3, <1>5, Zenon DEF BootBitmap, ReservedAtBoot, RsdpPages
<1> QED BY <1>2, <1>3, <1>4, <1>5, <1>6, <1>7, Zenon DEF TablePages

\* A step outside init_memory leaves what it has built alone.
LEMMA InitMemoryLeft ==
  ASSUME InitMemoryOK, UNCHANGED <<loaderVars, memoryVars>>
  PROVE  InitMemoryOK'
<1>1. UNCHANGED loaderVars
  BY Zenon
<1>2. /\ kpc' = kpc /\ arena' = arena /\ mapped' = mapped /\ bitmap_pages' = bitmap_pages
      /\ bitmap' = bitmap /\ heap' = heap /\ shadow' = shadow
  BY Zenon DEF memoryVars
<1>3. lpc' = lpc
  BY DEF loaderVars
<1> QED BY <1>1, <1>2, <1>3, PlacesStay, Zenon DEF InitMemoryOK, Granted

\* A run that pmm_alloc_pages returns is marked used and apart from the others.
LEMMA RunIsGranted ==
  ASSUME UNCHANGED loaderVars, TopOf(bootInfo.memory_map) \in Nat, NEW count \in Nat,
         arena' = arena, bitmap_pages' = bitmap_pages, BootBitmap \subseteq bitmap,
         NEW run, run = FirstRun(count), bitmap' = bitmap \cup run
  PROVE  /\ run \subseteq (TotalPages \cap bitmap)' /\ run \cap BootBitmap' = {}
         /\ BootBitmap' \subseteq bitmap'
         /\ \A pages : Granted(pages) =>
              /\ pages \cap run = {} /\ pages \subseteq (TotalPages \cap bitmap)'
              /\ pages \cap BootBitmap' = {}
<1>1. BootBitmap' = BootBitmap /\ TotalPages' = TotalPages
  BY PlacesStay, Zenon
<1>2. run \subseteq TotalPages /\ run \cap bitmap = {}
  BY RunIsFree, Zenon
<1>3. PICK B, T : B = BootBitmap /\ T = TotalPages
  BY Zenon
<1>4. run \subseteq T /\ run \cap bitmap = {} /\ B \subseteq bitmap
  BY <1>2, <1>3, Zenon
<1>5. /\ run \subseteq T \cap bitmap' /\ run \cap B = {} /\ B \subseteq bitmap'
      /\ \A pages : pages \subseteq T \cap bitmap /\ pages \cap B = {} =>
           pages \cap run = {} /\ pages \subseteq T \cap bitmap'
  BY ONLY <1>4, bitmap' = bitmap \cup run, Zenon
<1> QED BY ONLY <1>1, <1>3, <1>5, Zenon DEF Granted

\* Every step of init_memory keeps InitMemoryOK.
LEMMA InitMemoryKeeps ==
  ASSUME RealMachines, AllocationsOK, LoaderOK, InitMemoryOK,
         lpc = "kernel", paging_init \/ pmm_init \/ kmalloc_init \/ AllocateShadow \/ SmokeTests
  PROVE  InitMemoryOK'
<1>1. UNCHANGED loaderVars
  BY Zenon DEF paging_init, pmm_init, kmalloc_init, AllocateShadow, SmokeTests
<1>2. lpc' = "kernel"
  BY <1>1 DEF loaderVars
<1>3. TopOf(bootInfo.memory_map) \in Nat
  <2>1. bootInfo.memory_map \subseteq bootInfo.memory_map
    BY Zenon
  <2> QED BY <2>1, MapEnds, Zenon
<1>4. /\ max_memory' = max_memory /\ TablePages' = TablePages /\ TotalPages' = TotalPages
      /\ arena' = arena => BitmapPages' = BitmapPages
      /\ arena' = arena /\ bitmap_pages' = bitmap_pages => BootBitmap' = BootBitmap
  BY <1>1, PlacesStay, Zenon
<1>5. CASE paging_init
  <2>1. kpc = "paging_init" /\ heap = {} /\ shadow = {} /\ heap' = heap /\ shadow' = shadow
    BY <1>5 DEF paging_init, InitMemoryOK
  <2>2. CASE kpc' = "pmm_init" /\ arena' = TablePages /\ mapped' = 0 .. max_memory - 1
    BY ONLY <1>2, <1>4, <2>1, <2>2, Zenon DEF InitMemoryOK
  <2>3. CASE kpc' = "fault"
    BY <1>2, <2>1, <2>3, Zenon DEF InitMemoryOK
  <2> QED BY <1>5, <2>2, <2>3, Zenon DEF paging_init
<1>6. CASE pmm_init
  <2>1. /\ kpc = "pmm_init" /\ kpc' = "kmalloc_init" /\ heap = {} /\ shadow = {}
        /\ heap' = heap /\ shadow' = shadow /\ arena' = arena /\ mapped' = mapped
        /\ arena = TablePages /\ mapped = 0 .. max_memory - 1
        /\ bitmap_pages' = BitmapPages
    BY <1>6 DEF pmm_init, InitMemoryOK
  <2>2. bitmap' = BootBitmap'
    <3>1. firmware' = firmware /\ bootInfo' = bootInfo
      BY <1>1 DEF loaderVars
    <3>2. kernel_end_phys' = kernel_end_phys
      BY <1>1, PlacesStay, Zenon
    <3>3. ReservedAtBoot(bitmap_pages)' = ReservedAtBoot(bitmap_pages')
      BY <2>1, <3>1, <3>2, Zenon DEF ReservedAtBoot, RsdpPages
    <3>4. BootBitmap' = BitmapOf(bootInfo.memory_map, TotalPages, ReservedAtBoot(bitmap_pages'))
      BY <1>4, <3>1, <3>3, Zenon DEF BootBitmap
    <3> QED BY <1>6, <3>4, Zenon DEF pmm_init
  <2>3. Granted({})'
    BY Zenon DEF Granted
  <2>4. Granted(heap)' /\ Granted(shadow)' /\ (heap \cap shadow)' = {}
    BY <2>1, <2>3, Zenon
  <2>5. BootBitmap' \subseteq bitmap' /\ bitmap_pages' = BitmapPages'
    BY <1>4, <2>1, <2>2, Zenon
  <2>6. arena' = TablePages' /\ mapped' = 0 .. max_memory' - 1
    BY <1>4, <2>1, Zenon
  <2>7. heap' = {} /\ shadow' = {} /\ kpc' = "kmalloc_init"
    BY <2>1, Zenon
  <2> QED BY ONLY <1>2, <2>4, <2>5, <2>6, <2>7, Zenon DEF InitMemoryOK
<1>7. CASE kmalloc_init
  <2>1. /\ kpc = "kmalloc_init" /\ kpc' \in {"panic", "shadow"} /\ heap = {} /\ shadow = {}
        /\ shadow' = shadow /\ arena' = arena /\ mapped' = mapped
        /\ arena = TablePages /\ mapped = 0 .. max_memory - 1
        /\ bitmap_pages = BitmapPages /\ bitmap_pages' = bitmap_pages
        /\ heap' = FirstRun(HEAP_PAGES) /\ bitmap' = bitmap \cup heap'
        /\ BootBitmap \subseteq bitmap
    BY <1>7 DEF kmalloc_init, InitMemoryOK
  <2>2. PICK run, count : run = heap' /\ count = HEAP_PAGES
    BY Zenon
  <2>3. count \in Nat
    BY <2>2, MemoryAssumption
  <2>4. /\ run \subseteq (TotalPages \cap bitmap)' /\ run \cap BootBitmap' = {}
        /\ BootBitmap' \subseteq bitmap'
    <3>1. run = FirstRun(count) /\ bitmap' = bitmap \cup run
      BY <2>1, <2>2, Zenon
    <3> QED BY <1>1, <1>3, <2>1, <2>3, <3>1, RunIsGranted, Zenon
  <2>5. Granted(heap)' /\ Granted(shadow)' /\ (heap \cap shadow)' = {}
    <3>1. Granted({})'
      BY Zenon DEF Granted
    <3>2. Granted(heap)'
      BY <2>2, <2>4, Zenon DEF Granted
    <3> QED BY <2>1, <3>1, <3>2
  <2>6. bitmap_pages' = BitmapPages' /\ arena' = TablePages' /\ mapped' = 0 .. max_memory' - 1
    BY <1>4, <2>1, Zenon
  <2>7. shadow' = {} /\ kpc' \in {"panic", "shadow"}
    BY <2>1, Zenon
  <2> QED BY ONLY <1>2, <2>4, <2>5, <2>6, <2>7, ZenonT(60) DEF InitMemoryOK
<1>8. CASE AllocateShadow
  <2>1. /\ kpc = "shadow" /\ kpc' \in {"panic", "tests"} /\ shadow = {} /\ Granted(heap)
        /\ heap' = heap /\ arena' = arena /\ mapped' = mapped
        /\ arena = TablePages /\ mapped = 0 .. max_memory - 1
        /\ bitmap_pages = BitmapPages /\ bitmap_pages' = bitmap_pages
        /\ shadow' = FirstRun(Cardinality(bootInfo.framebuffer))
        /\ bitmap' = bitmap \cup shadow' /\ BootBitmap \subseteq bitmap
    BY <1>8 DEF AllocateShadow, InitMemoryOK
  <2>2. PICK run, count : run = shadow' /\ count = Cardinality(bootInfo.framebuffer)
    BY Zenon
  <2>3. count \in Nat
    BY <2>2, FramebufferIsFinite, Zenon
  <2>4. /\ run \subseteq (TotalPages \cap bitmap)' /\ run \cap BootBitmap' = {}
        /\ BootBitmap' \subseteq bitmap'
        /\ heap \cap run = {} /\ heap \subseteq (TotalPages \cap bitmap)'
        /\ heap \cap BootBitmap' = {}
    <3>1. run = FirstRun(count) /\ bitmap' = bitmap \cup run
      BY <2>1, <2>2, Zenon
    <3> QED BY <1>1, <1>3, <2>1, <2>3, <3>1, RunIsGranted, Zenon
  <2>5. Granted(heap)' /\ Granted(shadow)' /\ (heap \cap shadow)' = {}
    BY <2>1, <2>2, <2>4, Zenon DEF Granted
  <2>6. bitmap_pages' = BitmapPages' /\ arena' = TablePages' /\ mapped' = 0 .. max_memory' - 1
    BY <1>4, <2>1, Zenon
  <2>7. kpc' \in {"panic", "tests"}
    BY <2>1, Zenon
  <2> QED BY ONLY <1>2, <2>4, <2>5, <2>6, <2>7, ZenonT(60) DEF InitMemoryOK
<1>9. CASE SmokeTests
  <2>1. /\ kpc = "tests" /\ kpc' \in {"panic", "ready"} /\ arena' = arena /\ mapped' = mapped
        /\ bitmap_pages' = bitmap_pages /\ bitmap' = bitmap /\ heap' = heap /\ shadow' = shadow
    BY <1>9, Zenon DEF SmokeTests
  <2>2. /\ arena = TablePages /\ mapped = 0 .. max_memory - 1
        /\ bitmap_pages = BitmapPages /\ BootBitmap \subseteq bitmap
        /\ Granted(heap) /\ Granted(shadow) /\ heap \cap shadow = {}
    BY <2>1 DEF InitMemoryOK
  <2>3. Granted(heap)' /\ Granted(shadow)' /\ (heap \cap shadow)' = {}
    BY <1>4, <2>1, <2>2, Zenon DEF Granted
  <2>4. /\ bitmap_pages' = BitmapPages' /\ arena' = TablePages' /\ mapped' = 0 .. max_memory' - 1
        /\ BootBitmap' \subseteq bitmap'
    BY <1>4, <2>1, <2>2, Zenon
  <2> QED BY ONLY <1>2, <2>1, <2>3, <2>4, Zenon DEF InitMemoryOK
<1> QED BY <1>5, <1>6, <1>7, <1>8, <1>9, Zenon

\* Of what type the pages are that the kernel must keep, when it has been started.
LEMMA KindsOfPages ==
  ASSUME RealMachines, AllocationsOK, LoaderOK, lpc = "kernel"
  PROVE  /\ OfLoader(KernelImage) /\ OfLoader(bootInfo.pages)
         /\ KernelImage \cap bootInfo.pages = {}
         /\ \A p \in ConventionalPages(bootInfo.memory_map) :
              p \in DOMAIN memory /\ memory[p] = EFI_CONVENTIONAL_MEMORY
         /\ \A p \in ProtectedPages(bootInfo.memory_map) :
              p \in DOMAIN memory /\ memory[p] \in {5, 6, 9, 10, 11}
         /\ \A p \in bootInfo.framebuffer \cap DOMAIN memory :
              memory[p] \notin {EfiLoaderData, EfiBootServicesData, EFI_CONVENTIONAL_MEMORY,
                                5, 6, 9, 10, 11}
<1>1. segment > Len(firmware.kernel.segments) /\ bootInfo.framebuffer = firmware.framebuffer
      /\ segment \in Nat /\ firmware \in Firmwares /\ DOMAIN memory = DOMAIN firmware.memory
  BY DEF AllocationsOK
<1>2. Len(firmware.kernel.segments) \in Nat
  BY <1>1, Zenon DEF RealMachines, RealMachine
<1>3. LoadedPages = KernelImage
  <2>1. PICK n \in Nat : n = Len(firmware.kernel.segments)
    BY <1>2, Zenon
  <2>2. \A j \in 1 .. n : j < segment
    BY <1>1, <2>1
  <2>3. {j \in 1 .. n : j < segment /\ IsLoad(j)} = {j \in 1 .. n : IsLoad(j)}
    BY <2>2, Zenon
  <2> QED BY <2>1, <2>3, Zenon DEF LoadedPages, KernelImage
<1>4. /\ OfLoader(LoadedPages) /\ LoadedPages \cap (pool \cup bootInfo.pages) = {}
      /\ OfLoader(bootInfo.pages)
  BY DEF AllocationsOK
<1>5. PICK map : map = bootInfo.memory_map
  BY Zenon
<1>6. map = Descriptors
  BY <1>5, Zenon DEF LoaderOK
<1>7. PICK top \in DOMAIN firmware.memory \cup firmware.framebuffer :
        DOMAIN firmware.memory \cup firmware.framebuffer \subseteq 0 .. top
  BY <1>1, Zenon DEF RealMachines, RealMachine
<1>8. top \in Nat
  <2>1. top \in 0 .. top
    BY <1>7, Zenon
  <2> QED BY <2>1
<1>9. DOMAIN memory \subseteq 0 .. top
  BY <1>1, <1>7, Zenon
<1>10. \A d \in map : \A p \in Covers(d) : p \in DOMAIN memory /\ memory[p] = d.Type
  BY ONLY <1>6, <1>8, <1>9, RunOfOneType, Zenon
<1>11. \A p \in ConventionalPages(map) :
         p \in DOMAIN memory /\ memory[p] = EFI_CONVENTIONAL_MEMORY
  BY ONLY <1>10, Zenon DEF ConventionalPages, Conventional
<1>12. \A p \in ProtectedPages(map) : p \in DOMAIN memory /\ memory[p] \in {5, 6, 9, 10, 11}
  BY ONLY <1>10, Zenon DEF ProtectedPages, Protected
<1>13. \A p \in firmware.framebuffer \cap DOMAIN memory :
         memory[p] \notin {EfiLoaderData, EfiBootServicesData, EFI_CONVENTIONAL_MEMORY,
                           5, 6, 9, 10, 11}
  <2>1. \A p \in firmware.framebuffer \cap DOMAIN memory : memory[p] = firmware.memory[p]
    BY Zenon DEF AllocationsOK
  <2>2. \A p \in firmware.framebuffer \cap DOMAIN firmware.memory :
           firmware.memory[p] \notin {EfiLoaderData, EfiBootServicesData,
                                      EFI_CONVENTIONAL_MEMORY, 5, 6, 9, 10, 11}
    BY <1>1, Zenon DEF RealMachines, RealMachine
  <2> QED BY ONLY <1>1, <2>1, <2>2, Zenon
<1> QED BY ONLY <1>1, <1>3, <1>4, <1>5, <1>11, <1>12, <1>13, ZenonT(60)

\* The tables lie behind the kernel and the bitmap behind the tables; the
\* identity mapping reaches beyond free memory and the framebuffer.
LEMMA PlacedBehind ==
  ASSUME RealMachines, AllocationsOK, LoaderOK, InitMemoryOK, lpc = "kernel", kpc = "ready"
  PROVE  /\ KernelImage \cap (arena \cup bitmap_pages) = {} /\ arena \cap bitmap_pages = {}
         /\ ConventionalPages(bootInfo.memory_map) \cup bootInfo.framebuffer \subseteq mapped
<1>1. /\ arena = TablePages /\ mapped = 0 .. max_memory - 1 /\ bitmap_pages = BitmapPages
  BY Zenon DEF InitMemoryOK
<1>2. firmware \in Firmwares /\ DOMAIN memory = DOMAIN firmware.memory
      /\ bootInfo.framebuffer = firmware.framebuffer
  BY DEF AllocationsOK
<1>3. PICK top \in DOMAIN firmware.memory \cup firmware.framebuffer :
        DOMAIN firmware.memory \cup firmware.framebuffer \subseteq 0 .. top
  BY <1>2, Zenon DEF RealMachines, RealMachine
<1>4. top \in Nat
  <2>1. top \in 0 .. top
    BY <1>3, Zenon
  <2> QED BY <2>1
<1>5. PICK I, F : I = KernelImage /\ F = bootInfo.framebuffer
  BY Zenon
<1>6. I # {} /\ I \subseteq 0 .. top
  <2>1. PICK k \in 1 .. Len(firmware.kernel.segments) :
          /\ IsLoad(k) /\ firmware.kernel.segments[k].pages > 0
          /\ firmware.kernel.segments[k].paddr \in Nat
          /\ firmware.kernel.segments[k].pages \in Nat
    BY <1>2, Zenon DEF RealMachines, RealMachine, IsLoad
  <2>2. PICK a \in Nat, n \in Nat : a = firmware.kernel.segments[k].paddr
                                    /\ n = firmware.kernel.segments[k].pages
    BY <2>1, ZenonT(60)
  <2>3. a \in a .. a + n - 1
    <3>1. n > 0
      BY ONLY <2>1, <2>2, Zenon
    <3> QED BY ONLY <3>1, a \in Nat, n \in Nat
  <2>4. a \in SegmentPages(k)
    BY <2>2, <2>3, Zenon DEF SegmentPages
  <2>5. a \in I
    BY <1>5, <2>1, <2>4, Zenon DEF KernelImage
  <2>6. OfLoader(I)
    BY <1>5, KindsOfPages, Zenon
  <2> QED BY <1>2, <1>3, <2>5, <2>6, Zenon DEF OfLoader
<1>7. F # {} /\ F \subseteq 0 .. top
  BY <1>2, <1>3, <1>5, Zenon DEF RealMachines, RealMachine
<1>8. PICK i, f : i = Max(I) /\ f = Max(F)
  BY Zenon
<1>9. i \in I /\ \A y \in I : i >= y
  BY ONLY <1>4, <1>6, <1>8, MaxOf, Zenon
<1>10. f \in F /\ \A y \in F : f >= y
  BY ONLY <1>4, <1>7, <1>8, MaxOf, Zenon
<1>11. i \in Nat /\ f \in Nat
  <2>1. i \in 0 .. top /\ f \in 0 .. top
    BY ONLY <1>6, <1>7, <1>9, <1>10, ZenonT(60)
  <2> QED BY ONLY <1>4, <2>1
<1>12. PICK e \in Nat : e = i + 1 + KERNEL_PHYS_BASE
  BY <1>11, MemoryAssumption
<1>13. kernel_end_phys = e
  BY <1>5, <1>8, <1>12, Zenon DEF kernel_end_phys
<1>14. PICK t : t = TopOf(Conventional(bootInfo.memory_map))
  BY Zenon
<1>15. t \in Nat /\ \A p \in ConventionalPages(bootInfo.memory_map) : p \in Nat /\ p < t
  <2>1. PICK m : m = Conventional(bootInfo.memory_map)
    BY Zenon
  <2>2. m \subseteq bootInfo.memory_map
    BY <2>1, Zenon DEF Conventional
  <2>3. TopOf(m) \in Nat /\ \A d \in m : \A p \in Covers(d) : p \in Nat /\ p < TopOf(m)
    BY <2>2, MapEnds, Zenon
  <2> QED BY ONLY <1>14, <2>1, <2>3, Zenon DEF ConventionalPages
<1>16. PICK x : x = Max({t, f + 1, IDENTITY_MIN})
  BY Zenon
<1>17. x \in Nat /\ x >= t /\ x >= f + 1
  <2>1. PICK g \in Nat, h \in Nat : g = f + 1 /\ h = IDENTITY_MIN
    <3>1. IDENTITY_MIN \in Nat
      BY MemoryAssumption, Zenon
    <3>2. f + 1 \in Nat
      BY ONLY <1>11
    <3> QED BY ONLY <3>1, <3>2, Zenon
  <2>2. PICK X : X = {t, g, h}
    BY Zenon
  <2>3. PICK sum \in Nat : sum = t + g + h
    BY ONLY <1>15, <2>1
  <2>4. X # {} /\ X \subseteq 0 .. sum
    BY ONLY <1>15, <2>2, <2>3, g \in Nat, h \in Nat
  <2>5. x = Max(X)
    BY ONLY <1>16, <2>1, <2>2, Zenon
  <2>6. x \in X /\ \A y \in X : x >= y
    BY ONLY <2>4, <2>5, sum \in Nat, MaxOf, Zenon
  <2>7. x >= t /\ x >= g
    BY ONLY <2>2, <2>6, Zenon
  <2>8. x = t \/ x = g \/ x = h
    BY ONLY <2>2, <2>6, Zenon
  <2> QED BY ONLY <1>15, <2>1, <2>7, <2>8, g \in Nat, h \in Nat, Zenon
<1>18. PICK most : most = max_memory
  BY Zenon
<1>19. most \in Nat /\ most >= x
  <2>1. most = RoundUp(x, PDE_PAGES)
    BY <1>5, <1>8, <1>14, <1>16, <1>18, ZenonT(60) DEF max_memory, FramebufferEnd
  <2>2. PDE_PAGES \in Nat \ {0}
    BY MemoryAssumption
  <2> QED BY ONLY <1>17, <2>1, <2>2, RoundedUp, Zenon
<1>20. PICK q : q = RoundUp(most, PD_PAGES) \div PD_PAGES
  BY Zenon
<1>21. q \in Nat
  <2>1. PD_PAGES \in Nat \ {0}
    BY MemoryAssumption
  <2> QED BY ONLY <1>19, <1>20, <2>1, RoundedUp, ZenonT(60)
<1>22. arena = e .. e + 3 + q
  BY <1>1, <1>13, <1>18, <1>20, ZenonT(60) DEF TablePages
<1>23. PICK last \in Nat : last = e + 3 + q
  BY <1>21
<1>24. PICK z : z = Max(arena)
  BY Zenon
<1>25. z \in arena /\ \A y \in arena : z >= y
  <2>1. arena # {} /\ arena \subseteq 0 .. last
    <3>1. e \in e .. e + 3 + q /\ (e .. e + 3 + q) \subseteq 0 .. last
      BY ONLY <1>21, <1>23, e \in Nat, last \in Nat, SMTT(60)
    <3> QED BY ONLY <1>22, <3>1, ZenonT(60)
  <2> QED BY ONLY <1>24, <2>1, last \in Nat, MaxOf, Zenon
<1>26. z \in Nat /\ z >= e
  <2>1. z \in e .. e + 3 + q
    BY ONLY <1>22, <1>25, Zenon
  <2> QED BY ONLY <1>21, <2>1, e \in Nat
<1>27. PICK b \in Nat : bitmap_pages = z + 1 .. z + 1 + b - 1
  <2>1. TopOf(bootInfo.memory_map) \in Nat
    <3>1. bootInfo.memory_map \subseteq bootInfo.memory_map
      BY Zenon
    <3> QED BY <3>1, MapEnds, Zenon
  <2>2. BITMAP_PAGE_BITS \in Nat \ {0}
    BY MemoryAssumption
  <2>3. RoundUp(TopOf(bootInfo.memory_map), BITMAP_PAGE_BITS) \div BITMAP_PAGE_BITS \in Nat
    BY ONLY <2>1, <2>2, RoundedUp, Zenon
  <2> QED BY <1>1, <1>24, <2>3, Zenon DEF BitmapPages
<1>28. arena \cap bitmap_pages = {}
  <2>1. \A p \in bitmap_pages : p \in Nat /\ p > z
    BY ONLY <1>26, <1>27, b \in Nat, SMTT(60)
  <2>2. \A p \in arena : p \in Nat /\ ~(p > z)
    BY ONLY <1>21, <1>22, <1>25, <1>26, e \in Nat
  <2> QED BY ONLY <2>1, <2>2, Zenon
<1>29. I \cap (arena \cup bitmap_pages) = {}
  <2>1. \A p \in I : p \in Nat /\ ~(p >= e)
    BY ONLY <1>4, <1>6, <1>9, <1>11, <1>12, MemoryAssumption
  <2>2. \A p \in arena \cup bitmap_pages : p >= e
    BY ONLY <1>21, <1>22, <1>26, <1>27, e \in Nat, b \in Nat
  <2> QED BY ONLY <2>1, <2>2, Zenon
<1>30. ConventionalPages(bootInfo.memory_map) \subseteq 0 .. most - 1
  <2>1. PICK C : C = ConventionalPages(bootInfo.memory_map)
    BY Zenon
  <2>2. \A p \in C : p \in Nat /\ p < t
    BY <1>15, <2>1, ZenonT(60)
  <2>3. C \subseteq 0 .. most - 1
    BY ONLY <1>15, <1>17, <1>19, <2>2
  <2> QED BY ONLY <2>1, <2>3, Zenon
<1>31. F \subseteq 0 .. most - 1
  BY ONLY <1>4, <1>7, <1>10, <1>11, <1>17, <1>19
<1> QED BY <1>1, <1>5, <1>18, <1>28, <1>29, <1>30, <1>31, ZenonT(60)

\* What init_memory has built, if its tables and bitmap lie on free memory.
LEMMA MemoryIsKept ==
  ASSUME RealMachines, AllocationsOK, LoaderOK, InitMemoryOK, PlacedOnFreeMemory
  PROVE  KernelMemoryKept
<1> SUFFICES ASSUME lpc = "kernel", kpc = "ready"
             PROVE  LET free == (0 .. TopOf(bootInfo.memory_map) - 1) \ bitmap
                        owners == Owners
                    IN  /\ \A j, k \in DOMAIN owners : j < k => owners[j] \cap owners[k] = {}
                        /\ \A k \in DOMAIN owners : free \cap owners[k] = {}
                        /\ free \cup bootInfo.framebuffer \cup shadow \cup heap \subseteq mapped
  BY Zenon DEF KernelMemoryKept
<1>1. PICK I, P, F, R, C, T, K :
        /\ I = KernelImage /\ P = bootInfo.pages /\ F = bootInfo.framebuffer
        /\ R = ProtectedPages(bootInfo.memory_map)
        /\ C = ConventionalPages(bootInfo.memory_map) /\ T = TotalPages /\ K = BootBitmap
  BY ZenonT(60)
<1>2. /\ \A p \in I : p \in DOMAIN memory /\ memory[p] = 2
      /\ \A p \in P : p \in DOMAIN memory /\ memory[p] = 2
      /\ \A p \in C : p \in DOMAIN memory /\ memory[p] = 7
      /\ \A p \in R : p \in DOMAIN memory /\ memory[p] \in {5, 6, 9, 10, 11}
      /\ \A p \in F : p \in DOMAIN memory => memory[p] \notin {2, 7, 5, 6, 9, 10, 11}
      /\ I \cap P = {}
  <2>1. /\ OfLoader(I) /\ OfLoader(P) /\ I \cap P = {}
        /\ \A p \in C : p \in DOMAIN memory /\ memory[p] = EFI_CONVENTIONAL_MEMORY
        /\ \A p \in R : p \in DOMAIN memory /\ memory[p] \in {5, 6, 9, 10, 11}
        /\ \A p \in F \cap DOMAIN memory :
             memory[p] \notin {EfiLoaderData, EfiBootServicesData, EFI_CONVENTIONAL_MEMORY,
                               5, 6, 9, 10, 11}
    BY <1>1, KindsOfPages, ZenonT(60)
  <2> QED BY ONLY <2>1 DEF OfLoader, EfiLoaderData, EfiBootServicesData, EFI_CONVENTIONAL_MEMORY
<1>3. /\ I \cap (C \cup R \cup F) = {} /\ P \cap (C \cup R \cup F) = {}
      /\ C \cap (R \cup F) = {} /\ R \cap F = {}
  BY ONLY <1>2
<1>4. I \cap (arena \cup bitmap_pages) = {} /\ arena \cap bitmap_pages = {}
      /\ C \cup F \subseteq mapped
  BY <1>1, PlacedBehind, Zenon
<1>5. arena \cup bitmap_pages \subseteq C
  BY <1>1, Zenon DEF PlacedOnFreeMemory
<1>6. T \ C \subseteq K /\ T \cap (arena \cup bitmap_pages) \subseteq K
  BY <1>1, Zenon DEF BootBitmap, BitmapOf, ReservedAtBoot, ConventionalPages
<1>7. /\ K \subseteq bitmap /\ heap \cap shadow = {}
      /\ heap \subseteq T \cap bitmap /\ heap \cap K = {}
      /\ shadow \subseteq T \cap bitmap /\ shadow \cap K = {}
  <2>1. /\ BootBitmap \subseteq bitmap /\ heap \cap shadow = {}
        /\ Granted(heap) /\ Granted(shadow)
    BY DEF InitMemoryOK
  <2> QED BY <1>1, <2>1, ZenonT(60) DEF Granted
<1>8. PICK free : free = (0 .. TopOf(bootInfo.memory_map) - 1) \ bitmap
  BY Zenon
<1>9. free \subseteq T /\ free \cap bitmap = {}
  BY <1>1, <1>8, Zenon DEF TotalPages
<1>10. heap \subseteq C /\ shadow \subseteq C /\ free \subseteq C
  BY ONLY <1>6, <1>7, <1>9, Zenon
<1>11. /\ (heap \cup shadow \cup free) \cap (arena \cup bitmap_pages) = {}
       /\ free \cap (heap \cup shadow) = {}
  BY ONLY <1>6, <1>7, <1>9, Zenon
<1>12. PICK o : o = Owners
  BY Zenon
<1>13. o = <<I, arena, bitmap_pages, P, F, R, heap, shadow>>
  BY <1>1, <1>12, Zenon DEF Owners, ProtectedPages
<1>14. \A j, k \in DOMAIN o : j < k => o[j] \cap o[k] = {}
  <2>1. /\ I \cap arena = {} /\ I \cap bitmap_pages = {} /\ I \cap P = {} /\ I \cap F = {}
        /\ I \cap R = {} /\ I \cap heap = {} /\ I \cap shadow = {}
    BY ONLY <1>2, <1>3, <1>4, <1>10, Zenon
  <2>2. /\ arena \cap bitmap_pages = {} /\ arena \cap P = {} /\ arena \cap F = {}
        /\ arena \cap R = {} /\ arena \cap heap = {} /\ arena \cap shadow = {}
    BY ONLY <1>3, <1>4, <1>5, <1>11, Zenon
  <2>3. /\ bitmap_pages \cap P = {} /\ bitmap_pages \cap F = {} /\ bitmap_pages \cap R = {}
        /\ bitmap_pages \cap heap = {} /\ bitmap_pages \cap shadow = {}
    BY ONLY <1>3, <1>5, <1>11, Zenon
  <2>4. /\ P \cap F = {} /\ P \cap R = {} /\ P \cap heap = {} /\ P \cap shadow = {}
        /\ F \cap R = {} /\ F \cap heap = {} /\ F \cap shadow = {}
        /\ R \cap heap = {} /\ R \cap shadow = {} /\ heap \cap shadow = {}
    BY ONLY <1>3, <1>7, <1>10, ZenonT(60)
  <2>5. /\ DOMAIN o = 1 .. 8 /\ o[1] = I /\ o[2] = arena /\ o[3] = bitmap_pages /\ o[4] = P
        /\ o[5] = F /\ o[6] = R /\ o[7] = heap /\ o[8] = shadow
    BY ONLY <1>13
  <2> SUFFICES ASSUME NEW j \in 1 .. 8, NEW k \in 1 .. 8, j < k PROVE o[j] \cap o[k] = {}
    BY <2>5, Zenon
  <2>6. CASE j = 1
    <3>1. k \in {2, 3, 4, 5, 6, 7, 8}
      BY ONLY <2>6, j < k, k \in 1 .. 8
    <3> QED BY ONLY <2>1, <2>5, <2>6, <3>1, Zenon
  <2>7. CASE j = 2
    <3>1. k \in {3, 4, 5, 6, 7, 8}
      BY ONLY <2>7, j < k, k \in 1 .. 8
    <3> QED BY ONLY <2>2, <2>5, <2>7, <3>1, Zenon
  <2>8. CASE j = 3
    <3>1. k \in {4, 5, 6, 7, 8}
      BY ONLY <2>8, j < k, k \in 1 .. 8
    <3> QED BY ONLY <2>3, <2>5, <2>8, <3>1, Zenon
  <2>9. CASE j = 4
    <3>1. k \in {5, 6, 7, 8}
      BY ONLY <2>9, j < k, k \in 1 .. 8
    <3> QED BY ONLY <2>4, <2>5, <2>9, <3>1, Zenon
  <2>10. CASE j = 5
    <3>1. k \in {6, 7, 8}
      BY ONLY <2>10, j < k, k \in 1 .. 8
    <3> QED BY ONLY <2>4, <2>5, <2>10, <3>1, Zenon
  <2>11. CASE j = 6
    <3>1. k \in {7, 8}
      BY ONLY <2>11, j < k, k \in 1 .. 8
    <3> QED BY ONLY <2>4, <2>5, <2>11, <3>1, Zenon
  <2>12. CASE j = 7
    <3>1. k = 8
      BY ONLY <2>12, j < k, k \in 1 .. 8
    <3> QED BY ONLY <2>4, <2>5, <2>12, <3>1, Zenon
  <2>13. j \in {1, 2, 3, 4, 5, 6, 7}
    BY ONLY j \in 1 .. 8, k \in 1 .. 8, j < k
  <2> QED BY <2>6, <2>7, <2>8, <2>9, <2>10, <2>11, <2>12, <2>13, Zenon
<1>15. \A k \in DOMAIN o : free \cap o[k] = {}
  <2>1. /\ DOMAIN o = 1 .. 8 /\ o[1] = I /\ o[2] = arena /\ o[3] = bitmap_pages /\ o[4] = P
        /\ o[5] = F /\ o[6] = R /\ o[7] = heap /\ o[8] = shadow
    BY ONLY <1>13
  <2>2. 1 .. 8 = {1, 2, 3, 4, 5, 6, 7, 8}
    OBVIOUS
  <2>3. /\ free \cap I = {} /\ free \cap arena = {} /\ free \cap bitmap_pages = {}
        /\ free \cap P = {} /\ free \cap F = {} /\ free \cap R = {} /\ free \cap heap = {}
        /\ free \cap shadow = {}
    BY ONLY <1>3, <1>10, <1>11, Zenon
  <2> QED BY ONLY <2>1, <2>2, <2>3, Zenon
<1>16. free \cup bootInfo.framebuffer \cup shadow \cup heap \subseteq mapped
  BY ONLY <1>1, <1>4, <1>10, Zenon
<1> QED BY ONLY <1>8, <1>12, <1>14, <1>15, <1>16, Zenon

\* On every machine with free memory behind the kernel, whatever the firmware
\* changes while the loader runs: once init_memory is done, the kernel, its
\* tables, its bitmap, what the loader handed over, protected memory, the heap
\* and the shadow buffer share no page, none of their pages can be allocated,
\* and every page that can is mapped.
THEOREM KernelKeepsItsMemory ==
  RealMachines => (Spec => [](PlacedOnFreeMemory => KernelMemoryKept))
<1> SUFFICES ASSUME RealMachines PROVE Spec => [](PlacedOnFreeMemory => KernelMemoryKept)
  OBVIOUS
<1> DEFINE Inv == LoaderOK /\ AllocationsOK /\ InitMemoryOK
<1>1. Init => Inv
  <2> SUFFICES ASSUME Init PROVE Inv
    OBVIOUS
  <2>1. LoaderOK /\ AllocationsOK
    BY LoaderStarts, AllocationsStart, Zenon DEF Init
  <2>2. InitMemoryOK
    BY DEF Init, MemoryInit, InitMemoryOK
  <2> QED BY <2>1, <2>2, Zenon
<1>2. Inv /\ [Next]_vars => Inv'
  <2> SUFFICES ASSUME LoaderOK, AllocationsOK, InitMemoryOK, [Next]_vars PROVE Inv'
    OBVIOUS
  <2>1. CASE Loader
    <3>1. efi_main /\ UNCHANGED memoryVars
      BY <2>1, Zenon DEF Loader
    <3>2. lpc # "kernel"
      <4>1. CASE FirmwareChanges
        <5>1. services
          BY <4>1, Zenon DEF FirmwareChanges
        <5>2. services = (lpc # "kernel")
          BY Zenon DEF LoaderOK
        <5> QED BY ONLY <5>1, <5>2, Zenon
      <4>2. CASE ~FirmwareChanges
        <5>1. lpc \in {"tables", "open", "segments", "measure", "room", "get_map", "exit"}
          BY <3>1, <4>2, Zenon DEF efi_main, AllocateTables, OpenKernel, LoadSegment,
             FillBootInfo, MeasureMap, AllocateMap, GetMap, ExitBoot
        <5> QED BY ONLY <5>1
      <4> QED BY <4>1, <4>2, Zenon
    <3>3. kpc = "paging_init" /\ heap = {} /\ shadow = {}
      BY <3>2 DEF InitMemoryOK
    <3>4. kpc' = "paging_init" /\ heap' = {} /\ shadow' = {}
      BY <3>1, <3>3, ZenonT(60) DEF memoryVars
    <3>5. InitMemoryOK'
      BY <3>4 DEF InitMemoryOK
    <3> QED BY <3>1, <3>5, LoaderKeeps, LoaderAllocates, Zenon
  <2>2. CASE KernelMemory \/ KernelStarts \/ KernelRuns \/ UNCHANGED vars
    <3>1. UNCHANGED loaderVars
      BY <2>2, KernelLeavesLoader, Zenon
    <3>2. LoaderOK'
      BY <3>1, LoaderLeft, Zenon
    <3>3. AllocationsOK'
      <4>1. /\ firmware' = firmware /\ memory' = memory /\ lpc' = lpc /\ segment' = segment
            /\ pool' = pool /\ bootInfo' = bootInfo
        BY <3>1 DEF loaderVars
      <4>2. LoadedPages' = LoadedPages
        BY <4>1, Zenon DEF LoadedPages, SegmentPages, IsLoad
      <4> QED BY <4>1, <4>2, Zenon DEF AllocationsOK, OfLoader
    <3>4. InitMemoryOK'
      <4>1. CASE KernelMemory
        <5>1. paging_init \/ pmm_init \/ kmalloc_init \/ AllocateShadow \/ SmokeTests
          BY <4>1, Zenon DEF KernelMemory, init_memory
        <5>2. lpc = "kernel"
          <6>1. CASE init_memory
            BY <6>1, Zenon DEF init_memory
          <6>2. CASE SmokeTests
            BY <6>2 DEF SmokeTests, InitMemoryOK
          <6> QED BY <4>1, <6>1, <6>2, Zenon DEF KernelMemory
        <5> QED BY <5>1, <5>2, InitMemoryKeeps, Zenon
      <4>2. CASE UNCHANGED memoryVars
        BY <3>1, <4>2, InitMemoryLeft, Zenon
      <4> QED BY <2>2, <4>1, <4>2, Zenon DEF KernelStarts, KernelRuns, vars
    <3> QED BY <3>2, <3>3, <3>4, Zenon
  <2> QED BY <2>1, <2>2, Zenon DEF Next
<1>3. Inv => (PlacedOnFreeMemory => KernelMemoryKept)
  BY MemoryIsKept, Zenon
<1> QED BY <1>1, <1>2, <1>3, PTL DEF Spec
=============================================================================
