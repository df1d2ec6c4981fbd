-------------------------------- MODULE Pmm --------------------------------
(***************************************************************************)
(* The physical page allocator of kernel/pmm.c.                            *)
(*                                                                         *)
(* The bitmap is an array of bytes, and the compiled code updates a byte,  *)
(* and the counter free_pages, by a load and a store.  kernel_main         *)
(* allocates and frees with interrupts disabled, the shell with interrupts *)
(* enabled: then a timer tick between two steps may enter                  *)
(* process_reap_deferred, which frees pages of dead processes before it    *)
(* returns.  The handler is atomic.                                        *)
(***************************************************************************)
EXTENDS MemoryMap

CONSTANTS
  total_pages,
  PAGES_PER_BYTE,     \* 8 in the code
  MaxCount,           \* largest run of pages asked for
  MemoryMaps,         \* firmware memory maps: sets of descriptors
  Reserved,           \* pages of the kernel, its tables, the bitmap, low memory
  MaxDrift            \* bound: how far lost updates may take free_pages off

ASSUME PmmAssumption ==
  /\ total_pages \in Nat \ {0}
  /\ PAGES_PER_BYTE \in Nat \ {0}
  /\ MaxCount \in Nat /\ MaxDrift \in Nat
  /\ 0 \in Reserved
  /\ \A m \in MemoryMaps : \A d \in m :
       d.PhysicalStart \in Nat /\ d.NumberOfPages \in Nat /\ d.Type \in Nat

VARIABLES
  memory_map,  \* the map the firmware handed over
  interrupts,  \* whether interrupts are enabled
  bitmap,      \* the pages whose bit is set
  free_pages,
  in_use,      \* pages handed out and not given back
  dead,        \* those of them that belong to dead processes
  pc,          \* next step of the shell, "idle" between two calls
  i, j, count, \* local variables of the call; i is the page of a free
  rbyte, rfree \* registers: a byte of the bitmap, free_pages

pmmVars == <<bitmap, free_pages>>
ownerVars == <<in_use, dead>>
localVars == <<i, j, count, rbyte, rfree>>
vars == <<memory_map, interrupts, pmmVars, ownerVars, pc, localVars>>

-----------------------------------------------------------------------------
(* pmm_init. *)

Pages == 0 .. total_pages - 1

InitialBitmap(m) == BitmapOf(m, Pages, Reserved)
InitialFreePages(m) == FreePagesOf(m, Pages, Reserved)

Init ==
  /\ memory_map \in MemoryMaps
  /\ interrupts = FALSE
  /\ bitmap = InitialBitmap(memory_map)
  /\ free_pages = InitialFreePages(memory_map)
  /\ in_use = {} /\ dead = {}
  /\ pc = "idle"
  /\ i = 0 /\ j = 0 /\ count = 0 /\ rbyte = {} /\ rfree = 0

-----------------------------------------------------------------------------
(* pmm_alloc_page and pmm_alloc_pages. *)

\* The pages whose bits share a byte with page p.
Byte(p) == {q \in Pages : q \div PAGES_PER_BYTE = p \div PAGES_PER_BYTE}

\* The scan of pmm_alloc_page is that of one page, from page 0.
AllocCall ==
  /\ pc = "idle"
  /\ \/ i' = 0 /\ count' = 1
     \/ i' = 1 /\ count' \in 1 .. MaxCount
  /\ count' <= total_pages
  /\ j' = i'
  /\ pc' = "scan"
  /\ UNCHANGED <<memory_map, interrupts, pmmVars, ownerVars, rbyte, rfree>>

\* The last page a run may start at.
LastStart == total_pages - count

\* Variant of SkipUsed that jumps one page too far.
SkipTwo(p) == p + 2

\* Where the scan goes on after a used page p.
SkipUsed(p) == p + 1

\* Variant of StillFree that trusts every page after the first.
FirstStillFree(p) == p \notin bitmap \/ p > i

\* bitmap_test in the scan.
StillFree(p) == p \notin bitmap

\* One bitmap_test of the scan.
Scan ==
  /\ pc = "scan"
  /\ \/ /\ i > LastStart
        /\ pc' = "none" /\ UNCHANGED <<i, j>>
     \/ /\ i <= LastStart
        /\ ~StillFree(j)
        /\ i' = SkipUsed(j) /\ j' = SkipUsed(j) /\ UNCHANGED pc
     \/ /\ i <= LastStart
        /\ StillFree(j)
        /\ IF j + 1 < i + count THEN j' = j + 1 /\ UNCHANGED pc
                                ELSE j' = i /\ pc' = "set_load"
        /\ UNCHANGED i
  /\ UNCHANGED <<memory_map, interrupts, pmmVars, ownerVars, count, rbyte, rfree>>

\* The load and the store of bitmap_set and bitmap_clear, ...
LoadByte(label, next, p) ==
  /\ pc = label
  /\ rbyte' = bitmap \cap Byte(p)
  /\ pc' = next
  /\ UNCHANGED <<memory_map, interrupts, pmmVars, ownerVars, i, j, count, rfree>>

StoreByte(label, next, p, byte) ==
  /\ pc = label
  /\ bitmap' = (bitmap \ Byte(p)) \cup byte
  /\ pc' = next
  /\ UNCHANGED <<memory_map, interrupts, free_pages, ownerVars, localVars>>

\* ... and of the counter.
LoadCount(label, next) ==
  /\ pc = label
  /\ rfree' = free_pages
  /\ pc' = next
  /\ UNCHANGED <<memory_map, interrupts, pmmVars, ownerVars, i, j, count, rbyte>>

\* Variant of StoreTaken that forgets the counter.
StoreTakenUncounted ==
  /\ pc = "dec_store"
  /\ j' = j + 1
  /\ pc' = IF j' < i + count THEN "set_load" ELSE "found"
  /\ UNCHANGED <<memory_map, interrupts, pmmVars, ownerVars, i, count, rbyte, rfree>>

\* The counter is stored and the loop goes on with the next page of the run.
StoreTaken ==
  /\ pc = "dec_store"
  /\ free_pages' = rfree - 1
  /\ j' = j + 1
  /\ pc' = IF j' < i + count THEN "set_load" ELSE "found"
  /\ UNCHANGED <<memory_map, interrupts, bitmap, ownerVars, i, count, rbyte, rfree>>

MarkUsed ==
  \/ LoadByte("set_load", "set_store", j)
  \/ StoreByte("set_store", "dec_load", j, rbyte \cup {j})
  \/ LoadCount("dec_load", "dec_store")
  \/ StoreTaken

Run == i .. i + count - 1

AllocReturn ==
  /\ pc \in {"found", "none"}
  /\ in_use' = IF pc = "found" THEN in_use \cup Run ELSE in_use
  /\ pc' = "idle"
  /\ i' = 0 /\ j' = 0 /\ count' = 0 /\ rbyte' = {} /\ rfree' = 0
  /\ UNCHANGED <<memory_map, interrupts, pmmVars, dead>>

-----------------------------------------------------------------------------
(* pmm_free_page. *)

FreeCall ==
  /\ pc = "idle"
  /\ i' \in in_use \cup {0}
  /\ pc' = IF i' = 0 \/ i' >= total_pages \/ i' \notin bitmap
           THEN "freed" ELSE "clear_load"
  /\ UNCHANGED <<memory_map, interrupts, pmmVars, ownerVars, j, count, rbyte, rfree>>

StoreFreed ==
  /\ pc = "inc_store"
  /\ free_pages' = rfree + 1
  /\ pc' = "freed"
  /\ UNCHANGED <<memory_map, interrupts, bitmap, ownerVars, localVars>>

\* Variant of MarkFree that counts the page and leaves its bit.
MarkFreeCountOnly ==
  \/ LoadByte("clear_load", "clear_store", i)
  \/ StoreByte("clear_store", "inc_load", i, rbyte)
  \/ LoadCount("inc_load", "inc_store")
  \/ StoreFreed

MarkFree ==
  \/ LoadByte("clear_load", "clear_store", i)
  \/ StoreByte("clear_store", "inc_load", i, rbyte \ {i})
  \/ LoadCount("inc_load", "inc_store")
  \/ StoreFreed

FreeReturn ==
  /\ pc = "freed"
  /\ in_use' = in_use \ {i}
  /\ dead' = dead \ {i}
  /\ pc' = "idle"
  /\ i' = 0 /\ j' = 0 /\ count' = 0 /\ rbyte' = {} /\ rfree' = 0
  /\ UNCHANGED <<memory_map, interrupts, pmmVars>>

-----------------------------------------------------------------------------
(* The timer tick. *)

\* kernel_main enables interrupts between two calls.
enable_interrupts ==
  /\ pc = "idle" /\ ~interrupts
  /\ interrupts' = TRUE
  /\ UNCHANGED <<memory_map, pmmVars, ownerVars, pc, localVars>>

\* The owner of a page exits or is killed.
OwnerDies ==
  /\ \E p \in in_use \ dead : dead' = dead \cup {p}
  /\ UNCHANGED <<memory_map, interrupts, pmmVars, in_use, pc, localVars>>

\* pmm_free_page of a dead owner's page, with interrupts disabled.
Reap ==
  /\ \E p \in dead :
       /\ bitmap' = bitmap \ {p}
       /\ free_pages' = IF p \in bitmap THEN free_pages + 1 ELSE free_pages
       /\ in_use' = in_use \ {p}
       /\ dead' = dead \ {p}
  /\ UNCHANGED <<memory_map, interrupts, pc, localVars>>

Tick ==
  /\ interrupts
  /\ free_pages - Cardinality(Pages \ bitmap) \in -MaxDrift .. MaxDrift
  /\ OwnerDies \/ Reap

Next ==
  \/ AllocCall \/ Scan \/ MarkUsed \/ AllocReturn
  \/ FreeCall \/ MarkFree \/ FreeReturn
  \/ enable_interrupts \/ Tick

Spec == Init /\ [][Next]_vars

-----------------------------------------------------------------------------
(* Properties. *)

\* A page handed out has never another owner and is not reserved, although a
\* tick may free other pages between the test of its bit and the store.
NoDoubleAllocation ==
  pc = "found" =>
    Run \subseteq Pages /\ Run \cap (in_use \cup InitialBitmap(memory_map)) = {}

\* Between two calls every page that is reserved or in use has its bit set,
\* whatever pages ticks free in the middle of a call; and until interrupts are
\* enabled no other page has, so that what was freed can be allocated again.
BitmapIsExact ==
  LET taken == InitialBitmap(memory_map) \cup in_use
  IN  pc = "idle" => taken \subseteq bitmap /\ (~interrupts => bitmap \subseteq taken)

\* Until interrupts are enabled, free_pages is the number of clear bits between
\* two calls.
FreeCountExact ==
  ~interrupts /\ pc = "idle" => free_pages = Cardinality(Pages \ bitmap)

\* pmm_alloc_pages skips over used pages without missing a run: it finds the
\* first one that is long enough, and fails only when there is none.
FirstFit ==
  LET before == IF pc = "found" THEN bitmap \ Run ELSE bitmap
      fits == {k \in 0 .. total_pages - count : (k .. k + count - 1) \cap before = {}}
  IN  ~interrupts =>
        /\ pc = "found" => i \in fits /\ \A k \in fits : i <= k
        /\ pc = "none" => fits = {}

-----------------------------------------------------------------------------
(* The invariant that is inductive for Next.  While a call runs, the bitmap  *)
(* shows every page that is taken and the part of the run marked so far; the *)
(* register that holds a loaded byte shows no fewer of them.                 *)

Taken == InitialBitmap(memory_map) \cup in_use

MarkLabels == {"set_load", "set_store", "dec_load", "dec_store"}
ClearLabels == {"clear_load", "clear_store"}
CountLabels == {"inc_load", "inc_store"}

PmmTypes ==
  /\ memory_map \in MemoryMaps
  /\ interrupts \in BOOLEAN
  /\ bitmap \subseteq Pages
  /\ i \in Nat /\ j \in Nat /\ count \in Nat
  /\ pc \in {"idle", "scan", "none", "found", "freed"}
            \cup MarkLabels \cup ClearLabels \cup CountLabels

\* Who owns a page: nobody a reserved one, and the dead only what was handed out.
OwnersOK ==
  /\ in_use \subseteq Pages \ InitialBitmap(memory_map)
  /\ dead \subseteq in_use

\* The bits of the pages in S are set; until interrupts are enabled, no others.
Shows(S) == S \subseteq bitmap /\ (~interrupts => bitmap \subseteq S)

\* The same of the byte of page p that is in the register.
RegisterShows(p, S) ==
  /\ rbyte \subseteq Byte(p)
  /\ S \cap Byte(p) \subseteq rbyte
  /\ ~interrupts => rbyte \subseteq S

BitmapOK ==
  /\ pc \in {"idle", "scan", "none"} \cup ClearLabels => Shows(Taken)
  /\ pc \in {"set_load", "set_store"} => Shows(Taken \cup i .. j - 1)
  /\ pc \in {"dec_load", "dec_store"} => Shows(Taken \cup i .. j)
  /\ pc = "found" => Shows(Taken \cup Run)
  /\ pc \in {"freed"} \cup CountLabels
       => Shows(InitialBitmap(memory_map) \cup (in_use \ {i}))
  /\ pc = "set_store" => RegisterShows(j, Taken \cup i .. j - 1)
  /\ pc = "clear_store" => RegisterShows(i, Taken)

\* No run of n pages that starts before page k avoids the pages of S.
Blocked(S, k, n) == \A s \in 0 .. k - 1 : \E p \in s .. s + n - 1 : p \in S

\* Until interrupts are enabled, the scan has missed no run before page k.
NoneBefore(k) == ~interrupts => Blocked(Taken, k, count)

\* The run of a call: the part of it that was tested is free, and from the
\* first store on all of it is nobody's.
RunOK ==
  /\ pc \in {"scan", "found"} \cup MarkLabels => count >= 1 /\ NoneBefore(i)
  /\ pc \in {"scan"} \cup MarkLabels => j \in Run
  /\ pc = "scan" => (i .. j - 1) \cap bitmap = {}
  /\ pc \in {"found"} \cup MarkLabels => i <= LastStart /\ Run \cap Taken = {}
  /\ pc = "none" => NoneBefore(LastStart + 1)

\* The page of a free.
PageOK ==
  /\ pc \in ClearLabels \cup CountLabels => i \in Pages \ InitialBitmap(memory_map)
  /\ pc \in ClearLabels => (~interrupts => i \in in_use)

PmmInv == PmmTypes /\ OwnersOK /\ BitmapOK /\ RunOK /\ PageOK

\* How far the counter is from the bitmap inside a call.
Behind ==
  IF pc \in {"dec_load", "dec_store"} THEN 1
  ELSE IF pc \in CountLabels THEN -1 ELSE 0

CountOK ==
  ~interrupts =>
    /\ free_pages = Cardinality(Pages \ bitmap) + Behind
    /\ pc \in {"dec_store", "inc_store"} => rfree = free_pages
=============================================================================
