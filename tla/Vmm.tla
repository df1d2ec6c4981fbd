-------------------------------- MODULE Vmm --------------------------------
(***************************************************************************)
(* Address spaces: kernel/vmm.c as kernel/process.c uses it to build the   *)
(* image and the stack of a process, and to tear them down.                *)
(*                                                                         *)
(* A virtual page is a pair of indices: that into the PML4, and one that   *)
(* stands for the indices into the three lower levels, which the code      *)
(* walks with the same function.  The image of every program is linked at  *)
(* an address with PML4 index 0, whose table vmm_create_address_space      *)
(* takes from the kernel; the stack has a PML4 index of its own.           *)
(***************************************************************************)
EXTENDS Integers, FiniteSets

CONSTANTS
  Pages,        \* physical pages the allocator starts with, numbers above 2
  Images,       \* programs
  ImagePages,   \* lower indices of the pages of an image
  StackPages,   \* lower indices of the pages of a stack
  MaxSpaces     \* bound on address spaces alive at a time

ASSUME VmmAssumption ==
  /\ Pages \subseteq Nat \ {0, 1, 2}
  /\ ImagePages \subseteq Nat /\ StackPages \subseteq Nat /\ StackPages # {}
  /\ MaxSpaces \in Nat

VARIABLES
  free,      \* pages free at the physical allocator
  table,     \* page -> index -> page: the page tables, 0 for not present
  content,   \* page -> the program whose bytes it holds, or "zero"
  spaces,    \* AddressSpace objects, named by their page: the PML4, the program
             \* and the segments (one page each) and stack pages left to map
  boot,      \* the step of run_memory_smoke_tests, or "done"
  panic      \* "no", "oom" or "kassert"

vars == <<free, table, content, spaces, boot, panic>>

-----------------------------------------------------------------------------
LOW == 0      \* PML4 index of the identity map and of the images
STACK == 1    \* PML4 index of the stacks, 255 in the code
Pml4Indices == {LOW, STACK}
Lower == ImagePages \cup StackPages
AllPages == Pages \cup {1, 2}

\* What paging_init leaves: the kernel's PML4 and the table of its entry 0.
kernel_pml4 == 1
kernel_low == 2

NoEntries == [x \in Lower \cup Pml4Indices |-> 0]

Least(S) == CHOOSE x \in S : \A y \in S : x <= y

\* vmm_virt_to_phys: the page behind an address, 0 if there is none.
vmm_virt_to_phys(t, pml4, va) ==
  LET pt == t[pml4][va[1]]
  IN  IF pt = 0 THEN 0 ELSE t[pt][va[2]]

Init ==
  /\ free = Pages
  /\ table = [p \in AllPages |->
                IF p = kernel_pml4 THEN [NoEntries EXCEPT ![LOW] = kernel_low] ELSE NoEntries]
  /\ content = [p \in AllPages |-> "zero"]
  /\ spaces = [s \in {} |-> 0]
  /\ boot = "create"
  /\ panic = "no"

-----------------------------------------------------------------------------
\* A kassert or an allocation that the code does not do without.
Panics(why) == panic' = why /\ UNCHANGED <<free, table, content, spaces>>

\* The table of address spaces with an entry added or replaced.
SetSpace(space, r) == [s \in DOMAIN spaces \cup {space} |-> IF s = space THEN r ELSE spaces[s]]

\* Variant of vmm_create_address_space that does not clear the PML4.
create_address_space_dirty(new) ==
  /\ free # {}
  /\ LET space == Least(free)
         pml4 == Least(free \ {space})
     IN  IF free = {space} THEN Panics("oom")
         ELSE /\ free' = free \ {space, pml4}
              /\ table' = [table EXCEPT ![pml4][LOW] = table[kernel_pml4][LOW]]
              /\ spaces' = SetSpace(space, [new EXCEPT !.pml4 = pml4])
              /\ UNCHANGED <<content, panic>>

\* vmm_create_address_space: one page for the object and one for the PML4.
\* With no page for the object it returns 0 and the spawn fails.
vmm_create_address_space(new) ==
  /\ free # {}
  /\ LET space == Least(free)
         pml4 == Least(free \ {space})
     IN  IF free = {space} THEN Panics("oom")
         ELSE /\ free' = free \ {space, pml4}
              /\ table' = [table EXCEPT ![pml4] = [NoEntries EXCEPT ![LOW] = table[kernel_pml4][LOW]]]
              /\ spaces' = SetSpace(space, [new EXCEPT !.pml4 = pml4])
              /\ UNCHANGED <<content, panic>>

\* A page from pmm_alloc_page that gets the bytes of the program (or stays
\* zero), and vmm_map: the lower table is created when it is not there, and
\* the virtual page must not be mapped.  Of the kasserts of vmm_map only this
\* last one can depend on the history: the callers pass a space they just
\* created and addresses of whole pages, and never use huge pages, so the
\* kasserts on null, alignment and huge pages are left out.
vmm_map(space, va, bytes, r) ==
  LET pml4 == spaces[space].pml4
      page == Least(free)
      pt == table[pml4][va[1]]
      new == Least(free \ {page})
  IN  IF pt # 0 /\ table[pt][va[2]] # 0 THEN Panics("kassert")
      ELSE IF pt = 0 /\ free = {page} THEN Panics("oom")
      ELSE /\ free' = free \ (IF pt = 0 THEN {page, new} ELSE {page})
           /\ table' = IF pt = 0
                       THEN [table EXCEPT ![pml4][va[1]] = new,
                                          ![new] = [NoEntries EXCEPT ![va[2]] = page]]
                       ELSE [table EXCEPT ![pt][va[2]] = page]
           /\ content' = [content EXCEPT ![page] = bytes]
           /\ spaces' = SetSpace(space, r)
           /\ UNCHANGED panic

\* vmm_unmap.
vmm_unmap(space, va) ==
  LET pt == table[spaces[space].pml4][va[1]]
  IN  table' = IF pt = 0 THEN table ELSE [table EXCEPT ![pt][va[2]] = 0]

\* Variant of Private in which no entry is shared.
PrivateAll == Pml4Indices

\* The entries of a PML4 that vmm_destroy_address_space visits.
Private == Pml4Indices \ {LOW}

\* It frees the tables below these entries, the PML4 and the object.
vmm_destroy_address_space(space) ==
  LET pml4 == spaces[space].pml4
      tables == {table[pml4][k] : k \in Private} \ {0}
  IN  /\ free' = free \cup tables \cup {pml4, space}
      /\ spaces' = [s \in DOMAIN spaces \ {space} |-> spaces[s]]
      /\ UNCHANGED <<table, content, panic>>

-----------------------------------------------------------------------------
(* run_memory_smoke_tests, before the first process.  It asserts that there  *)
(* are the pages it asks for.                                                *)

Running == panic = "no" /\ boot = "done"
Booting(step, next) == panic = "no" /\ boot = step /\ boot' = next

TestVa == <<STACK, Least(StackPages)>>

SmokeCreate ==
  /\ Booting("create", "map")
  /\ IF free = {} THEN Panics("oom")
     ELSE vmm_create_address_space([pml4 |-> 0, image |-> "zero", segments |-> {}, stack |-> {}])

SmokeMap ==
  /\ Booting("map", "unmap")
  /\ \E space \in DOMAIN spaces :
       IF free = {} THEN Panics("oom") ELSE vmm_map(space, TestVa, "zero", spaces[space])

SmokeUnmap ==
  /\ Booting("unmap", "destroy")
  /\ \E space \in DOMAIN spaces :
       /\ vmm_unmap(space, TestVa)
       /\ free' = free \cup {vmm_virt_to_phys(table, spaces[space].pml4, TestVa)}
  /\ UNCHANGED <<content, spaces, panic>>

SmokeDestroy ==
  /\ Booting("destroy", "done")
  /\ \E space \in DOMAIN spaces : vmm_destroy_address_space(space)

-----------------------------------------------------------------------------
(* process_spawn_from_elf, and the end of the process. *)

\* One spawn is in progress at a time.
Spawning == \E space \in DOMAIN spaces : spaces[space].segments \cup spaces[space].stack # {}

SpawnCreate(image) ==
  /\ Running /\ ~Spawning /\ Cardinality(DOMAIN spaces) < MaxSpaces
  /\ vmm_create_address_space(
       [pml4 |-> 0, image |-> image, segments |-> ImagePages, stack |-> StackPages])
  /\ UNCHANGED boot

\* Variant of LoadSegment that maps without asking vmm_virt_to_phys.
LoadSegmentUnchecked(space) ==
  /\ Running /\ spaces[space].segments # {}
  /\ LET k == Least(spaces[space].segments)
     IN  IF free = {} THEN vmm_destroy_address_space(space)
         ELSE vmm_map(space, <<LOW, k>>, spaces[space].image,
                      [spaces[space] EXCEPT !.segments = @ \ {k}])
  /\ UNCHANGED boot

\* load_elf_into_as maps the page of a segment unless it is mapped, and
\* copies the bytes of the program to where the address translates.
LoadSegment(space) ==
  /\ Running /\ spaces[space].segments # {}
  /\ LET k == Least(spaces[space].segments)
         phys == vmm_virt_to_phys(table, spaces[space].pml4, <<LOW, k>>)
         r == [spaces[space] EXCEPT !.segments = @ \ {k}]
     IN  IF phys # 0
         THEN /\ content' = [content EXCEPT ![phys] = spaces[space].image]
              /\ spaces' = SetSpace(space, r)
              /\ UNCHANGED <<free, table, panic>>
         ELSE IF free = {} THEN vmm_destroy_address_space(space)
         ELSE vmm_map(space, <<LOW, k>>, spaces[space].image, r)
  /\ UNCHANGED boot

\* map_user_stack.
MapStackPage(space) ==
  /\ Running /\ spaces[space].segments = {} /\ spaces[space].stack # {}
  /\ LET k == Least(spaces[space].stack)
     IN  IF free = {} THEN vmm_destroy_address_space(space)
         ELSE vmm_map(space, <<STACK, k>>, "zero", [spaces[space] EXCEPT !.stack = @ \ {k}])
  /\ UNCHANGED boot

IsRunning(space) == spaces[space].segments \cup spaces[space].stack = {}

\* The process exits and is reaped, or found no task slot.
Exit(space) ==
  /\ Running /\ IsRunning(space)
  /\ vmm_destroy_address_space(space)
  /\ UNCHANGED boot

Next ==
  \/ SmokeCreate \/ SmokeMap \/ SmokeUnmap \/ SmokeDestroy
  \/ \E image \in Images : SpawnCreate(image)
  \/ \E space \in DOMAIN spaces : LoadSegment(space) \/ MapStackPage(space) \/ Exit(space)

Spec == Init /\ [][Next]_vars

-----------------------------------------------------------------------------
(* Properties. *)

\* The pages the page walk of an address space visits.
TablesOf(space) ==
  {space, spaces[space].pml4} \cup ({table[spaces[space].pml4][k] : k \in Pml4Indices} \ {0})

\* The pages an address space translates to through the entries K of its PML4.
Translations(space, K) ==
  {vmm_virt_to_phys(table, spaces[space].pml4, <<k, l>>) : k \in K, l \in Lower} \ {0}

Mapped(space) == Translations(space, Pml4Indices)

\* No address space, and not the kernel, walks or reaches a page that is
\* free: destroying one leaves the tables of all others alone.
NoFreePageReachable ==
  /\ kernel_low \notin free /\ kernel_pml4 \notin free
  /\ \A space \in DOMAIN spaces : (TablesOf(space) \cup Mapped(space)) \cap free = {}

\* The pages of an address space that no other one may reach: its tables, and
\* what its own PML4 entries translate to.
OwnPages(space) == (TablesOf(space) \ {kernel_low}) \cup Translations(space, Private)

\* No page serves two purposes: what belongs to an address space is neither
\* walked nor mapped by another one, and no table is mapped as data.
PagesNotShared ==
  \A a, b \in DOMAIN spaces :
    /\ (TablesOf(a) \ {kernel_low}) \cap Mapped(b) = {}
    /\ a # b => OwnPages(a) \cap (TablesOf(b) \cup Mapped(b)) = {}

\* The kassert "already mapped" of vmm_map holds for every sequence of spawns
\* and exits: no page is mapped twice although all images share their
\* addresses.
NoKassert == panic # "kassert"

\* kernel.c: "Boot two user processes for v1 multiprogram userspace".  A
\* process that runs executes the program it was spawned from.
RunsOwnImage ==
  \A space \in DOMAIN spaces :
    Running /\ IsRunning(space) =>
      \A k \in ImagePages :
        content[vmm_virt_to_phys(table, spaces[space].pml4, <<LOW, k>>)] = spaces[space].image

-----------------------------------------------------------------------------
(* The invariant that is inductive for Next.  Its heart is that every place  *)
(* which holds the number of a page holds one no other place holds.          *)

\* The places: the object, the PML4 and the stack's table of each address
\* space, the entries of that table, and those of the shared table.
Places(sp) ==
  ({"object", "pml4", "table"} \X (DOMAIN sp) \X {0})
    \cup ({"data"} \X (DOMAIN sp) \X Lower)
    \cup ({"image"} \X {0} \X Lower)

StackTable(t, sp, space) == t[sp[space].pml4][STACK]

StackPage(t, sp, space, l) == vmm_virt_to_phys(t, sp[space].pml4, <<STACK, l>>)

PageAt(t, sp, place) ==
  CASE place[1] = "object" -> place[2]
    [] place[1] = "pml4" -> sp[place[2]].pml4
    [] place[1] = "table" -> StackTable(t, sp, place[2])
    [] place[1] = "data" -> StackPage(t, sp, place[2], place[3])
    [] place[1] = "image" -> t[kernel_low][place[3]]

\* No page is at two places, and none that is at a place is free.
UsedOnce(t, sp, f) ==
  /\ \A s \in Places(sp) : PageAt(t, sp, s) \in (Pages \ f) \cup {0}
  /\ \A r, s \in Places(sp) : PageAt(t, sp, r) = PageAt(t, sp, s) /\ PageAt(t, sp, r) # 0 => r = s

Spaces == [pml4 : Pages, image : Images \cup {"zero"},
           segments : SUBSET ImagePages, stack : SUBSET StackPages]

VmmTypes ==
  /\ free \subseteq Pages
  /\ table \in [AllPages -> [Lower \cup Pml4Indices -> AllPages \cup {0}]]
  /\ DOMAIN spaces \subseteq Pages
  /\ spaces \in [DOMAIN spaces -> Spaces]
  /\ boot \in {"create", "map", "unmap", "destroy", "done"}
  /\ panic \in {"no", "oom"}

\* Every address space has the table of the identity map from the kernel.
LowIsShared(t, sp) ==
  /\ t[kernel_pml4][LOW] = kernel_low
  /\ \A space \in DOMAIN sp : t[sp[space].pml4][LOW] = kernel_low

\* A stack page that is left to map is not mapped.
StackLeft(t, sp) == \A space \in DOMAIN sp : \A k \in sp[space].stack : StackPage(t, sp, space, k) = 0

\* What the smoke tests find: their own address space, if any.
SmokeOK ==
  panic = "no" =>
    /\ boot = "create" => DOMAIN spaces = {}
    /\ boot \in {"map", "unmap"} => \A a, b \in DOMAIN spaces : a = b
    /\ boot = "map" =>
         \A space \in DOMAIN spaces : spaces[space].stack = {} /\ StackTable(table, spaces, space) = 0
    /\ boot = "unmap" => \A space \in DOMAIN spaces : StackPage(table, spaces, space, TestVa[2]) # 0

VmmInv ==
  /\ VmmTypes /\ SmokeOK
  /\ UsedOnce(table, spaces, free) /\ LowIsShared(table, spaces) /\ StackLeft(table, spaces)
=============================================================================
