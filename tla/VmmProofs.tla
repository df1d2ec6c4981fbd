----------------------------- MODULE VmmProofs -----------------------------
(***************************************************************************)
(* Proofs about the address spaces of kernel/vmm.c: for every number of    *)
(* pages and of address spaces, and every sequence of spawns and exits.    *)
(***************************************************************************)
EXTENDS Vmm, WellFoundedInduction, TLAPS

-----------------------------------------------------------------------------
(* The allocator. *)

\* pmm_alloc_page returns a free page when there is one.
LEMMA LeastIsIn ==
  ASSUME NEW S, S \subseteq Nat, S # {}
  PROVE  Least(S) \in S
<1>1. PICK R : R = OpToRel(<, Nat)
  BY Zenon
<1>2. IsWellFoundedOn(R, Nat)
  BY <1>1, NatLessThanWellFounded, Zenon
<1>3. PICK x \in S : \A y \in S : <<y, x>> \notin R
  BY ONLY <1>2, S \subseteq Nat, S # {}, WFMin, Zenon
<1>4. \A a, b \in Nat : <<b, a>> \in R <=> b < a
  BY <1>1 DEF OpToRel
<1>5. ASSUME NEW y \in S PROVE x <= y
  <2>1. x \in Nat /\ y \in Nat
    OBVIOUS
  <2>2. ~(y < x)
    BY ONLY <1>3, <1>4, <2>1, y \in S, Zenon
  <2> QED
    BY ONLY <2>1, <2>2
<1> QED
  BY <1>5, Zenon DEF Least

-----------------------------------------------------------------------------
(* Places. *)

\* What a place is: a page of an address space, or of the shared image.
LEMMA PlaceForms ==
  ASSUME NEW sp, NEW s \in Places(sp)
  PROVE  \/ \E v \in DOMAIN sp : \/ s = <<"object", v, 0>>
                                  \/ s = <<"pml4", v, 0>>
                                  \/ s = <<"table", v, 0>>
                                  \/ \E l \in Lower : s = <<"data", v, l>>
         \/ \E l \in Lower : s = <<"image", 0, l>>
BY DEF Places

\* The places of one address space.
LEMMA PlacesOf ==
  ASSUME NEW sp, NEW s \in Places(sp), s[2] # 0
  PROVE  /\ s[2] \in DOMAIN sp
         /\ \/ s = <<"object", s[2], 0>> \/ s = <<"pml4", s[2], 0>> \/ s = <<"table", s[2], 0>>
            \/ \E l \in Lower : s = <<"data", s[2], l>>
BY DEF Places

\* Every address space has all its places.
LEMMA PlacesThere ==
  ASSUME NEW sp
  PROVE  /\ \A v \in DOMAIN sp : /\ <<"object", v, 0>> \in Places(sp)
                                  /\ <<"pml4", v, 0>> \in Places(sp)
                                  /\ <<"table", v, 0>> \in Places(sp)
                                  /\ \A l \in Lower : <<"data", v, l>> \in Places(sp)
         /\ \A l \in Lower : <<"image", 0, l>> \in Places(sp)
BY DEF Places

\* A step moves pages as it should when the places that are new or changed, N,
\* get different free pages or none, and what is free after it was free and is
\* at none of them, or was at a place that is gone.
Moves(t, sp, f, t2, sp2, f2, N) ==
  /\ \A s \in Places(sp2) :
       \/ PageAt(t2, sp2, s) = 0
       \/ s \in Places(sp) /\ PageAt(t2, sp2, s) = PageAt(t, sp, s)
       \/ s \in N /\ PageAt(t2, sp2, s) \in f
  /\ \A r, s \in N : PageAt(t2, sp2, r) = PageAt(t2, sp2, s) => r = s
  /\ \A p \in f2 :
       \/ p \in f /\ \A s \in N : PageAt(t2, sp2, s) # p
       \/ \E r \in Places(sp) : /\ PageAt(t, sp, r) = p
                                /\ r \in Places(sp2) => PageAt(t2, sp2, r) = 0

\* Such a step keeps every page at one place.
LEMMA UsedOnceKept ==
  ASSUME NEW t, NEW sp, NEW f, NEW t2, NEW sp2, NEW f2, NEW N,
         UsedOnce(t, sp, f), f \subseteq Pages, 0 \notin f2,
         Moves(t, sp, f, t2, sp2, f2, N)
  PROVE  UsedOnce(t2, sp2, f2)
<1>1. ASSUME NEW s \in Places(sp2), PageAt(t2, sp2, s) # 0
      PROVE  PageAt(t2, sp2, s) \in Pages \ f2
  BY <1>1 DEF UsedOnce, Moves
<1>2. ASSUME NEW r \in Places(sp2), NEW s \in Places(sp2),
             PageAt(t2, sp2, r) = PageAt(t2, sp2, s), PageAt(t2, sp2, r) # 0
      PROVE  r = s
  BY <1>2 DEF UsedOnce, Moves
<1> QED
  BY <1>1, <1>2 DEF UsedOnce

-----------------------------------------------------------------------------
(* What the invariant says of one address space. *)

\* Constant form of the types.
LEMMA SpaceFacts ==
  ASSUME NEW t, NEW sp, NEW f, UsedOnce(t, sp, f), sp \in [DOMAIN sp -> Spaces],
         NEW v \in DOMAIN sp
  PROVE  /\ v \in (Pages \ f) \cup {0}
         /\ sp[v].pml4 \in Pages \ f
         /\ StackTable(t, sp, v) \in (Pages \ f) \cup {0}
         /\ \A l \in Lower : StackPage(t, sp, v, l) \in (Pages \ f) \cup {0}
<1>1. sp[v].pml4 \in Pages /\ 0 \notin Pages
  BY VmmAssumption DEF Spaces
<1>2. /\ <<"object", v, 0>> \in Places(sp) /\ <<"pml4", v, 0>> \in Places(sp)
      /\ <<"table", v, 0>> \in Places(sp) /\ \A l \in Lower : <<"data", v, l>> \in Places(sp)
  BY PlacesThere
<1>3. /\ PageAt(t, sp, <<"object", v, 0>>) = v
      /\ PageAt(t, sp, <<"pml4", v, 0>>) = sp[v].pml4
      /\ PageAt(t, sp, <<"table", v, 0>>) = StackTable(t, sp, v)
      /\ \A l \in Lower : PageAt(t, sp, <<"data", v, l>>) = StackPage(t, sp, v, l)
  BY DEF PageAt
<1>4. \A s \in Places(sp) : PageAt(t, sp, s) \in (Pages \ f) \cup {0}
  BY DEF UsedOnce
<1>5. ASSUME NEW l \in Lower PROVE StackPage(t, sp, v, l) \in (Pages \ f) \cup {0}
  <2>1. <<"data", v, l>> \in Places(sp) /\ PageAt(t, sp, <<"data", v, l>>) = StackPage(t, sp, v, l)
    BY ONLY <1>2, <1>3, l \in Lower
  <2> QED
    BY ONLY <2>1, <1>4
<1> QED
  BY ONLY <1>1, <1>2, <1>3, <1>4, <1>5

\* Two address spaces have different PML4s, and different tables for the stack.
LEMMA SpacesDiffer ==
  ASSUME NEW t, NEW sp, NEW f, UsedOnce(t, sp, f), sp \in [DOMAIN sp -> Spaces],
         NEW a \in DOMAIN sp, NEW b \in DOMAIN sp
  PROVE  /\ a # b => sp[a].pml4 # sp[b].pml4
         /\ a # b /\ StackTable(t, sp, a) # 0 => StackTable(t, sp, a) # StackTable(t, sp, b)
         /\ StackTable(t, sp, a) # sp[b].pml4
<1>1. sp[a].pml4 # 0 /\ sp[b].pml4 # 0
  BY VmmAssumption DEF Spaces
<1>2. /\ <<"pml4", a, 0>> \in Places(sp) /\ <<"pml4", b, 0>> \in Places(sp)
      /\ <<"table", a, 0>> \in Places(sp) /\ <<"table", b, 0>> \in Places(sp)
  BY PlacesThere, Zenon
<1>3. /\ PageAt(t, sp, <<"pml4", a, 0>>) = sp[a].pml4
      /\ PageAt(t, sp, <<"pml4", b, 0>>) = sp[b].pml4
      /\ PageAt(t, sp, <<"table", a, 0>>) = StackTable(t, sp, a)
      /\ PageAt(t, sp, <<"table", b, 0>>) = StackTable(t, sp, b)
  BY DEF PageAt
<1>4. /\ <<"pml4", a, 0>> = <<"pml4", b, 0>> => a = b
      /\ <<"table", a, 0>> = <<"table", b, 0>> => a = b
      /\ <<"table", a, 0>> # <<"pml4", b, 0>>
  BY ZenonT(60)
<1> QED
  BY <1>1, <1>2, <1>3, <1>4 DEF UsedOnce

\* What the walk of an address space finds is the same in two states.
SameSpace(t, sp, t2, sp2, a) ==
  /\ sp2[a].pml4 = sp[a].pml4
  /\ StackTable(t2, sp2, a) = StackTable(t, sp, a)
  /\ \A l : StackPage(t2, sp2, a, l) = StackPage(t, sp, a, l)
  /\ t2[sp2[a].pml4][LOW] = t[sp[a].pml4][LOW]

\* A write to pages that an address space does not walk leaves it alone.
LEMMA SpaceUntouched ==
  ASSUME NEW t, NEW t2, NEW sp, NEW sp2, NEW a, NEW Q,
         \A p \in AllPages \ Q : t2[p] = t[p],
         sp2[a].pml4 = sp[a].pml4, sp[a].pml4 \in AllPages \ Q,
         StackTable(t, sp, a) \in (AllPages \ Q) \cup {0}
  PROVE  SameSpace(t, sp, t2, sp2, a)
BY DEF StackTable, StackPage, vmm_virt_to_phys, SameSpace

\* Where the walks of the address spaces D are the same, so are their places, and
\* with the shared table those of the images.
SameSpaces(t, sp, t2, sp2, D) ==
  /\ D \subseteq DOMAIN sp /\ 0 \notin DOMAIN sp2 /\ 0 \notin D
  /\ \A a \in D : SameSpace(t, sp, t2, sp2, a)

\* A step that leaves an address space alone leaves the pages at its places.
LEMMA PlacesUntouched ==
  ASSUME NEW t, NEW t2, NEW sp, NEW sp2, NEW D, SameSpaces(t, sp, t2, sp2, D),
         NEW s \in Places(sp2),
         s[2] \in D \/ (s[2] = 0 /\ t2[kernel_low] = t[kernel_low])
  PROVE  s \in Places(sp) /\ PageAt(t2, sp2, s) = PageAt(t, sp, s)
<1>1. ASSUME NEW l \in Lower, s = <<"image", 0, l>>
      PROVE  s \in Places(sp) /\ PageAt(t2, sp2, s) = PageAt(t, sp, s)
  <2>1. PageAt(t2, sp2, s) = t2[kernel_low][l] /\ PageAt(t, sp, s) = t[kernel_low][l]
    BY <1>1 DEF PageAt
  <2>2. s[2] = 0 /\ 0 \notin D
    BY <1>1 DEF SameSpaces
  <2> QED
    BY <1>1, <2>1, <2>2, PlacesThere
<1>2. ASSUME NEW v \in D,
             \/ s = <<"object", v, 0>> \/ s = <<"pml4", v, 0>> \/ s = <<"table", v, 0>>
             \/ \E l \in Lower : s = <<"data", v, l>>
      PROVE  s \in Places(sp) /\ PageAt(t2, sp2, s) = PageAt(t, sp, s)
  <2>1. v \in DOMAIN sp /\ SameSpace(t, sp, t2, sp2, v)
    BY DEF SameSpaces
  <2>2. CASE s = <<"object", v, 0>>
    <3>1. PageAt(t2, sp2, s) = v /\ PageAt(t, sp, s) = v
      BY <2>2 DEF PageAt
    <3> QED BY <2>1, <2>2, <3>1, PlacesThere, Zenon
  <2>3. CASE s = <<"pml4", v, 0>>
    <3>1. PageAt(t2, sp2, s) = sp2[v].pml4 /\ PageAt(t, sp, s) = sp[v].pml4
      BY <2>3 DEF PageAt
    <3> QED BY <2>1, <2>3, <3>1, PlacesThere, Zenon DEF SameSpace
  <2>4. CASE s = <<"table", v, 0>>
    <3>1. PageAt(t2, sp2, s) = StackTable(t2, sp2, v) /\ PageAt(t, sp, s) = StackTable(t, sp, v)
      BY <2>4 DEF PageAt
    <3> QED BY <2>1, <2>4, <3>1, PlacesThere, Zenon DEF SameSpace
  <2>5. ASSUME NEW l \in Lower, s = <<"data", v, l>>
        PROVE  s \in Places(sp) /\ PageAt(t2, sp2, s) = PageAt(t, sp, s)
    <3>1. PageAt(t2, sp2, s) = StackPage(t2, sp2, v, l) /\ PageAt(t, sp, s) = StackPage(t, sp, v, l)
      BY <2>5 DEF PageAt
    <3> QED BY <2>1, <2>5, <3>1, PlacesThere, Zenon DEF SameSpace
  <2> QED
    BY ONLY <1>2, <2>2, <2>3, <2>4, <2>5
<1>3. \/ \E v \in DOMAIN sp2 : \/ s = <<"object", v, 0>>
                              \/ s = <<"pml4", v, 0>>
                              \/ s = <<"table", v, 0>>
                              \/ \E l \in Lower : s = <<"data", v, l>>
      \/ \E l \in Lower : s = <<"image", 0, l>>
  BY ONLY s \in Places(sp2), PlaceForms
<1>4. 0 \notin DOMAIN sp2 /\ 0 \notin D
  BY DEF SameSpaces
<1>5. s[2] \in D \/ s[2] = 0
  OBVIOUS
<1> QED
  BY ONLY <1>1, <1>2, <1>3, <1>4, <1>5

-----------------------------------------------------------------------------
(* The operations, on a page table t, address spaces sp and free pages f. *)

Tables == [AllPages -> [Lower \cup Pml4Indices -> AllPages \cup {0}]]

Shape(t, sp, f) ==
  /\ f \subseteq Pages /\ t \in Tables
  /\ DOMAIN sp \subseteq Pages /\ sp \in [DOMAIN sp -> Spaces]
  /\ UsedOnce(t, sp, f) /\ LowIsShared(t, sp) /\ StackLeft(t, sp)

\* A free page is walked by no address space, and neither is the kernel's.
LEMMA FreshIsUnwalked ==
  ASSUME NEW t, NEW sp, NEW f, Shape(t, sp, f), NEW a \in DOMAIN sp,
         NEW q \in f \cup {kernel_low}
  PROVE  sp[a].pml4 # q /\ StackTable(t, sp, a) # q
<1>1. /\ sp[a].pml4 \in Pages \ f
      /\ StackTable(t, sp, a) \in (Pages \ f) \cup {0}
  BY SpaceFacts DEF Shape
<1> QED
  BY <1>1, VmmAssumption DEF kernel_low, Shape

\* What an address space walks are pages.
LEMMA WalkedArePages ==
  ASSUME NEW t, NEW sp, NEW f, Shape(t, sp, f), NEW a \in DOMAIN sp
  PROVE  sp[a].pml4 \in AllPages /\ StackTable(t, sp, a) \in AllPages \cup {0}
BY SpaceFacts DEF Shape, AllPages

\* The address spaces with an entry set, and the page tables with an entry, a
\* table or a PML4 that is new.
Sets(sp, v, r, sp2) == sp2 = [s \in DOMAIN sp \cup {v} |-> IF s = v THEN r ELSE sp[s]]

Entry(t, p, l, x, t2) == t2 = [t EXCEPT ![p][l] = x]

NewTable(t, sp, v, new, l, x, t2) ==
  t2 = [t EXCEPT ![sp[v].pml4][STACK] = new, ![new] = [NoEntries EXCEPT ![l] = x]]

NewPml4(t, p, t2) == t2 = [t EXCEPT ![p] = [NoEntries EXCEPT ![LOW] = kernel_low]]

\* vmm_create_address_space: the new object and the new PML4 were free.
LEMMA CreateKeeps ==
  ASSUME NEW t, NEW sp, NEW f, Shape(t, sp, f), NEW v \in f, NEW pml4 \in f, v # pml4,
         NEW r \in Spaces, r.pml4 = pml4,
         NEW t2, NewPml4(t, pml4, t2), NEW sp2, Sets(sp, v, r, sp2)
  PROVE  /\ Shape(t2, sp2, f \ {v, pml4})
         /\ StackTable(t2, sp2, v) = 0
<1> DEFINE f2 == f \ {v, pml4}
           N == {<<"object", v, 0>>, <<"pml4", v, 0>>}
<1> /\ t2 = [t EXCEPT ![pml4] = [NoEntries EXCEPT ![LOW] = kernel_low]]
    /\ sp2 = [s \in DOMAIN sp \cup {v} |-> IF s = v THEN r ELSE sp[s]]
  BY DEF Sets, NewPml4
<1>1. /\ f \subseteq Pages /\ t \in Tables /\ DOMAIN sp \subseteq Pages
      /\ sp \in [DOMAIN sp -> Spaces] /\ UsedOnce(t, sp, f) /\ LowIsShared(t, sp) /\ StackLeft(t, sp)
  BY DEF Shape
<1>2. /\ v \in Pages /\ pml4 \in Pages /\ pml4 \in AllPages /\ pml4 # kernel_low /\ pml4 # kernel_pml4
      /\ 0 \notin Pages /\ kernel_low \in AllPages /\ kernel_pml4 \in AllPages
  BY <1>1, VmmAssumption DEF AllPages, kernel_low, kernel_pml4
<1>3. v \notin DOMAIN sp
  <2> SUFFICES ASSUME v \in DOMAIN sp PROVE FALSE
    OBVIOUS
  <2>1. v \in (Pages \ f) \cup {0}
    BY <1>1, SpaceFacts
  <2> QED
    BY <1>2, <2>1
<1>4. /\ DOMAIN sp2 = DOMAIN sp \cup {v} /\ sp2[v] = r
      /\ \A a \in DOMAIN sp : sp2[a] = sp[a]
  BY <1>3
<1>5. /\ \A p \in AllPages \ {pml4} : t2[p] = t[p]
      /\ t2[pml4][LOW] = kernel_low /\ t2[pml4][STACK] = 0 /\ t2 \in Tables
  BY <1>1, <1>2 DEF Tables, NoEntries, Pml4Indices, LOW, STACK
<1>6. /\ DOMAIN sp2 \subseteq Pages /\ sp2 \in [DOMAIN sp2 -> Spaces] /\ f2 \subseteq Pages
      /\ 0 \notin DOMAIN sp2 /\ 0 \notin f2
  BY <1>1, <1>2, <1>4
<1>7. ASSUME NEW a \in DOMAIN sp PROVE SameSpace(t, sp, t2, sp2, a)
  <2>1. sp[a].pml4 # pml4 /\ StackTable(t, sp, a) # pml4
    <3>1. pml4 \in f \cup {kernel_low}
      OBVIOUS
    <3> QED
      BY ONLY <3>1, Shape(t, sp, f), a \in DOMAIN sp, FreshIsUnwalked
  <2>2. sp[a].pml4 \in AllPages /\ StackTable(t, sp, a) \in AllPages \cup {0}
    BY ONLY Shape(t, sp, f), a \in DOMAIN sp, WalkedArePages
  <2>3. sp2[a].pml4 = sp[a].pml4 /\ sp[a].pml4 \in AllPages \ {pml4}
    BY ONLY <1>4, <2>1, <2>2, a \in DOMAIN sp
  <2>4. StackTable(t, sp, a) \in (AllPages \ {pml4}) \cup {0}
    BY ONLY <2>1, <2>2
  <2>5. \A p \in AllPages \ {pml4} : t2[p] = t[p]
    BY ONLY <1>5, Zenon
  <2> QED
    BY ONLY <2>3, <2>4, <2>5, SpaceUntouched, Zenon
<1>8. /\ StackTable(t2, sp2, v) = 0 /\ \A l : StackPage(t2, sp2, v, l) = 0
      /\ t2[sp2[v].pml4][LOW] = kernel_low
  BY <1>4, <1>5 DEF StackTable, StackPage, vmm_virt_to_phys
<1>9. LowIsShared(t2, sp2)
  <2>1. t2[kernel_pml4][LOW] = kernel_low
    BY <1>1, <1>2, <1>5 DEF LowIsShared
  <2>2. ASSUME NEW a \in DOMAIN sp PROVE t2[sp2[a].pml4][LOW] = kernel_low
    BY ONLY <1>1, <1>7, a \in DOMAIN sp DEF LowIsShared, SameSpace
  <2> QED
    BY ONLY <1>4, <1>8, <2>1, <2>2 DEF LowIsShared
<1>10. StackLeft(t2, sp2)
  <2>1. ASSUME NEW a \in DOMAIN sp, NEW k \in sp2[a].stack PROVE StackPage(t2, sp2, a, k) = 0
    BY ONLY <1>1, <1>4, <1>7, a \in DOMAIN sp, k \in sp2[a].stack DEF StackLeft, SameSpace
  <2> QED
    BY ONLY <1>4, <1>8, <2>1 DEF StackLeft
<1>11. UsedOnce(t2, sp2, f2)
  <2>1. /\ PageAt(t2, sp2, <<"object", v, 0>>) = v /\ PageAt(t2, sp2, <<"pml4", v, 0>>) = pml4
        /\ PageAt(t2, sp2, <<"table", v, 0>>) = 0
        /\ \A l : PageAt(t2, sp2, <<"data", v, l>>) = 0
    BY <1>4, <1>8, Zenon DEF PageAt
  <2>2. t2[kernel_low] = t[kernel_low]
    BY <1>2, <1>5
  <2>3. ASSUME NEW s \in Places(sp2), s[2] \in DOMAIN sp \cup {0}
        PROVE  s \in Places(sp) /\ PageAt(t2, sp2, s) = PageAt(t, sp, s)
    <3>1. SameSpaces(t, sp, t2, sp2, DOMAIN sp)
      BY ONLY <1>2, <1>1, <1>6, <1>7 DEF SameSpaces
    <3> QED
      BY ONLY s \in Places(sp2), <2>2, <2>3, <3>1, PlacesUntouched
  <2>4. ASSUME NEW s \in Places(sp2), s[2] \notin DOMAIN sp \cup {0}
        PROVE  PageAt(t2, sp2, s) = 0 \/ (s \in N /\ PageAt(t2, sp2, s) \in f)
    <3>1. \/ s = <<"object", v, 0>> \/ s = <<"pml4", v, 0>> \/ s = <<"table", v, 0>>
          \/ \E l \in Lower : s = <<"data", v, l>>
      <4>1. s[2] \in DOMAIN sp2
        BY ONLY s \in Places(sp2), <2>4, PlacesOf
      <4>2. s[2] = v
        BY ONLY <1>4, <2>4, <4>1
      <4> QED
        BY ONLY s \in Places(sp2), <1>6, <2>4, <4>2, PlacesOf
    <3> QED
      BY <2>1, <3>1, Zenon
  <2>5. \A s \in Places(sp2) :
           \/ PageAt(t2, sp2, s) = 0
           \/ s \in Places(sp) /\ PageAt(t2, sp2, s) = PageAt(t, sp, s)
           \/ s \in N /\ PageAt(t2, sp2, s) \in f
    BY <2>3, <2>4, Zenon
  <2>6. \A x, y \in N : PageAt(t2, sp2, x) = PageAt(t2, sp2, y) => x = y
    BY <2>1
  <2>7. \A p \in f2 :
           \/ p \in f /\ \A s \in N : PageAt(t2, sp2, s) # p
           \/ \E x \in Places(sp) : /\ PageAt(t, sp, x) = p
                                    /\ x \in Places(sp2) => PageAt(t2, sp2, x) = 0
    BY <2>1
  <2>8. UsedOnce(t, sp, f) /\ f \subseteq Pages /\ 0 \notin f2
    BY <1>1, <1>6
  <2> HIDE DEF f2, N
  <2>9. Moves(t, sp, f, t2, sp2, f2, N)
    BY ONLY <2>5, <2>6, <2>7 DEF Moves
  <2> QED
    BY ONLY <2>8, <2>9, UsedOnceKept
<1> QED
  BY <1>5, <1>6, <1>8, <1>9, <1>10, <1>11 DEF Shape

\* A step that touches the address space v only, and not its PML4.
Update(sp, sp2, v) ==
  /\ v \in DOMAIN sp /\ DOMAIN sp2 = DOMAIN sp /\ sp2 \in [DOMAIN sp -> Spaces]
  /\ sp2[v].pml4 = sp[v].pml4 /\ \A a \in DOMAIN sp \ {v} : sp2[a] = sp[a]

\* Replacing the record of an address space is an update of that one.
LEMMA SetSpaceUpdates ==
  ASSUME NEW sp, sp \in [DOMAIN sp -> Spaces], NEW v \in DOMAIN sp, NEW r \in Spaces,
         r.pml4 = sp[v].pml4,
         NEW sp2, Sets(sp, v, r, sp2)
  PROVE  Update(sp, sp2, v) /\ sp2[v] = r
BY DEF Update, Sets

\* A step on one address space that moves pages between the free list and new
\* places keeps the shape of all.
LEMMA StepKeepsShape ==
  ASSUME NEW t, NEW sp, NEW f, Shape(t, sp, f), NEW t2 \in Tables, NEW f2, f2 \subseteq Pages,
         NEW v, NEW sp2, Update(sp, sp2, v),
         SameSpaces(t, sp, t2, sp2, DOMAIN sp \ {v}),
         t2[kernel_pml4] = t[kernel_pml4], t2[sp[v].pml4][LOW] = kernel_low,
         \A k \in sp2[v].stack : StackPage(t2, sp2, v, k) = 0,
         NEW N, Moves(t, sp, f, t2, sp2, f2, N)
  PROVE  Shape(t2, sp2, f2)
<1>1. /\ f \subseteq Pages /\ DOMAIN sp \subseteq Pages /\ UsedOnce(t, sp, f)
      /\ LowIsShared(t, sp) /\ StackLeft(t, sp)
  BY DEF Shape
<1>2. /\ v \in DOMAIN sp /\ DOMAIN sp2 = DOMAIN sp /\ sp2 \in [DOMAIN sp2 -> Spaces]
      /\ sp2[v].pml4 = sp[v].pml4 /\ \A a \in DOMAIN sp \ {v} : sp2[a] = sp[a]
  BY DEF Update
<1>3. 0 \notin f2
  BY VmmAssumption
<1>4. UsedOnce(t2, sp2, f2)
  BY ONLY <1>1, <1>3, Moves(t, sp, f, t2, sp2, f2, N), UsedOnceKept
<1>5. LowIsShared(t2, sp2)
  <2>1. ASSUME NEW a \in DOMAIN sp PROVE t2[sp2[a].pml4][LOW] = kernel_low
    BY <1>1, <1>2, ZenonT(60) DEF SameSpaces, SameSpace, LowIsShared
  <2>2. t2[kernel_pml4][LOW] = kernel_low
    BY <1>1 DEF LowIsShared
  <2> QED
    BY ONLY <1>2, <2>1, <2>2 DEF LowIsShared
<1>6. StackLeft(t2, sp2)
  <2>1. ASSUME NEW a \in DOMAIN sp, a # v, NEW k \in sp2[a].stack PROVE StackPage(t2, sp2, a, k) = 0
    <3>1. a \in DOMAIN sp \ {v} /\ SameSpace(t, sp, t2, sp2, a)
      BY <2>1 DEF SameSpaces
    <3>2. StackPage(t2, sp2, a, k) = StackPage(t, sp, a, k) /\ k \in sp[a].stack
      BY ONLY <1>2, <3>1, k \in sp2[a].stack DEF SameSpace
    <3> QED
      BY ONLY <1>1, <3>1, <3>2 DEF StackLeft
  <2> QED
    BY <1>2, <2>1 DEF StackLeft
<1> QED
  BY <1>1, <1>2, <1>4, <1>5, <1>6 DEF Shape

\* Such a step keeps all places but those of the stack of v.
LEMMA OtherPlaces ==
  ASSUME NEW t, NEW sp, NEW f, Shape(t, sp, f), NEW t2, NEW v, NEW sp2, Update(sp, sp2, v),
         SameSpaces(t, sp, t2, sp2, DOMAIN sp \ {v}), t2[kernel_low] = t[kernel_low],
         NEW s \in Places(sp2)
  PROVE  /\ s \in Places(sp)
         /\ \/ PageAt(t2, sp2, s) = PageAt(t, sp, s)
            \/ s = <<"table", v, 0>>
            \/ \E m \in Lower : s = <<"data", v, m>>
<1>1. PICK D : D = DOMAIN sp \ {v}
  OBVIOUS
<1>2. v \in DOMAIN sp /\ DOMAIN sp2 = DOMAIN sp /\ sp2[v].pml4 = sp[v].pml4
  BY DEF Update
<1>3. 0 \notin DOMAIN sp2
  BY DEF SameSpaces
<1>4. CASE s[2] # v
  <2>1. s[2] \in D \/ s[2] = 0
    BY ONLY s \in Places(sp2), <1>1, <1>2, <1>4, PlacesOf
  <2>2. SameSpaces(t, sp, t2, sp2, D)
    BY <1>1
  <2>3. s[2] \in D \/ (s[2] = 0 /\ t2[kernel_low] = t[kernel_low])
    BY <2>1
  <2> QED
    BY ONLY s \in Places(sp2), <2>2, <2>3, PlacesUntouched
<1>5. CASE s[2] = v
  <2>1. \/ s = <<"object", v, 0>> \/ s = <<"pml4", v, 0>> \/ s = <<"table", v, 0>>
        \/ \E m \in Lower : s = <<"data", v, m>>
    BY ONLY s \in Places(sp2), <1>2, <1>3, <1>5, PlacesOf
  <2>2. s \in Places(sp)
    BY ONLY <1>2, <2>1, PlacesThere, Zenon
  <2>3. CASE s = <<"object", v, 0>>
    BY <2>2, <2>3 DEF PageAt
  <2>4. CASE s = <<"pml4", v, 0>>
    BY <1>2, <2>2, <2>4 DEF PageAt
  <2> QED
    BY ONLY <2>1, <2>2, <2>3, <2>4
<1> QED
  BY <1>4, <1>5

\* vmm_map of a page of an image: the entry is in the table that all share.
LEMMA MapImageKeeps ==
  ASSUME NEW t, NEW sp, NEW f, Shape(t, sp, f), NEW v, NEW sp2, Update(sp, sp2, v),
         sp2[v].stack \subseteq sp[v].stack, NEW page \in f, NEW l \in Lower,
         NEW t2, Entry(t, kernel_low, l, page, t2)
  PROVE  Shape(t2, sp2, f \ {page})
<1> DEFINE f2 == f \ {page}
           N == {<<"image", 0, l>>}
<1> t2 = [t EXCEPT ![kernel_low][l] = page]
  BY DEF Entry
<1>1. /\ f \subseteq Pages /\ t \in Tables /\ DOMAIN sp \subseteq Pages
      /\ LowIsShared(t, sp) /\ StackLeft(t, sp)
  BY DEF Shape
<1>2. /\ v \in DOMAIN sp /\ DOMAIN sp2 = DOMAIN sp
      /\ sp2[v].pml4 = sp[v].pml4 /\ \A a \in DOMAIN sp \ {v} : sp2[a] = sp[a]
  BY DEF Update
<1>3. /\ page \in Pages /\ 0 \notin Pages /\ kernel_low \in AllPages /\ kernel_pml4 \in AllPages
      /\ kernel_low # kernel_pml4 /\ kernel_low \notin Pages /\ page \in AllPages
  BY <1>1, VmmAssumption DEF AllPages, kernel_low, kernel_pml4
<1>4. /\ \A p \in AllPages \ {kernel_low} : t2[p] = t[p]
      /\ t2[kernel_low][l] = page /\ \A m \in Lower \ {l} : t2[kernel_low][m] = t[kernel_low][m]
      /\ t2 \in Tables
  BY <1>1, <1>3, Zenon DEF Tables
<1>5. ASSUME NEW a \in DOMAIN sp PROVE SameSpace(t, sp, t2, sp2, a)
  <2>1. sp[a].pml4 # kernel_low /\ StackTable(t, sp, a) # kernel_low
    <3>1. kernel_low \in f \cup {kernel_low}
      OBVIOUS
    <3> QED
      BY ONLY <3>1, Shape(t, sp, f), a \in DOMAIN sp, FreshIsUnwalked
  <2>2. sp[a].pml4 \in AllPages /\ StackTable(t, sp, a) \in AllPages \cup {0}
    BY ONLY Shape(t, sp, f), a \in DOMAIN sp, WalkedArePages
  <2>3. sp2[a].pml4 = sp[a].pml4 /\ sp[a].pml4 \in AllPages \ {kernel_low}
    BY ONLY <1>2, <2>1, <2>2, a \in DOMAIN sp
  <2>4. StackTable(t, sp, a) \in (AllPages \ {kernel_low}) \cup {0}
    BY ONLY <2>1, <2>2
  <2>5. \A p \in AllPages \ {kernel_low} : t2[p] = t[p]
    BY ONLY <1>4
  <2> QED
    BY ONLY <2>3, <2>4, <2>5, SpaceUntouched, Zenon
<1>6. SameSpaces(t, sp, t2, sp2, DOMAIN sp) /\ SameSpaces(t, sp, t2, sp2, DOMAIN sp \ {v})
  BY ONLY <1>1, <1>2, <1>3, <1>5 DEF SameSpaces
<1>7. Moves(t, sp, f, t2, sp2, f2, N)
  <2>1. PageAt(t2, sp2, <<"image", 0, l>>) = page
    BY <1>4 DEF PageAt
  <2>2. ASSUME NEW s \in Places(sp2), s[2] \in DOMAIN sp
        PROVE  s \in Places(sp) /\ PageAt(t2, sp2, s) = PageAt(t, sp, s)
    BY ONLY s \in Places(sp2), <2>2, <1>6, PlacesUntouched
  <2>3. ASSUME NEW s \in Places(sp2), s[2] \notin DOMAIN sp, s \notin N
        PROVE  s \in Places(sp) /\ PageAt(t2, sp2, s) = PageAt(t, sp, s)
    <3>1. s[2] = 0
      BY ONLY s \in Places(sp2), <1>2, <2>3, PlacesOf
    <3>2. PICK m \in Lower : s = <<"image", 0, m>>
      BY <1>1, <1>2, <1>3, <3>1, s \in Places(sp2) DEF Places
    <3>3. PageAt(t2, sp2, s) = t2[kernel_low][m] /\ PageAt(t, sp, s) = t[kernel_low][m]
      BY <3>2 DEF PageAt
    <3>4. m # l
      BY <2>3, <3>2, Zenon
    <3> QED
      BY <1>4, <3>2, <3>3, <3>4, PlacesThere
  <2> QED
    BY <2>1, <2>2, <2>3, Zenon DEF Moves
<1>8. t2[kernel_pml4] = t[kernel_pml4] /\ t2[sp[v].pml4][LOW] = kernel_low
  BY <1>1, <1>2, <1>3, <1>4, <1>5 DEF LowIsShared, SameSpace
<1>9. \A k \in sp2[v].stack : StackPage(t2, sp2, v, k) = 0
  BY <1>1, <1>2, <1>5, ZenonT(60) DEF StackLeft, SameSpace
<1>10. t2 \in Tables /\ f2 \subseteq Pages
  BY <1>1, <1>4
<1> HIDE DEF f2, N
<1>11. Shape(t2, sp2, f2)
  BY ONLY <1>6, <1>7, <1>8, <1>9, <1>10, Shape(t, sp, f), Update(sp, sp2, v), StepKeepsShape
<1> QED
  BY <1>11 DEF f2

\* vmm_map of a page of a stack whose table is not there.
LEMMA MapFirstKeeps ==
  ASSUME NEW t, NEW sp, NEW f, Shape(t, sp, f), NEW v, NEW sp2, Update(sp, sp2, v),
         NEW page \in f, NEW new \in f, page # new, NEW l \in Lower,
         sp2[v].stack \subseteq Lower \ {l},
         NEW t2, NewTable(t, sp, v, new, l, page, t2)
  PROVE  Shape(t2, sp2, f \ {page, new}) /\ StackPage(t2, sp2, v, l) = page
<1>0. PICK pml4 : pml4 = sp[v].pml4
  OBVIOUS
<1> DEFINE f2 == f \ {page, new}
           N == {<<"table", v, 0>>, <<"data", v, l>>}
           Q == {pml4, new}
<1> t2 = [t EXCEPT ![pml4][STACK] = new, ![new] = [NoEntries EXCEPT ![l] = page]]
  BY <1>0 DEF NewTable
<1>1. /\ f \subseteq Pages /\ t \in Tables /\ DOMAIN sp \subseteq Pages
      /\ sp \in [DOMAIN sp -> Spaces] /\ UsedOnce(t, sp, f)
      /\ LowIsShared(t, sp) /\ StackLeft(t, sp)
  BY DEF Shape
<1>2. /\ v \in DOMAIN sp /\ DOMAIN sp2 = DOMAIN sp
      /\ sp2[v].pml4 = sp[v].pml4 /\ \A a \in DOMAIN sp \ {v} : sp2[a] = sp[a]
  BY DEF Update
<1>3. pml4 \in Pages \ f
  BY <1>0, <1>1, <1>2, SpaceFacts
<1>4. /\ page \in Pages /\ new \in Pages /\ 0 \notin Pages /\ new # pml4 /\ new # 0 /\ page # 0
      /\ page \in AllPages /\ new \in AllPages /\ pml4 \in AllPages
      /\ kernel_low \in AllPages \ Q /\ kernel_pml4 \in AllPages \ Q
  BY <1>1, <1>3, VmmAssumption DEF AllPages, kernel_low, kernel_pml4
<1>5. /\ \A p \in AllPages \ Q : t2[p] = t[p]
      /\ t2[pml4][STACK] = new /\ t2[pml4][LOW] = t[pml4][LOW]
      /\ t2[new][l] = page /\ \A m \in Lower \ {l} : t2[new][m] = 0
      /\ t2 \in Tables
  <2> DEFINE row == [NoEntries EXCEPT ![l] = page]
             top == [t[pml4] EXCEPT ![STACK] = new]
  <2>1. /\ row \in [Lower \cup Pml4Indices -> AllPages \cup {0}]
        /\ row[l] = page /\ \A m \in Lower \ {l} : row[m] = 0
    BY <1>4 DEF NoEntries
  <2>2. /\ top \in [Lower \cup Pml4Indices -> AllPages \cup {0}]
        /\ top[STACK] = new /\ top[LOW] = t[pml4][LOW]
    BY <1>1, <1>4 DEF Tables, Pml4Indices, LOW, STACK
  <2> HIDE DEF row
  <2>3. t2 = [p \in AllPages |-> IF p = new THEN row ELSE IF p = pml4 THEN top ELSE t[p]]
    BY <1>1, <1>4, Zenon DEF Tables, row
  <2> HIDE DEF top
  <2>4. t2[new] = row /\ t2[pml4] = top /\ \A p \in AllPages \ Q : t2[p] = t[p]
    BY ONLY <1>4, <2>3
  <2>5. t2 \in Tables
    BY <1>1, <2>1, <2>2, <2>3, ZenonT(60) DEF Tables
  <2> QED
    BY ONLY <2>1, <2>2, <2>4, <2>5
<1>6. ASSUME NEW a \in DOMAIN sp, a # v PROVE SameSpace(t, sp, t2, sp2, a)
  <2>1. sp[a].pml4 # new /\ StackTable(t, sp, a) # new
    <3>1. new \in f \cup {kernel_low}
      OBVIOUS
    <3> QED
      BY ONLY <3>1, Shape(t, sp, f), a \in DOMAIN sp, FreshIsUnwalked
  <2>2. sp[a].pml4 # pml4 /\ StackTable(t, sp, a) # pml4
    <3>1. sp[a].pml4 # sp[v].pml4 /\ StackTable(t, sp, a) # sp[v].pml4
      BY ONLY <1>1, <1>2, <1>6, a \in DOMAIN sp, SpacesDiffer
    <3> QED
      BY <1>0, <3>1
  <2>3. sp[a].pml4 \in AllPages /\ StackTable(t, sp, a) \in AllPages \cup {0}
    BY ONLY Shape(t, sp, f), a \in DOMAIN sp, WalkedArePages
  <2>4. sp2[a].pml4 = sp[a].pml4 /\ sp[a].pml4 \in AllPages \ Q
    BY ONLY <1>2, <1>6, <2>1, <2>2, <2>3, a \in DOMAIN sp
  <2>5. StackTable(t, sp, a) \in (AllPages \ Q) \cup {0}
    BY ONLY <2>1, <2>2, <2>3
  <2>6. \A p \in AllPages \ Q : t2[p] = t[p]
    BY ONLY <1>5
  <2> HIDE DEF Q
  <2> QED
    BY ONLY <2>4, <2>5, <2>6, SpaceUntouched, Zenon
<1>7. SameSpaces(t, sp, t2, sp2, DOMAIN sp \ {v})
  BY ONLY <1>1, <1>2, <1>4, <1>6, Zenon DEF SameSpaces
<1>8. /\ StackTable(t2, sp2, v) = new /\ StackPage(t2, sp2, v, l) = page
      /\ \A m \in Lower \ {l} : StackPage(t2, sp2, v, m) = 0
  <2>1. t2[sp2[v].pml4][STACK] = new /\ new # 0
    BY <1>0, <1>2, <1>4, <1>5
  <2> QED
    BY ONLY <1>5, <2>1, Zenon DEF StackTable, StackPage, vmm_virt_to_phys
<1>9. Moves(t, sp, f, t2, sp2, f2, N)
  <2>1. /\ PageAt(t2, sp2, <<"table", v, 0>>) = new /\ PageAt(t2, sp2, <<"data", v, l>>) = page
        /\ \A m \in Lower \ {l} : PageAt(t2, sp2, <<"data", v, m>>) = 0
    BY <1>8, Zenon DEF PageAt
  <2>2. t2[kernel_low] = t[kernel_low]
    BY <1>4, <1>5, Zenon
  <2>3. ASSUME NEW s \in Places(sp2)
        PROVE  \/ PageAt(t2, sp2, s) = 0
               \/ s \in Places(sp) /\ PageAt(t2, sp2, s) = PageAt(t, sp, s)
               \/ s \in N /\ PageAt(t2, sp2, s) \in f
    <3>1. /\ s \in Places(sp)
          /\ \/ PageAt(t2, sp2, s) = PageAt(t, sp, s)
             \/ s = <<"table", v, 0>>
             \/ \E m \in Lower : s = <<"data", v, m>>
      BY ONLY Shape(t, sp, f), Update(sp, sp2, v), <1>7, <2>2, s \in Places(sp2), OtherPlaces
    <3>2. CASE s = <<"table", v, 0>>
      BY <2>1, <3>2
    <3>3. ASSUME NEW m \in Lower, s = <<"data", v, m>>
          PROVE  PageAt(t2, sp2, s) = 0 \/ (s \in N /\ PageAt(t2, sp2, s) \in f)
      BY <2>1, <3>3, Zenon
    <3> QED
      BY <3>1, <3>2, <3>3, Zenon
  <2>4. \A x, y \in N : PageAt(t2, sp2, x) = PageAt(t2, sp2, y) => x = y
    BY <2>1
  <2>5. \A p \in f2 : p \in f /\ \A s \in N : PageAt(t2, sp2, s) # p
    BY <2>1
  <2> HIDE DEF f2, N
  <2> QED
    BY ONLY <2>3, <2>4, <2>5 DEF Moves
<1>10. t2[kernel_pml4] = t[kernel_pml4] /\ t2[sp[v].pml4][LOW] = kernel_low
  BY <1>0, <1>1, <1>2, <1>4, <1>5, Zenon DEF LowIsShared
<1>11. \A k \in sp2[v].stack : StackPage(t2, sp2, v, k) = 0
  BY <1>8, Zenon
<1>12. t2 \in Tables /\ f2 \subseteq Pages
  BY <1>1, <1>5, Zenon
<1> HIDE DEF f2, N
<1>13. Shape(t2, sp2, f2)
  BY ONLY <1>7, <1>9, <1>10, <1>11, <1>12, Shape(t, sp, f), Update(sp, sp2, v), StepKeepsShape, ZenonT(60)
<1> QED
  BY <1>8, <1>13 DEF f2

\* What the walk of a stack finds when one entry of its table is written.
Writes(t, sp, v, l, x, t2) ==
  /\ StackTable(t, sp, v) # 0
  /\ t2 = [t EXCEPT ![StackTable(t, sp, v)][l] = x]

OneEntry(t, sp, t2, sp2, v, l, x) ==
  /\ t2 \in Tables /\ SameSpaces(t, sp, t2, sp2, DOMAIN sp \ {v})
  /\ t2[kernel_pml4] = t[kernel_pml4] /\ t2[kernel_low] = t[kernel_low]
  /\ t2[sp[v].pml4][LOW] = kernel_low
  /\ StackTable(t2, sp2, v) = StackTable(t, sp, v)
  /\ StackPage(t2, sp2, v, l) = x
  /\ \A m \in Lower \ {l} : StackPage(t2, sp2, v, m) = StackPage(t, sp, v, m)

\* Writing an entry of the stack table changes one place.
LEMMA WriteStackEntry ==
  ASSUME NEW t, NEW sp, NEW f, Shape(t, sp, f), NEW v, NEW sp2, Update(sp, sp2, v),
         NEW l \in Lower, NEW x \in Pages \cup {0}, NEW t2, Writes(t, sp, v, l, x, t2)
  PROVE  OneEntry(t, sp, t2, sp2, v, l, x)
<1>1. /\ f \subseteq Pages /\ t \in Tables /\ DOMAIN sp \subseteq Pages
      /\ sp \in [DOMAIN sp -> Spaces] /\ UsedOnce(t, sp, f) /\ LowIsShared(t, sp)
  BY DEF Shape
<1>2. /\ v \in DOMAIN sp /\ DOMAIN sp2 = DOMAIN sp
      /\ sp2[v].pml4 = sp[v].pml4 /\ \A a \in DOMAIN sp \ {v} : sp2[a] = sp[a]
  BY DEF Update
<1>3. PICK pt : pt = StackTable(t, sp, v)
  OBVIOUS
<1> pt # 0 /\ t2 = [t EXCEPT ![pt][l] = x]
  BY <1>3 DEF Writes
<1>4. sp[v].pml4 \in Pages /\ pt \in Pages /\ pt # sp[v].pml4
  <2>1. /\ sp[v].pml4 \in Pages \ f
        /\ StackTable(t, sp, v) \in (Pages \ f) \cup {0}
    BY ONLY <1>1, <1>2, SpaceFacts
  <2>2. StackTable(t, sp, v) # sp[v].pml4
    BY ONLY <1>1, <1>2, SpacesDiffer
  <2> QED
    BY <1>3, <2>1, <2>2
<1>5. /\ pt \in AllPages /\ sp[v].pml4 \in AllPages /\ 0 \notin Pages
      /\ kernel_low \in AllPages /\ kernel_pml4 \in AllPages /\ kernel_low # pt /\ kernel_pml4 # pt
  BY <1>4, VmmAssumption DEF AllPages, kernel_low, kernel_pml4
<1>6. /\ \A p \in AllPages \ {pt} : t2[p] = t[p]
      /\ t2[pt][l] = x /\ \A m \in Lower \ {l} : t2[pt][m] = t[pt][m]
      /\ t2 \in Tables
  <2>1. PICK q : q = pt
    OBVIOUS
  <2>2. q \in AllPages /\ t2 = [t EXCEPT ![q][l] = x] /\ x \in AllPages \cup {0}
    BY <1>5, <2>1 DEF AllPages
  <2>3. /\ \A p \in AllPages \ {q} : t2[p] = t[p]
        /\ t2[q][l] = x /\ \A m \in Lower \ {l} : t2[q][m] = t[q][m]
        /\ t2 \in Tables
    BY ONLY <1>1, <2>2, l \in Lower, Zenon DEF Tables
  <2> QED
    BY <2>1, <2>3
<1>7. ASSUME NEW a \in DOMAIN sp, a # v PROVE SameSpace(t, sp, t2, sp2, a)
  <2>1. sp[a].pml4 # pt /\ StackTable(t, sp, a) # pt
    <3>1. /\ StackTable(t, sp, v) # sp[a].pml4
          /\ StackTable(t, sp, v) # 0 => StackTable(t, sp, v) # StackTable(t, sp, a)
      BY ONLY <1>1, <1>2, <1>7, a \in DOMAIN sp, SpacesDiffer
    <3> QED
      BY <1>3, <3>1
  <2>2. sp[a].pml4 \in AllPages /\ StackTable(t, sp, a) \in AllPages \cup {0}
    BY ONLY Shape(t, sp, f), a \in DOMAIN sp, WalkedArePages
  <2>3. sp2[a].pml4 = sp[a].pml4 /\ sp[a].pml4 \in AllPages \ {pt}
    BY <1>2, <1>7, <2>1, <2>2
  <2>4. StackTable(t, sp, a) \in (AllPages \ {pt}) \cup {0}
    BY ONLY <2>1, <2>2
  <2>5. \A p \in AllPages \ {pt} : t2[p] = t[p]
    BY ONLY <1>6
  <2> QED
    BY ONLY <2>3, <2>4, <2>5, SpaceUntouched, Zenon
<1>8. SameSpaces(t, sp, t2, sp2, DOMAIN sp \ {v})
  BY ONLY <1>1, <1>2, <1>5, <1>7 DEF SameSpaces
<1>9. t2[sp2[v].pml4] = t[sp[v].pml4]
  BY <1>2, <1>4, <1>5, <1>6, SMTT(60)
<1>10. /\ StackTable(t2, sp2, v) = StackTable(t, sp, v)
       /\ StackPage(t2, sp2, v, l) = x
       /\ \A m \in Lower \ {l} : StackPage(t2, sp2, v, m) = StackPage(t, sp, v, m)
  <2>1. t[sp[v].pml4][STACK] = pt
    BY ONLY <1>3 DEF StackTable
  <2> QED
    BY <1>6, <1>9, <2>1, ZenonT(60) DEF StackTable, StackPage, vmm_virt_to_phys
<1>11. /\ t2[kernel_pml4] = t[kernel_pml4] /\ t2[kernel_low] = t[kernel_low]
       /\ t2[sp[v].pml4][LOW] = kernel_low
  <2>1. t2[kernel_pml4] = t[kernel_pml4] /\ t2[kernel_low] = t[kernel_low]
    BY ONLY <1>5, <1>6
  <2>2. t[sp[v].pml4][LOW] = kernel_low
    BY ONLY <1>1, <1>2 DEF LowIsShared
  <2> QED
    BY ONLY <1>2, <1>9, <2>1, <2>2
<1> QED
  BY ONLY <1>6, <1>8, <1>10, <1>11 DEF OneEntry

\* vmm_map of a page of a stack whose table is there.
LEMMA MapNextKeeps ==
  ASSUME NEW t, NEW sp, NEW f, Shape(t, sp, f), NEW v, NEW sp2, Update(sp, sp2, v),
         NEW page \in f, NEW l \in Lower, sp2[v].stack \subseteq sp[v].stack \ {l},
         NEW t2, Writes(t, sp, v, l, page, t2)
  PROVE  Shape(t2, sp2, f \ {page}) /\ StackPage(t2, sp2, v, l) = page
<1> DEFINE f2 == f \ {page}
           N == {<<"data", v, l>>}
<1>1. /\ f \subseteq Pages /\ page \in Pages \cup {0} /\ StackLeft(t, sp)
      /\ sp \in [DOMAIN sp -> Spaces] /\ v \in DOMAIN sp
  BY DEF Shape, Update
<1>2. /\ t2 \in Tables /\ SameSpaces(t, sp, t2, sp2, DOMAIN sp \ {v})
      /\ t2[kernel_pml4] = t[kernel_pml4] /\ t2[kernel_low] = t[kernel_low]
      /\ t2[sp[v].pml4][LOW] = kernel_low
      /\ StackTable(t2, sp2, v) = StackTable(t, sp, v)
      /\ StackPage(t2, sp2, v, l) = page
      /\ \A m \in Lower \ {l} : StackPage(t2, sp2, v, m) = StackPage(t, sp, v, m)
  <2>1. OneEntry(t, sp, t2, sp2, v, l, page)
    BY ONLY Shape(t, sp, f), Update(sp, sp2, v), l \in Lower, <1>1,
            Writes(t, sp, v, l, page, t2), WriteStackEntry, Zenon
  <2> QED
    BY ONLY <2>1 DEF OneEntry
<1>3. Moves(t, sp, f, t2, sp2, f2, N)
  <2>1. /\ PageAt(t2, sp2, <<"table", v, 0>>) = PageAt(t, sp, <<"table", v, 0>>)
        /\ PageAt(t2, sp2, <<"data", v, l>>) = page
        /\ \A m \in Lower \ {l} : PageAt(t2, sp2, <<"data", v, m>>) = PageAt(t, sp, <<"data", v, m>>)
    BY ONLY <1>2 DEF PageAt
  <2>2. ASSUME NEW s \in Places(sp2)
        PROVE  \/ s \in Places(sp) /\ PageAt(t2, sp2, s) = PageAt(t, sp, s)
               \/ s \in N /\ PageAt(t2, sp2, s) \in f
    <3>1. /\ s \in Places(sp)
          /\ \/ PageAt(t2, sp2, s) = PageAt(t, sp, s)
             \/ s = <<"table", v, 0>>
             \/ \E m \in Lower : s = <<"data", v, m>>
      BY ONLY Shape(t, sp, f), Update(sp, sp2, v), <1>2, s \in Places(sp2), OtherPlaces
    <3>2. CASE s = <<"table", v, 0>>
      BY <2>1, <3>1, <3>2, Zenon
    <3>3. ASSUME NEW m \in Lower, s = <<"data", v, m>>
          PROVE  \/ PageAt(t2, sp2, s) = PageAt(t, sp, s)
                 \/ s \in N /\ PageAt(t2, sp2, s) \in f
      BY <2>1, <3>3, Zenon
    <3> QED
      BY <3>1, <3>2, <3>3, Zenon
  <2>3. \A x, y \in N : PageAt(t2, sp2, x) = PageAt(t2, sp2, y) => x = y
    OBVIOUS
  <2>4. \A p \in f2 : p \in f /\ \A s \in N : PageAt(t2, sp2, s) # p
    BY <2>1
  <2> HIDE DEF f2, N
  <2> QED
    BY ONLY <2>2, <2>3, <2>4 DEF Moves
<1>4. \A k \in sp2[v].stack : StackPage(t2, sp2, v, k) = 0
  <2>1. sp[v].stack \subseteq Lower
    BY <1>1 DEF Spaces, Lower
  <2> QED
    BY <1>1, <1>2, <2>1 DEF StackLeft
<1>5. f2 \subseteq Pages
  BY <1>1, Zenon
<1> HIDE DEF f2, N
<1>6. Shape(t2, sp2, f2)
  BY ONLY <1>2, <1>3, <1>4, <1>5, Shape(t, sp, f), Update(sp, sp2, v), StepKeepsShape, Zenon
<1> QED
  BY <1>2, <1>6 DEF f2

\* vmm_unmap, and the page goes back to the allocator.
LEMMA UnmapKeeps ==
  ASSUME NEW t, NEW sp, NEW f, Shape(t, sp, f), NEW v \in DOMAIN sp, NEW l \in Lower,
         NEW page, page = StackPage(t, sp, v, l), page # 0,
         NEW pt, pt = t[sp[v].pml4][STACK],
         NEW t2, t2 = IF pt = 0 THEN t ELSE [t EXCEPT ![pt][l] = 0]
  PROVE  Shape(t2, sp, f \cup {page})
<1> DEFINE f2 == f \cup {page}
<1>1. /\ f \subseteq Pages /\ StackLeft(t, sp) /\ UsedOnce(t, sp, f)
      /\ sp \in [DOMAIN sp -> Spaces] /\ Update(sp, sp, v)
  BY Zenon DEF Shape, Update
<1>2. pt # 0 /\ t2 = [t EXCEPT ![pt][l] = 0]
  BY DEF StackPage, vmm_virt_to_phys
<1>3. /\ t2 \in Tables /\ SameSpaces(t, sp, t2, sp, DOMAIN sp \ {v})
      /\ t2[kernel_pml4] = t[kernel_pml4] /\ t2[kernel_low] = t[kernel_low]
      /\ t2[sp[v].pml4][LOW] = kernel_low
      /\ StackTable(t2, sp, v) = StackTable(t, sp, v)
      /\ StackPage(t2, sp, v, l) = 0
      /\ \A m \in Lower \ {l} : StackPage(t2, sp, v, m) = StackPage(t, sp, v, m)
  <2>1. 0 \in Pages \cup {0}
    OBVIOUS
  <2>2. Writes(t, sp, v, l, 0, t2)
    BY <1>2 DEF Writes, StackTable
  <2>3. OneEntry(t, sp, t2, sp, v, l, 0)
    BY ONLY Shape(t, sp, f), <1>1, l \in Lower, <2>1, <2>2, WriteStackEntry, Zenon
  <2> QED
    BY ONLY <2>3 DEF OneEntry
<1>4. page \in Pages
  BY <1>1, SpaceFacts
<1>5. Moves(t, sp, f, t2, sp, f2, {})
  <2>1. /\ PageAt(t2, sp, <<"table", v, 0>>) = PageAt(t, sp, <<"table", v, 0>>)
        /\ PageAt(t2, sp, <<"data", v, l>>) = 0
        /\ \A m \in Lower \ {l} : PageAt(t2, sp, <<"data", v, m>>) = PageAt(t, sp, <<"data", v, m>>)
    BY ONLY <1>3 DEF PageAt
  <2>2. ASSUME NEW s \in Places(sp)
        PROVE  PageAt(t2, sp, s) = 0 \/ PageAt(t2, sp, s) = PageAt(t, sp, s)
    <3>1. \/ PageAt(t2, sp, s) = PageAt(t, sp, s)
          \/ s = <<"table", v, 0>>
          \/ \E m \in Lower : s = <<"data", v, m>>
      BY ONLY Shape(t, sp, f), <1>1, <1>3, s \in Places(sp), OtherPlaces
    <3> QED
      BY <2>1, <3>1, ZenonT(60)
  <2>3. <<"data", v, l>> \in Places(sp) /\ PageAt(t, sp, <<"data", v, l>>) = page
    BY PlacesThere, Zenon DEF PageAt
  <2>4. ASSUME NEW p \in f2
        PROVE  p \in f \/ \E x \in Places(sp) : PageAt(t, sp, x) = p /\ PageAt(t2, sp, x) = 0
    BY <2>1, <2>3, Zenon
  <2> HIDE DEF f2
  <2> QED
    BY ONLY <2>2, <2>4 DEF Moves
<1>6. \A k \in sp[v].stack : StackPage(t2, sp, v, k) = 0
  <2>1. sp[v].stack \subseteq Lower
    BY <1>1, Zenon DEF Spaces, Lower
  <2> QED
    BY <1>1, <1>3, <2>1, Zenon DEF StackLeft
<1>7. f2 \subseteq Pages
  BY <1>1, <1>4
<1> HIDE DEF f2
<1>8. Shape(t2, sp, f2)
  BY ONLY <1>1, <1>3, <1>5, <1>6, <1>7, Shape(t, sp, f), StepKeepsShape, Zenon
<1> QED
  BY <1>8, Zenon DEF f2

\* vmm_destroy_address_space: the pages it frees were at places of the address
\* space that is gone.  Those of its stack stay in use.
LEMMA DestroyKeeps ==
  ASSUME NEW t, NEW sp, NEW f, Shape(t, sp, f), NEW v \in DOMAIN sp,
         NEW gone, gone = ({StackTable(t, sp, v)} \ {0}) \cup {sp[v].pml4, v},
         NEW sp2, sp2 = [s \in DOMAIN sp \ {v} |-> sp[s]]
  PROVE  Shape(t, sp2, f \cup gone)
<1> DEFINE f2 == f \cup gone
<1>1. /\ f \subseteq Pages /\ t \in Tables /\ DOMAIN sp \subseteq Pages
      /\ sp \in [DOMAIN sp -> Spaces] /\ UsedOnce(t, sp, f) /\ LowIsShared(t, sp) /\ StackLeft(t, sp)
  BY DEF Shape
<1>2. DOMAIN sp2 = DOMAIN sp \ {v} /\ \A a \in DOMAIN sp \ {v} : sp2[a] = sp[a]
  OBVIOUS
<1>3. 0 \notin Pages
  BY VmmAssumption
<1>4. gone \subseteq Pages
  <2>1. sp[v].pml4 \in Pages \ f /\ StackTable(t, sp, v) \in (Pages \ f) \cup {0}
    BY ONLY <1>1, v \in DOMAIN sp, SpaceFacts
  <2> QED
    BY <1>1, <2>1
<1>5. PICK D : D = DOMAIN sp \ {v}
  OBVIOUS
<1>6. SameSpaces(t, sp, t, sp2, D)
  <2>1. D \subseteq DOMAIN sp /\ 0 \notin DOMAIN sp2 /\ 0 \notin D
    BY <1>1, <1>2, <1>3, <1>5, Zenon
  <2>2. ASSUME NEW a \in D PROVE SameSpace(t, sp, t, sp2, a)
    BY <1>2, <1>5 DEF SameSpace, StackTable, StackPage
  <2> QED
    BY ONLY <2>1, <2>2 DEF SameSpaces
<1>7. Moves(t, sp, f, t, sp2, f2, {})
  <2>1. ASSUME NEW s \in Places(sp2) PROVE s \in Places(sp) /\ PageAt(t, sp2, s) = PageAt(t, sp, s)
    <3>1. s[2] \in D \/ (s[2] = 0 /\ t[kernel_low] = t[kernel_low])
      BY ONLY s \in Places(sp2), <1>2, <1>5, PlacesOf
    <3> QED
      BY ONLY s \in Places(sp2), <1>6, <3>1, PlacesUntouched
  <2>2. /\ <<"object", v, 0>> \notin Places(sp2) /\ <<"pml4", v, 0>> \notin Places(sp2)
        /\ <<"table", v, 0>> \notin Places(sp2)
    BY <1>2 DEF Places
  <2>3. /\ <<"object", v, 0>> \in Places(sp) /\ <<"pml4", v, 0>> \in Places(sp)
        /\ <<"table", v, 0>> \in Places(sp)
    BY PlacesThere
  <2>4. /\ PageAt(t, sp, <<"object", v, 0>>) = v /\ PageAt(t, sp, <<"pml4", v, 0>>) = sp[v].pml4
        /\ PageAt(t, sp, <<"table", v, 0>>) = StackTable(t, sp, v)
    BY DEF PageAt
  <2>5. ASSUME NEW p \in f2
        PROVE  p \in f \/ \E x \in Places(sp) : PageAt(t, sp, x) = p /\ x \notin Places(sp2)
    <3>1. p \in f \/ p = v \/ p = sp[v].pml4 \/ p = StackTable(t, sp, v)
      OBVIOUS
    <3> QED
      BY ONLY <2>2, <2>3, <2>4, <3>1
  <2> HIDE DEF f2
  <2> QED
    BY ONLY <2>1, <2>5 DEF Moves
<1>8. UsedOnce(t, sp2, f2)
  <2>1. 0 \notin f2
    BY <1>1, <1>3, <1>4
  <2> HIDE DEF f2
  <2> QED
    BY ONLY <1>1, <1>7, <2>1, UsedOnceKept
<1>9. LowIsShared(t, sp2)
  BY <1>1, <1>2 DEF LowIsShared
<1>10. StackLeft(t, sp2)
  BY <1>1, <1>2 DEF StackLeft, StackPage
<1>11. DOMAIN sp2 \subseteq Pages /\ sp2 \in [DOMAIN sp2 -> Spaces] /\ f2 \subseteq Pages
  BY <1>1, <1>2, <1>4, Zenon
<1> QED
  BY <1>1, <1>8, <1>9, <1>10, <1>11 DEF Shape

\* load_elf_into_as writes to a page that is mapped: no table changes.
LEMMA CopyKeeps ==
  ASSUME NEW t, NEW sp, NEW f, Shape(t, sp, f), NEW v, NEW sp2, Update(sp, sp2, v),
         sp2[v].stack \subseteq sp[v].stack
  PROVE  Shape(t, sp2, f)
<1>1. /\ f \subseteq Pages /\ t \in Tables /\ DOMAIN sp \subseteq Pages
      /\ sp \in [DOMAIN sp -> Spaces] /\ LowIsShared(t, sp) /\ StackLeft(t, sp)
  BY DEF Shape
<1>2. /\ v \in DOMAIN sp /\ DOMAIN sp2 = DOMAIN sp
      /\ sp2[v].pml4 = sp[v].pml4 /\ \A a \in DOMAIN sp \ {v} : sp2[a] = sp[a]
  BY DEF Update
<1>3. 0 \notin DOMAIN sp
  BY ONLY <1>1, VmmAssumption, Zenon
<1>4. ASSUME NEW a \in DOMAIN sp PROVE SameSpace(t, sp, t, sp2, a)
  BY <1>2 DEF SameSpace, StackTable, StackPage
<1>5. SameSpaces(t, sp, t, sp2, DOMAIN sp) /\ SameSpaces(t, sp, t, sp2, DOMAIN sp \ {v})
  BY <1>2, <1>3, <1>4 DEF SameSpaces
<1>6. ASSUME NEW s \in Places(sp2) PROVE s \in Places(sp) /\ PageAt(t, sp2, s) = PageAt(t, sp, s)
  <2>1. s[2] \in DOMAIN sp \/ (s[2] = 0 /\ t[kernel_low] = t[kernel_low])
    BY ONLY s \in Places(sp2), <1>2, PlacesOf, Zenon
  <2> QED
    BY ONLY s \in Places(sp2), <1>5, <2>1, PlacesUntouched
<1>7. Moves(t, sp, f, t, sp2, f, {})
  BY ONLY <1>6 DEF Moves
<1>8. \A k \in sp2[v].stack : StackPage(t, sp2, v, k) = 0
  BY <1>1, <1>2, <1>4 DEF SameSpace, StackLeft
<1>9. t[kernel_pml4] = t[kernel_pml4] /\ t[sp[v].pml4][LOW] = kernel_low
  BY <1>1, <1>2 DEF LowIsShared
<1> QED
  BY ONLY <1>1, <1>5, <1>7, <1>8, <1>9, Shape(t, sp, f), Update(sp, sp2, v), StepKeepsShape, Zenon

-----------------------------------------------------------------------------
(* The steps. *)

\* VmmInv in the form the steps are proved in.
LEMMA InvParts ==
  VmmInv <=> /\ Shape(table, spaces, free)
             /\ boot \in {"create", "map", "unmap", "destroy", "done"}
             /\ panic \in {"no", "oom"} /\ SmokeOK
BY Zenon DEF VmmInv, VmmTypes, Shape, Tables

\* VmmInv holds at first.
LEMMA InitVmm == Init => VmmInv
<1> SUFFICES ASSUME Init PROVE VmmInv
  OBVIOUS
<1> USE DEF Init
<1>1. table \in Tables
  BY DEF Tables, NoEntries, AllPages, Pml4Indices, LOW, kernel_low
<1>2. DOMAIN spaces = {} /\ spaces \in [DOMAIN spaces -> Spaces]
  OBVIOUS
<1>3. /\ table[kernel_pml4][LOW] = kernel_low
      /\ \A l \in Lower : table[kernel_low][l] = 0
  BY DEF NoEntries, AllPages, Pml4Indices, LOW, kernel_low, kernel_pml4
<1>4. \A s \in Places(spaces) : PageAt(table, spaces, s) = 0
  <2> SUFFICES ASSUME NEW s \in Places(spaces) PROVE PageAt(table, spaces, s) = 0
    OBVIOUS
  <2>1. PICK l \in Lower : s = <<"image", 0, l>>
    BY ONLY <1>2, s \in Places(spaces), PlaceForms
  <2> QED
    BY <1>3, <2>1 DEF PageAt
<1>5. UsedOnce(table, spaces, free)
  BY ONLY <1>4 DEF UsedOnce
<1>6. LowIsShared(table, spaces) /\ StackLeft(table, spaces)
  BY ONLY <1>2, <1>3, Zenon DEF LowIsShared, StackLeft
<1>7. SmokeOK
  BY <1>2 DEF SmokeOK
<1>8. Shape(table, spaces, free)
  BY <1>1, <1>2, <1>5, <1>6 DEF Shape
<1> QED
  BY <1>7, <1>8, InvParts

\* The allocator returns free pages, different ones in a row.
LEMMA TwoPages ==
  ASSUME NEW f, f \subseteq Pages, f # {}
  PROVE  /\ Least(f) \in f
         /\ f # {Least(f)} => Least(f \ {Least(f)}) \in f \ {Least(f)}
<1>1. f \subseteq Nat /\ (f \ {Least(f)}) \subseteq Nat
  BY VmmAssumption, Zenon
<1>2. Least(f) \in f
  BY <1>1, LeastIsIn
<1>3. ASSUME f # {Least(f)} PROVE f \ {Least(f)} # {}
  BY <1>2, <1>3
<1> QED
  BY <1>1, <1>2, <1>3, LeastIsIn

NewRecords == [pml4 : {0}, image : Images \cup {"zero"},
               segments : SUBSET ImagePages, stack : SUBSET StackPages]

\* vmm_create_address_space keeps the shape; unless memory runs out there is
\* a new address space without a stack.
LEMMA CreateStep ==
  ASSUME Shape(table, spaces, free), panic = "no", free # {}, NEW new \in NewRecords,
         vmm_create_address_space(new)
  PROVE  /\ Shape(table, spaces, free)' /\ panic' \in {"no", "oom"}
         /\ panic' = "no" => \E v : /\ DOMAIN spaces' = DOMAIN spaces \cup {v} /\ spaces'[v].stack = new.stack
                                    /\ StackTable(table', spaces', v) = 0
<1>1. PICK v : v = Least(free)
  OBVIOUS
<1>2. PICK p : p = Least(free \ {v})
  OBVIOUS
<1>3. CASE free = {v}
  <2>1. Panics("oom")
    BY <1>1, <1>3 DEF vmm_create_address_space
  <2>2. panic' = "oom" /\ free' = free /\ table' = table /\ spaces' = spaces
    BY <2>1 DEF Panics
  <2> QED
    BY ONLY <2>2, Shape(table, spaces, free)
<1>4. CASE free # {v}
  <2>1. v \in free /\ p \in free /\ v # p
    BY <1>1, <1>2, <1>4, TwoPages DEF Shape
  <2>2. table[kernel_pml4][LOW] = kernel_low
    BY DEF Shape, LowIsShared
  <2>3. PICK r : r = [new EXCEPT !.pml4 = p]
    BY Zenon
  <2>4. r \in Spaces /\ r.pml4 = p
    BY <2>1, <2>3 DEF Shape, Spaces, NewRecords
  <2>5. /\ free' = free \ {v, p}
        /\ table' = [table EXCEPT ![p] = [NoEntries EXCEPT ![LOW] = kernel_low]]
        /\ spaces' = [s \in DOMAIN spaces \cup {v} |-> IF s = v THEN r ELSE spaces[s]]
        /\ panic' = panic
    BY <1>1, <1>2, <1>4, <2>2, <2>3, Zenon DEF vmm_create_address_space, SetSpace
  <2>6. NewPml4(table, p, table') /\ Sets(spaces, v, r, spaces')
    BY <2>5 DEF NewPml4, Sets
  <2>7. /\ Shape(table', spaces', free \ {v, p})
        /\ StackTable(table', spaces', v) = 0
    BY ONLY <2>1, <2>4, <2>6, Shape(table, spaces, free), CreateKeeps
  <2>8. DOMAIN spaces' = DOMAIN spaces \cup {v} /\ spaces'[v].stack = new.stack
    BY <2>3, <2>5, Zenon DEF NewRecords
  <2> QED
    BY ONLY <2>5, <2>7, <2>8, panic = "no", Zenon
<1> QED
  BY <1>3, <1>4, Zenon

\* vmm_map to the stack of an address space: its kassert holds where the virtual
\* page is not mapped.
LEMMA MapStackStep ==
  ASSUME Shape(table, spaces, free), panic = "no", free # {}, NEW v \in DOMAIN spaces,
         NEW l \in Lower, StackPage(table, spaces, v, l) = 0, NEW bytes,
         NEW r \in Spaces, r.pml4 = spaces[v].pml4, r.stack \subseteq spaces[v].stack \ {l},
         vmm_map(v, <<STACK, l>>, bytes, r)
  PROVE  /\ Shape(table, spaces, free)' /\ panic' \in {"no", "oom"}
         /\ panic' = "no" => /\ DOMAIN spaces' = DOMAIN spaces
                             /\ StackPage(table', spaces', v, l) # 0
<1>1. PICK page : page = Least(free)
  BY Zenon
<1>2. PICK new : new = Least(free \ {page})
  BY Zenon
<1>3. PICK pml4 : pml4 = spaces[v].pml4
  OBVIOUS
<1>4. PICK pt : pt = table[pml4][STACK]
  BY Zenon
<1>5. ~(pt # 0 /\ table[pt][l] # 0)
  BY <1>3, <1>4, SMTT(60) DEF StackPage, vmm_virt_to_phys
<1>6. /\ pt = 0 /\ free = {page} => Panics("oom")
      /\ ~(pt = 0 /\ free = {page}) =>
           /\ free' = free \ (IF pt = 0 THEN {page, new} ELSE {page})
           /\ table' = IF pt = 0
                       THEN [table EXCEPT ![pml4][STACK] = new,
                                          ![new] = [NoEntries EXCEPT ![l] = page]]
                       ELSE [table EXCEPT ![pt][l] = page]
           /\ spaces' = SetSpace(v, r) /\ panic' = panic
  BY <1>1, <1>2, <1>3, <1>4, <1>5, Zenon DEF vmm_map
<1>7. /\ free \subseteq Pages /\ 0 \notin Pages /\ spaces \in [DOMAIN spaces -> Spaces]
      /\ spaces[v].stack \subseteq Lower
  BY VmmAssumption DEF Shape, Spaces, Lower
<1>8. page \in free /\ page # 0 /\ (free # {page} => new \in free /\ new # page)
  BY <1>1, <1>2, <1>7, TwoPages
<1>9. CASE pt = 0 /\ free = {page}
  <2>1. panic' = "oom" /\ free' = free /\ table' = table /\ spaces' = spaces
    BY <1>6, <1>9 DEF Panics
  <2> QED
    BY ONLY <2>1, Shape(table, spaces, free)
<1>10. ASSUME ~(pt = 0 /\ free = {page})
       PROVE  Update(spaces, spaces', v) /\ spaces'[v] = r /\ DOMAIN spaces' = DOMAIN spaces
  <2>1. Sets(spaces, v, r, spaces')
    BY <1>6, <1>10 DEF Sets, SetSpace
  <2>2. Update(spaces, spaces', v) /\ spaces'[v] = r
    BY ONLY <1>7, <2>1, v \in DOMAIN spaces, r \in Spaces, r.pml4 = spaces[v].pml4, SetSpaceUpdates
  <2> QED
    BY ONLY <2>2 DEF Update
<1>11. CASE pt = 0 /\ free # {page}
  <2>1. /\ NewTable(table, spaces, v, new, l, page, table')
        /\ free' = free \ {page, new} /\ panic' = "no"
    BY <1>3, <1>6, <1>11 DEF NewTable
  <2>2. Update(spaces, spaces', v) /\ spaces'[v].stack \subseteq Lower \ {l}
    BY <1>7, <1>10, <1>11, Zenon
  <2>3. Shape(table', spaces', free \ {page, new}) /\ StackPage(table', spaces', v, l) = page
    <3>1. page \in free /\ new \in free /\ page # new
      BY ONLY <1>8, <1>11
    <3> QED
      BY ONLY <2>1, <2>2, <3>1, Shape(table, spaces, free), l \in Lower, MapFirstKeeps
  <2> QED
    BY <1>8, <1>10, <1>11, <2>1, <2>3, Zenon
<1>12. CASE pt # 0
  <2>1. Writes(table, spaces, v, l, page, table') /\ free' = free \ {page} /\ panic' = "no"
    BY <1>3, <1>4, <1>6, <1>12, Zenon DEF Writes, StackTable
  <2>2. Update(spaces, spaces', v) /\ spaces'[v].stack \subseteq spaces[v].stack \ {l}
    BY <1>10, <1>12, Zenon
  <2>3. Shape(table', spaces', free \ {page}) /\ StackPage(table', spaces', v, l) = page
    BY ONLY <1>8, <2>1, <2>2, Shape(table, spaces, free), l \in Lower, MapNextKeeps
  <2> QED
    BY <1>8, <1>10, <1>12, <2>1, <2>3, Zenon
<1> QED
  BY <1>9, <1>11, <1>12, Zenon

\* vmm_map to the image: the table is there, the one all share.
LEMMA MapImageStep ==
  ASSUME Shape(table, spaces, free), panic = "no", free # {}, NEW v \in DOMAIN spaces,
         NEW l \in Lower, vmm_virt_to_phys(table, spaces[v].pml4, <<LOW, l>>) = 0, NEW bytes,
         NEW r \in Spaces, r.pml4 = spaces[v].pml4, r.stack \subseteq spaces[v].stack,
         vmm_map(v, <<LOW, l>>, bytes, r)
  PROVE  Shape(table, spaces, free)' /\ panic' = "no"
<1>1. PICK page : page = Least(free)
  OBVIOUS
<1>2. table[spaces[v].pml4][LOW] = kernel_low /\ kernel_low # 0
  BY DEF Shape, LowIsShared, kernel_low
<1>3. table[kernel_low][l] = 0
  BY <1>2, ZenonT(60) DEF vmm_virt_to_phys
<1>4. /\ free' = free \ {page} /\ table' = [table EXCEPT ![kernel_low][l] = page]
      /\ spaces' = SetSpace(v, r) /\ panic' = panic
  BY <1>1, <1>2, <1>3, Zenon DEF vmm_map
<1>5. free \subseteq Pages /\ spaces \in [DOMAIN spaces -> Spaces]
  BY DEF Shape
<1>6. page \in free
  BY <1>1, <1>5, TwoPages
<1>7. Sets(spaces, v, r, spaces') /\ Entry(table, kernel_low, l, page, table')
  BY <1>4 DEF Sets, SetSpace, Entry
<1>8. Update(spaces, spaces', v) /\ spaces'[v] = r
  BY ONLY <1>5, <1>7, v \in DOMAIN spaces, r \in Spaces, r.pml4 = spaces[v].pml4, SetSpaceUpdates
<1>9. spaces'[v].stack \subseteq spaces[v].stack
  BY <1>8
<1>10. Shape(table', spaces', free \ {page})
  BY ONLY <1>6, <1>7, <1>8, <1>9, Shape(table, spaces, free), l \in Lower, MapImageKeeps
<1> QED
  BY ONLY <1>4, <1>10, panic = "no"

\* vmm_destroy_address_space keeps the shape.
LEMMA DestroyStep ==
  ASSUME Shape(table, spaces, free), panic = "no", NEW v \in DOMAIN spaces,
         vmm_destroy_address_space(v)
  PROVE  Shape(table, spaces, free)' /\ panic' = "no"
<1>1. PICK gone : gone = ({StackTable(table, spaces, v)} \ {0}) \cup {spaces[v].pml4, v}
  BY Zenon
<1>2. {table[spaces[v].pml4][k] : k \in Private} = {StackTable(table, spaces, v)}
  <2>1. Private = {STACK}
    BY DEF Private, Pml4Indices, LOW, STACK
  <2> QED
    BY <2>1 DEF StackTable
<1>3. /\ free' = free \cup gone /\ spaces' = [s \in DOMAIN spaces \ {v} |-> spaces[s]]
      /\ table' = table /\ panic' = panic
  <2>1. free' = free \cup ({StackTable(table, spaces, v)} \ {0}) \cup {spaces[v].pml4, v}
    BY <1>2 DEF vmm_destroy_address_space
  <2> QED
    BY <1>1, <2>1 DEF vmm_destroy_address_space
<1>4. PICK sp2 : sp2 = [s \in DOMAIN spaces \ {v} |-> spaces[s]]
  BY Zenon
<1>5. Shape(table, sp2, free \cup gone)
  BY ONLY <1>1, <1>4, Shape(table, spaces, free), v \in DOMAIN spaces, DestroyKeeps
<1> QED
  BY ONLY <1>3, <1>4, <1>5, panic = "no"

\* VmmInv is inductive.
LEMMA VmmStep == VmmInv /\ [Next]_vars => VmmInv'
<1> SUFFICES ASSUME VmmInv, [Next]_vars PROVE VmmInv'
  OBVIOUS
<1>0. ASSUME Shape(table, spaces, free)', SmokeOK', panic' \in {"no", "oom"},
             boot' \in {"create", "map", "unmap", "destroy", "done"}
      PROVE  VmmInv'
  BY <1>0, Zenon DEF VmmInv, VmmTypes, Shape, Tables
<1>1. /\ Shape(table, spaces, free) /\ boot \in {"create", "map", "unmap", "destroy", "done"}
      /\ panic \in {"no", "oom"} /\ SmokeOK
  BY InvParts
<1>2. spaces \in [DOMAIN spaces -> Spaces]
  BY <1>1 DEF Shape
\* Once the smoke tests are done SmokeOK says nothing, and neither after a panic.
<1>3. ASSUME Shape(table, spaces, free)', panic' \in {"no", "oom"}, boot' = "done" \/ panic' = "oom",
             boot' \in {"create", "map", "unmap", "destroy", "done"}
      PROVE  VmmInv'
  <2>1. SmokeOK'
    BY <1>3 DEF SmokeOK
  <2> QED
    BY ONLY <1>3, <2>1, <1>0, Zenon
<1>4. TestVa = <<STACK, TestVa[2]>> /\ TestVa[2] \in Lower
  BY LeastIsIn, VmmAssumption, Zenon DEF TestVa, Lower
<1>5. CASE SmokeCreate
  <2>1. panic = "no" /\ boot = "create" /\ boot' = "map" /\ DOMAIN spaces = {}
    BY <1>1, <1>5 DEF SmokeCreate, Booting, SmokeOK
  <2>2. CASE free = {}
    BY <1>1, <1>3, <1>5, <2>1, <2>2, Zenon DEF SmokeCreate, Panics
  <2>3. CASE free # {}
    <3>1. PICK new : new = [pml4 |-> 0, image |-> "zero", segments |-> {}, stack |-> {}]
      BY Zenon
    <3>2. new \in NewRecords /\ vmm_create_address_space(new)
      BY <1>5, <2>3, <3>1 DEF SmokeCreate, NewRecords
    <3>3. /\ Shape(table, spaces, free)' /\ panic' \in {"no", "oom"}
          /\ panic' = "no" => \E v : /\ DOMAIN spaces' = DOMAIN spaces \cup {v} /\ spaces'[v].stack = new.stack
                                     /\ StackTable(table', spaces', v) = 0
      BY ONLY <1>1, <2>1, <2>3, <3>2, CreateStep, Zenon
    <3>4. SmokeOK'
      BY <2>1, <3>1, <3>3, Zenon DEF SmokeOK
    <3> QED
      BY <2>1, <3>3, <3>4, <1>0
  <2> QED
    BY ONLY <2>2, <2>3, Zenon
<1>6. CASE SmokeMap
  <2>1. panic = "no" /\ boot = "map" /\ boot' = "unmap"
    BY <1>6 DEF SmokeMap, Booting
  <2>2. PICK v \in DOMAIN spaces :
          IF free = {} THEN Panics("oom") ELSE vmm_map(v, TestVa, "zero", spaces[v])
    BY ONLY <1>6, Zenon DEF SmokeMap
  <2>3. /\ StackTable(table, spaces, v) = 0 /\ spaces[v].stack = {}
        /\ \A a \in DOMAIN spaces : a = v
    BY <1>1, <2>1, <2>2 DEF SmokeOK
  <2>4. CASE free = {}
    BY ONLY <1>1, <1>3, <2>1, <2>2, <2>4, Zenon DEF Panics
  <2>5. CASE free # {}
    <3>1. PICK l \in Lower : l = TestVa[2]
      BY <1>4
    <3>2. vmm_map(v, <<STACK, l>>, "zero", spaces[v])
      BY ONLY <1>4, <2>2, <2>5, <3>1, Zenon
    <3>3. StackPage(table, spaces, v, l) = 0
      BY <2>3 DEF StackPage, StackTable, vmm_virt_to_phys
    <3>4. PICK r \in Spaces : r = spaces[v]
      BY <1>2, <2>2
    <3>5. r.pml4 = spaces[v].pml4 /\ r.stack \subseteq spaces[v].stack \ {l}
      BY <2>3, <3>4, Zenon
    <3>6. /\ Shape(table, spaces, free)' /\ panic' \in {"no", "oom"}
          /\ panic' = "no" => /\ DOMAIN spaces' = DOMAIN spaces
                              /\ StackPage(table', spaces', v, l) # 0
      BY ONLY <1>1, <2>1, <2>5, <3>1, <3>2, <3>3, <3>4, <3>5, MapStackStep, ZenonT(60)
    <3>7. SmokeOK'
      BY ONLY <1>4, <2>1, <2>3, <3>1, <3>6, Zenon DEF SmokeOK, TestVa
    <3> QED
      BY <2>1, <3>6, <3>7, <1>0
  <2> QED
    BY <2>4, <2>5
<1>7. CASE SmokeUnmap
  <2>1. panic = "no" /\ boot = "unmap" /\ boot' = "destroy" /\ spaces' = spaces /\ panic' = panic
    BY <1>7 DEF SmokeUnmap, Booting
  <2>2. PICK v \in DOMAIN spaces :
          /\ vmm_unmap(v, TestVa)
          /\ free' = free \cup {vmm_virt_to_phys(table, spaces[v].pml4, TestVa)}
    BY <1>7 DEF SmokeUnmap
  <2>3. PICK l \in Lower : l = TestVa[2]
    BY <1>4
  <2>4. PICK page : page = StackPage(table, spaces, v, l)
    OBVIOUS
  <2>5. PICK pt : pt = table[spaces[v].pml4][STACK]
    OBVIOUS
  <2>6. page # 0
    BY ONLY <1>1, <2>1, <2>2, <2>3, <2>4, Zenon DEF SmokeOK
  <2>7. free' = free \cup {page}
    BY ONLY <1>4, <2>2, <2>3, <2>4, Zenon DEF StackPage
  <2>8. table' = IF pt = 0 THEN table ELSE [table EXCEPT ![pt][l] = 0]
    <3>1. vmm_unmap(v, <<STACK, l>>)
      BY ONLY <1>4, <2>2, <2>3
    <3> QED
      BY <2>5, <3>1 DEF vmm_unmap
  <2>9. PICK t2 : t2 = IF pt = 0 THEN table ELSE [table EXCEPT ![pt][l] = 0]
    BY ZenonT(60)
  <2>10. Shape(t2, spaces, free \cup {page})
    BY ONLY <1>1, <2>2, <2>3, <2>4, <2>5, <2>6, <2>9, UnmapKeeps
  <2>11. Shape(table, spaces, free)'
    BY ONLY <2>1, <2>7, <2>8, <2>9, <2>10
  <2>12. SmokeOK'
    BY <2>1 DEF SmokeOK
  <2> QED
    BY ONLY <2>1, <2>11, <2>12, <1>0, Zenon
<1>8. CASE SmokeDestroy
  <2>1. panic = "no" /\ boot' = "done"
    BY <1>8 DEF SmokeDestroy, Booting
  <2>2. PICK v \in DOMAIN spaces : vmm_destroy_address_space(v)
    BY <1>8 DEF SmokeDestroy
  <2>3. Shape(table, spaces, free)' /\ panic' = "no"
    BY ONLY <1>1, <2>1, <2>2, DestroyStep
  <2> QED
    BY <1>3, <2>1, <2>3
<1>9. ASSUME NEW image \in Images, SpawnCreate(image) PROVE VmmInv'
  <2>1. PICK new : new = [pml4 |-> 0, image |-> image, segments |-> ImagePages, stack |-> StackPages]
    BY Zenon
  <2>2. /\ new \in NewRecords /\ vmm_create_address_space(new)
        /\ panic = "no" /\ boot' = boot /\ boot = "done"
    BY <1>9, <2>1 DEF SpawnCreate, NewRecords, Running
  <2>3. free # {}
    BY <2>2 DEF vmm_create_address_space
  <2>4. Shape(table, spaces, free)' /\ panic' \in {"no", "oom"}
    BY ONLY <1>1, <2>2, <2>3, CreateStep
  <2> QED
    BY <1>3, <2>2, <2>4
<1>10. ASSUME NEW v \in DOMAIN spaces, LoadSegment(v) PROVE VmmInv'
  <2>1. panic = "no" /\ boot = "done" /\ boot' = boot /\ spaces[v].segments # {}
    BY <1>10 DEF LoadSegment, Running
  <2>2. PICK k : k = Least(spaces[v].segments)
    OBVIOUS
  <2>3. spaces[v] \in Spaces /\ spaces[v].segments \subseteq ImagePages
    BY <1>2 DEF Spaces
  <2>4. k \in spaces[v].segments /\ k \in Lower
    <3>1. spaces[v].segments \subseteq Nat
      BY <2>3, VmmAssumption, Zenon
    <3>2. k \in spaces[v].segments
      BY ONLY <2>1, <2>2, <3>1, LeastIsIn
    <3> QED
      BY <2>3, <3>2 DEF Lower
  <2>5. PICK r : r = [spaces[v] EXCEPT !.segments = @ \ {k}]
    BY Zenon
  <2>6. r \in Spaces /\ r.pml4 = spaces[v].pml4 /\ r.stack \subseteq spaces[v].stack
    BY <2>3, <2>5 DEF Spaces
  <2>7. CASE vmm_virt_to_phys(table, spaces[v].pml4, <<LOW, k>>) # 0
    <3>1. free' = free /\ table' = table /\ panic' = panic /\ spaces' = SetSpace(v, r)
      BY <1>10, <2>2, <2>5, <2>7 DEF LoadSegment
    <3>2. Sets(spaces, v, r, spaces')
      BY <3>1 DEF Sets, SetSpace
    <3>3. Update(spaces, spaces', v) /\ spaces'[v] = r
      BY ONLY <1>2, <2>6, <3>2, v \in DOMAIN spaces, SetSpaceUpdates
    <3>4. spaces'[v].stack \subseteq spaces[v].stack
      BY ONLY <2>6, <3>3, Zenon
    <3>5. Shape(table, spaces', free)
      BY ONLY <1>1, <3>3, <3>4, CopyKeeps
    <3>6. Shape(table, spaces, free)'
      BY ONLY <3>1, <3>5
    <3> QED
      BY <1>3, <2>1, <3>1, <3>6
  <2>8. CASE vmm_virt_to_phys(table, spaces[v].pml4, <<LOW, k>>) = 0 /\ free = {}
    <3>1. vmm_destroy_address_space(v)
      BY ONLY <1>10, <2>2, <2>8, Zenon DEF LoadSegment
    <3>2. Shape(table, spaces, free)' /\ panic' = "no"
      BY ONLY <1>1, <2>1, <3>1, v \in DOMAIN spaces, DestroyStep
    <3> QED
      BY <1>3, <2>1, <3>2
  <2>9. CASE vmm_virt_to_phys(table, spaces[v].pml4, <<LOW, k>>) = 0 /\ free # {}
    <3>1. vmm_map(v, <<LOW, k>>, spaces[v].image, r)
      BY <1>10, <2>2, <2>5, <2>9, Zenon DEF LoadSegment
    <3>2. Shape(table, spaces, free)' /\ panic' = "no"
      BY ONLY <1>1, <2>1, <2>4, <2>6, <2>9, <3>1, v \in DOMAIN spaces, MapImageStep, Zenon
    <3> QED
      BY <1>3, <2>1, <3>2
  <2> QED
    BY <2>7, <2>8, <2>9
<1>11. ASSUME NEW v \in DOMAIN spaces, MapStackPage(v) PROVE VmmInv'
  <2>1. panic = "no" /\ boot = "done" /\ boot' = boot /\ spaces[v].stack # {}
    BY <1>11 DEF MapStackPage, Running
  <2>2. PICK k : k = Least(spaces[v].stack)
    OBVIOUS
  <2>3. spaces[v] \in Spaces /\ spaces[v].stack \subseteq StackPages
    BY <1>2 DEF Spaces
  <2>4. k \in spaces[v].stack /\ k \in Lower
    <3>1. spaces[v].stack \subseteq Nat
      BY <2>3, VmmAssumption, Zenon
    <3>2. k \in spaces[v].stack
      BY ONLY <2>1, <2>2, <3>1, LeastIsIn
    <3> QED
      BY <2>3, <3>2 DEF Lower
  <2>5. PICK r : r = [spaces[v] EXCEPT !.stack = @ \ {k}]
    BY Zenon
  <2>6. r \in Spaces /\ r.pml4 = spaces[v].pml4 /\ r.stack \subseteq spaces[v].stack \ {k}
    BY <2>3, <2>5 DEF Spaces
  <2>7. CASE free = {}
    <3>1. vmm_destroy_address_space(v)
      BY ONLY <1>11, <2>7, Zenon DEF MapStackPage
    <3>2. Shape(table, spaces, free)' /\ panic' = "no"
      BY ONLY <1>1, <2>1, <3>1, v \in DOMAIN spaces, DestroyStep
    <3> QED
      BY <1>3, <2>1, <3>2
  <2>8. CASE free # {}
    <3>1. vmm_map(v, <<STACK, k>>, "zero", r)
      BY <1>11, <2>2, <2>5, <2>8 DEF MapStackPage
    <3>2. StackPage(table, spaces, v, k) = 0
      BY <1>1, <2>4, Zenon DEF Shape, StackLeft
    <3>3. Shape(table, spaces, free)' /\ panic' \in {"no", "oom"}
      BY ONLY <1>1, <2>1, <2>4, <2>6, <2>8, <3>1, <3>2, v \in DOMAIN spaces, MapStackStep, Zenon
    <3> QED
      BY <1>3, <2>1, <3>3
  <2> QED
    BY <2>7, <2>8
<1>12. ASSUME NEW v \in DOMAIN spaces, Exit(v) PROVE VmmInv'
  <2>1. panic = "no" /\ boot = "done" /\ boot' = boot /\ vmm_destroy_address_space(v)
    BY <1>12 DEF Exit, Running
  <2>2. Shape(table, spaces, free)' /\ panic' = "no"
    BY ONLY <1>1, <2>1, v \in DOMAIN spaces, DestroyStep
  <2> QED
    BY <1>3, <2>1, <2>2
<1>13. CASE UNCHANGED vars
  <2>1. /\ free' = free /\ table' = table /\ spaces' = spaces /\ boot' = boot /\ panic' = panic
    BY <1>13 DEF vars
  <2>2. SmokeOK'
    BY <1>1, <2>1 DEF SmokeOK
  <2>3. Shape(table, spaces, free)'
    BY ONLY <1>1, <2>1
  <2> QED
    BY <1>1, <2>1, <2>2, <2>3, <1>0
<1> QED
  BY <1>5, <1>6, <1>7, <1>8, <1>9, <1>10, <1>11, <1>12, <1>13 DEF Next

\* The inductive invariant of Vmm: every place of a page table, and every object,
\* that names a page names one that is not free and that no other place names.
THEOREM VmmInvariant == Spec => []VmmInv
<1>1. Init => VmmInv
  BY InitVmm
<1>2. VmmInv /\ [Next]_vars => VmmInv'
  BY VmmStep
<1> QED
  BY <1>1, <1>2, PTL DEF Spec

-----------------------------------------------------------------------------
(* What follows. *)

\* The tables an address space walks, and the pages it translates to, are at
\* places of its own or at those of the images.
LEMMA ReachedPages ==
  ASSUME VmmInv, NEW a \in DOMAIN spaces
  PROVE  /\ \A p \in TablesOf(a) : \/ p \in {a, spaces[a].pml4, kernel_low}
                                   \/ p # 0 /\ p = StackTable(table, spaces, a)
         /\ \A p \in Mapped(a) :
              p # 0 /\ \E l \in Lower : p = table[kernel_low][l] \/ p = StackPage(table, spaces, a, l)
         /\ \A p \in OwnPages(a) : \/ p \in TablesOf(a) \ {kernel_low}
                                   \/ p # 0 /\ \E l \in Lower : p = StackPage(table, spaces, a, l)
<1>1. table[spaces[a].pml4][LOW] = kernel_low /\ kernel_low # 0
  BY DEF VmmInv, LowIsShared, kernel_low
<1>2. Pml4Indices = {LOW, STACK} /\ Private = {STACK}
  BY DEF Pml4Indices, Private, LOW, STACK
<1>3. \A l \in Lower : vmm_virt_to_phys(table, spaces[a].pml4, <<LOW, l>>) = table[kernel_low][l]
  BY <1>1 DEF vmm_virt_to_phys
<1>4. \A l \in Lower : vmm_virt_to_phys(table, spaces[a].pml4, <<STACK, l>>)
                         = StackPage(table, spaces, a, l)
  BY DEF StackPage
<1>5. ASSUME NEW p \in TablesOf(a)
      PROVE  \/ p \in {a, spaces[a].pml4, kernel_low}
             \/ p # 0 /\ p = StackTable(table, spaces, a)
  BY ONLY <1>1, <1>2, Zenon DEF TablesOf, StackTable
<1>6. ASSUME NEW p \in Mapped(a)
      PROVE  p # 0 /\ \E l \in Lower : p = table[kernel_low][l] \/ p = StackPage(table, spaces, a, l)
  <2>1. PICK k \in Pml4Indices, l \in Lower :
          p # 0 /\ p = vmm_virt_to_phys(table, spaces[a].pml4, <<k, l>>)
    BY ONLY SMTT(60) DEF Mapped, Translations
  <2> QED
    BY ONLY <1>2, <1>3, <1>4, <2>1
<1>7. ASSUME NEW p \in OwnPages(a)
      PROVE  \/ p \in TablesOf(a) \ {kernel_low}
             \/ p # 0 /\ \E l \in Lower : p = StackPage(table, spaces, a, l)
  <2>1. \/ p \in TablesOf(a) \ {kernel_low}
        \/ \E k \in Private, l \in Lower :
             p # 0 /\ p = vmm_virt_to_phys(table, spaces[a].pml4, <<k, l>>)
    <3>1. p \in TablesOf(a) \ {kernel_low} \/ p \in Translations(a, Private)
      BY DEF OwnPages
    <3>2. ASSUME p \in Translations(a, Private)
          PROVE  \E k \in Private, l \in Lower :
                   p # 0 /\ p = vmm_virt_to_phys(table, spaces[a].pml4, <<k, l>>)
      BY <3>2 DEF Translations
    <3> QED
      BY ONLY <3>1, <3>2, Zenon
  <2> QED
    BY ONLY <1>2, <1>4, <2>1, Zenon
<1> QED
  BY ONLY <1>5, <1>6, <1>7, Zenon

\* Every page an address space reaches is at a place.
LEMMA ReachedAtPlaces ==
  ASSUME VmmInv, NEW a \in DOMAIN spaces
  PROVE  /\ \A p \in TablesOf(a) \ {kernel_low} :
              \E s \in {<<"object", a, 0>>, <<"pml4", a, 0>>, <<"table", a, 0>>} :
                /\ s \in Places(spaces) /\ PageAt(table, spaces, s) = p /\ p # 0
         /\ \A p \in Mapped(a) :
              \E l \in Lower : \E s \in {<<"image", 0, l>>, <<"data", a, l>>} :
                /\ s \in Places(spaces) /\ PageAt(table, spaces, s) = p /\ p # 0
         /\ \A p \in OwnPages(a) : \E s \in Places(spaces) :
                /\ s[2] = a /\ PageAt(table, spaces, s) = p /\ p # 0
<1>1. /\ \A p \in TablesOf(a) : \/ p \in {a, spaces[a].pml4, kernel_low}
                                \/ p # 0 /\ p = StackTable(table, spaces, a)
      /\ \A p \in Mapped(a) :
           p # 0 /\ \E l \in Lower : p = table[kernel_low][l] \/ p = StackPage(table, spaces, a, l)
      /\ \A p \in OwnPages(a) : \/ p \in TablesOf(a) \ {kernel_low}
                                \/ p # 0 /\ \E l \in Lower : p = StackPage(table, spaces, a, l)
  BY ONLY VmmInv, a \in DOMAIN spaces, ReachedPages
<1>2. a # 0 /\ spaces[a].pml4 # 0
  BY VmmAssumption DEF VmmInv, VmmTypes, Spaces
<1>3. /\ <<"object", a, 0>> \in Places(spaces) /\ <<"pml4", a, 0>> \in Places(spaces)
      /\ <<"table", a, 0>> \in Places(spaces)
      /\ \A l \in Lower : <<"data", a, l>> \in Places(spaces) /\ <<"image", 0, l>> \in Places(spaces)
  BY PlacesThere
<1>4. /\ PageAt(table, spaces, <<"object", a, 0>>) = a
      /\ PageAt(table, spaces, <<"pml4", a, 0>>) = spaces[a].pml4
      /\ PageAt(table, spaces, <<"table", a, 0>>) = StackTable(table, spaces, a)
      /\ \A l : /\ PageAt(table, spaces, <<"data", a, l>>) = StackPage(table, spaces, a, l)
                /\ PageAt(table, spaces, <<"image", 0, l>>) = table[kernel_low][l]
  BY Zenon DEF PageAt
<1>5. ASSUME NEW p \in TablesOf(a) \ {kernel_low}
      PROVE  \E s \in {<<"object", a, 0>>, <<"pml4", a, 0>>, <<"table", a, 0>>} :
                /\ s \in Places(spaces) /\ PageAt(table, spaces, s) = p /\ p # 0
  <2>1. p = a \/ p = spaces[a].pml4 \/ (p = StackTable(table, spaces, a) /\ p # 0)
    BY ONLY <1>1, p \in TablesOf(a) \ {kernel_low}, Zenon
  <2> QED
    BY ONLY <1>2, <1>3, <1>4, <2>1, Zenon
<1>6. ASSUME NEW p \in Mapped(a)
      PROVE  \E l \in Lower : \E s \in {<<"image", 0, l>>, <<"data", a, l>>} :
                /\ s \in Places(spaces) /\ PageAt(table, spaces, s) = p /\ p # 0
  <2>1. PICK l \in Lower : p # 0 /\ (p = table[kernel_low][l] \/ p = StackPage(table, spaces, a, l))
    BY ONLY <1>1, p \in Mapped(a)
  <2> QED
    BY ONLY <1>3, <1>4, <2>1
<1>7. ASSUME NEW p \in OwnPages(a)
      PROVE  \E s \in Places(spaces) : s[2] = a /\ PageAt(table, spaces, s) = p /\ p # 0
  <2>1. CASE p \in TablesOf(a) \ {kernel_low}
    BY ONLY <1>5, <2>1
  <2>2. CASE p \notin TablesOf(a) \ {kernel_low}
    <3>1. PICK l \in Lower : p # 0 /\ p = StackPage(table, spaces, a, l)
      BY ONLY <1>1, <2>2, p \in OwnPages(a)
    <3> QED
      BY ONLY <1>3, <1>4, <3>1, Zenon
  <2> QED
    BY <2>1, <2>2
<1> QED
  BY ONLY <1>5, <1>6, <1>7, Zenon

\* NoFreePageReachable, for any number of pages: vmm_destroy_address_space gives
\* back only what no other address space, and not the kernel, walks or maps.
THEOREM FreePagesAreUnreachable == Spec => []NoFreePageReachable
<1>1. VmmInv => NoFreePageReachable
  <2> SUFFICES ASSUME VmmInv PROVE NoFreePageReachable
    OBVIOUS
  <2>1. kernel_low \notin free /\ kernel_pml4 \notin free
    BY VmmAssumption DEF VmmInv, VmmTypes, kernel_low, kernel_pml4
  <2>2. ASSUME NEW s \in Places(spaces), PageAt(table, spaces, s) # 0
        PROVE  PageAt(table, spaces, s) \notin free
    BY <2>2 DEF VmmInv, UsedOnce
  <2>3. ASSUME NEW a \in DOMAIN spaces, NEW p \in TablesOf(a) \cup Mapped(a) PROVE p \notin free
    <3>1. p = kernel_low \/ \E s \in Places(spaces) : PageAt(table, spaces, s) = p /\ p # 0
      BY ReachedAtPlaces, Zenon
    <3> QED
      BY ONLY <2>1, <2>2, <3>1
  <2> QED
    BY ONLY <2>1, <2>3 DEF NoFreePageReachable
<1> QED
  BY <1>1, VmmInvariant, PTL

\* PagesNotShared: vmm_create_address_space and vmm_map give an address space
\* pages that no other one has, whatever was destroyed before.
THEOREM SpacesAreSeparate == Spec => []PagesNotShared
<1>1. VmmInv => PagesNotShared
  <2> SUFFICES ASSUME VmmInv PROVE PagesNotShared
    OBVIOUS
  <2>1. ASSUME NEW r \in Places(spaces), NEW s \in Places(spaces),
               PageAt(table, spaces, r) = PageAt(table, spaces, s), PageAt(table, spaces, r) # 0
        PROVE  r = s
    BY <2>1 DEF VmmInv, UsedOnce
  <2>2. 0 \notin DOMAIN spaces /\ kernel_low \notin Pages
    BY VmmAssumption DEF VmmInv, VmmTypes, kernel_low
  <2>3. \A b \in DOMAIN spaces : \A p \in Mapped(b) : \E l \in Lower :
          \E s \in {<<"image", 0, l>>, <<"data", b, l>>} :
            s \in Places(spaces) /\ PageAt(table, spaces, s) = p /\ p # 0
    BY ONLY VmmInv, ReachedAtPlaces, Zenon
  <2>4. ASSUME NEW a \in DOMAIN spaces, NEW b \in DOMAIN spaces,
               NEW p \in TablesOf(a) \ {kernel_low}, p \in Mapped(b)
        PROVE  FALSE
    <3>1. PICK r \in {<<"object", a, 0>>, <<"pml4", a, 0>>, <<"table", a, 0>>} :
            r \in Places(spaces) /\ PageAt(table, spaces, r) = p /\ p # 0
      BY ReachedAtPlaces
    <3>2. PICK l \in Lower : \E s \in {<<"image", 0, l>>, <<"data", b, l>>} :
            s \in Places(spaces) /\ PageAt(table, spaces, s) = p
      BY ONLY <2>3, <2>4, b \in DOMAIN spaces
    <3>3. PICK s \in {<<"image", 0, l>>, <<"data", b, l>>} :
            s \in Places(spaces) /\ PageAt(table, spaces, s) = p
      BY <3>2
    <3>4. r = s
      BY ONLY <2>1, <3>1, <3>3
    <3> QED
      BY ONLY <3>1, <3>3, <3>4
  <2>5. ASSUME NEW a \in DOMAIN spaces, NEW b \in DOMAIN spaces, a # b,
               NEW p \in OwnPages(a), p \in TablesOf(b) \cup Mapped(b)
        PROVE  FALSE
    <3>1. PICK r \in Places(spaces) : r[2] = a /\ PageAt(table, spaces, r) = p /\ p # 0
      BY ReachedAtPlaces, ZenonT(60)
    <3>2. p \in Pages
      BY <3>1 DEF VmmInv, UsedOnce
    <3>3. PICK s \in Places(spaces) : PageAt(table, spaces, s) = p /\ (s[2] = b \/ s[2] = 0)
      <4>1. CASE p \in TablesOf(b)
        <5>1. p \in TablesOf(b) \ {kernel_low}
          BY ONLY <2>2, <3>2, <4>1
        <5>2. PICK s \in {<<"object", b, 0>>, <<"pml4", b, 0>>, <<"table", b, 0>>} :
                s \in Places(spaces) /\ PageAt(table, spaces, s) = p
          BY <5>1, ReachedAtPlaces
        <5> QED
          BY ONLY <5>2
      <4>2. CASE p \in Mapped(b)
        <5>1. PICK l \in Lower : \E s \in {<<"image", 0, l>>, <<"data", b, l>>} :
                s \in Places(spaces) /\ PageAt(table, spaces, s) = p
          BY ONLY <2>3, <4>2, b \in DOMAIN spaces, ZenonT(60)
        <5> QED
          BY ONLY <5>1
      <4> QED
        BY ONLY <2>5, <4>1, <4>2, Zenon
    <3>4. r = s
      BY ONLY <2>1, <3>1, <3>3, r \in Places(spaces), s \in Places(spaces)
    <3> QED
      BY ONLY <2>2, <2>5, <3>1, <3>3, <3>4, Zenon
  <2> QED
    BY ONLY <2>4, <2>5 DEF PagesNotShared
<1> QED
  BY <1>1, VmmInvariant, PTL

\* NoKassert: the kassert of vmm_map "virtual page is already mapped" holds for
\* any images and stacks, although all images share one table.
THEOREM MapsAreFresh == Spec => []NoKassert
<1>1. VmmInv => NoKassert
  BY DEF VmmInv, VmmTypes, NoKassert
<1> QED
  BY <1>1, VmmInvariant, PTL
=============================================================================
