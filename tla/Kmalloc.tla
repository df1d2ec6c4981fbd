------------------------------ MODULE Kmalloc ------------------------------
(***************************************************************************)
(* The kernel heap of kernel/kmalloc.c: a list of blocks, searched first   *)
(* fit, split on allocation, merged on release and extended by pages of    *)
(* the physical allocator.  Sizes and addresses are in units of            *)
(* KMALLOC_ALIGN bytes; a block is its header followed by its payload.     *)
(* The heap is used by one thread: kernel_main, then the shell.  The rest  *)
(* of the kernel takes pages beside it at any time: the shadow buffer of   *)
(* the display right after kmalloc_init, later page tables and images.     *)
(***************************************************************************)
EXTENDS Integers, Sequences

CONSTANTS
  Header,      \* sizeof(KBlock)
  PAGE_SIZE,
  MemoryPages, \* number of pages of the machine, page 0 never given out
  Requests     \* sizes asked for

ASSUME KmallocAssumption ==
  /\ Header \in Nat \ {0}
  /\ PAGE_SIZE \in Nat /\ PAGE_SIZE > Header
  /\ MemoryPages \in Nat
  /\ Requests \subseteq Nat \ {0}

VARIABLES
  heap,    \* the blocks in list order: [at, size, free, asked], where asked
           \* is the size the owner of the block asked for
  owned,   \* pages the heap got from the physical allocator
  taken,   \* pages others have
  block,   \* the block coalesce has come to, 0 outside of kfree
  torn     \* whether coalesce has merged two blocks that are not neighbours in
           \* memory: from then on blocks reach into pages of others, who may
           \* overwrite their headers, and nothing is claimed of the heap

heapVars == <<heap, owned, taken, block, torn>>

-----------------------------------------------------------------------------
FreeBlock(at, size) == [at |-> at, size |-> size, free |-> TRUE, asked |-> 0]
UsedBlock(at, size, asked) == [at |-> at, size |-> size, free |-> FALSE, asked |-> asked]

\* Where the next block of a region begins.
End(b) == b.at + Header + b.size

\* The list h with the n blocks from position k on replaced by those of seq.
Splice(h, k, n, seq) == SubSeq(h, 1, k - 1) \o seq \o SubSeq(h, k + n, Len(h))

\* Variant of SplitPayload that forgets the header of the new block.
SplitPayloadNoHeader(remaining) == remaining

\* The payload of the block that split_block cuts off.
SplitPayload(remaining) == remaining - Header

\* split_block, and the marking of the block as used.
split_block(h, k, size) ==
  LET b == h[k]
      remaining == b.size - size
  IN  IF remaining <= Header + 1
      THEN Splice(h, k, 1, <<UsedBlock(b.at, b.size, size)>>)
      ELSE Splice(h, k, 1, <<UsedBlock(b.at, size, size),
                             FreeBlock(b.at + Header + size, SplitPayload(remaining))>>)

\* The list with the block at position k merged with the next one.
Merged(h, k) ==
  Splice(h, k, 2, <<FreeBlock(h[k].at, h[k].size + Header + h[k + 1].size)>>)

-----------------------------------------------------------------------------
(* Pages. *)

Available == (1 .. MemoryPages - 1) \ (owned \cup taken)

\* pmm_alloc_pages: the first run of n pages, 0 if there is none.
pmm_alloc_pages(n) ==
  LET starts == {p \in Available : \A q \in p .. p + n - 1 : q \in Available}
  IN  IF starts = {} THEN 0 ELSE CHOOSE p \in starts : \A q \in starts : p <= q

PagesFor(size) == (size + Header + PAGE_SIZE - 1) \div PAGE_SIZE

\* The block expand_heap makes of n pages from page p on.
NewRegion(p, n) == FreeBlock(p * PAGE_SIZE, n * PAGE_SIZE - Header)

-----------------------------------------------------------------------------
(* Operations. *)

\* At boot.
kmalloc_init ==
  /\ taken = {}
  /\ owned = 1 .. PagesFor(PAGE_SIZE)
  /\ heap = <<NewRegion(1, PagesFor(PAGE_SIZE))>>
  /\ block = 0
  /\ torn = FALSE

\* Variant of Fits that counts the header as payload.
FitsWithHeader(b, size) == b.free /\ b.size + Header >= size

Fits(b, size) == b.free /\ b.size >= size

\* kmalloc from a block of the list, ...
kmalloc(size) ==
  LET fitting == {k \in 1 .. Len(heap) : Fits(heap[k], size)}
  IN  /\ block = 0
      /\ fitting # {}
      /\ heap' = split_block(heap, CHOOSE k \in fitting : \A m \in fitting : k <= m, size)
      /\ UNCHANGED <<owned, taken, block, torn>>

\* ... from a new region at the end of the list, ...
kmalloc_expand(size) ==
  LET n == PagesFor(size)
      p == pmm_alloc_pages(n)
  IN  /\ block = 0
      /\ \A k \in 1 .. Len(heap) : ~Fits(heap[k], size)
      /\ p # 0
      /\ heap' = split_block(Append(heap, NewRegion(p, n)), Len(heap) + 1, size)
      /\ owned' = owned \cup (p .. p + n - 1)
      /\ UNCHANGED <<taken, block, torn>>

\* ... or not at all.
kmalloc_fails(size) ==
  /\ block = 0
  /\ \A k \in 1 .. Len(heap) : ~Fits(heap[k], size)
  /\ pmm_alloc_pages(PagesFor(size)) = 0
  /\ UNCHANGED heapVars

\* kfree marks the block as free, ...
kfree(k) ==
  /\ block = 0
  /\ ~heap[k].free
  /\ heap' = [heap EXCEPT ![k] = FreeBlock(@.at, @.size)]
  /\ block' = 1
  /\ UNCHANGED <<owned, taken, torn>>

\* Variant of Merges that does not ask whether the next block is free.
MergesUsed(k) == heap[k].free

\* The condition under which coalesce merges a block with the next one.
Merges(k) == heap[k].free /\ heap[k + 1].free

\* ... and coalesce walks the list, a block at a time.  It goes on behind a
\* merged block, which is therefore not merged with the next one.
coalesce ==
  /\ block # 0
  /\ IF block >= Len(heap) THEN block' = 0 /\ UNCHANGED <<heap, torn>>
     ELSE /\ block' = block + 1
          /\ IF Merges(block)
             THEN /\ heap' = Merged(heap, block)
                  /\ torn' = (torn \/ heap[block + 1].at # End(heap[block]))
             ELSE UNCHANGED <<heap, torn>>
  /\ UNCHANGED <<owned, taken>>

\* The rest of the kernel takes the first free page, or gives one back.
pmm_alloc_page_others ==
  /\ pmm_alloc_pages(1) # 0
  /\ taken' = taken \cup {pmm_alloc_pages(1)}
  /\ UNCHANGED <<heap, owned, block, torn>>

pmm_free_page_others ==
  /\ \E p \in taken : taken' = taken \ {p}
  /\ UNCHANGED <<heap, owned, block, torn>>

HeapNext ==
  \/ \E size \in Requests : kmalloc(size) \/ kmalloc_expand(size) \/ kmalloc_fails(size)
  \/ \E k \in 1 .. Len(heap) : kfree(k)
  \/ coalesce
  \/ pmm_alloc_page_others \/ pmm_free_page_others

HeapSpec == kmalloc_init /\ [][HeapNext]_heapVars

-----------------------------------------------------------------------------
(* Properties. *)

Extent(b) == b.at .. b.at + Header + b.size - 1

\* The addresses of the pages in P.
Units(P) == UNION {p * PAGE_SIZE .. (p + 1) * PAGE_SIZE - 1 : p \in P}

\* The guide: the heap "is page-backed by PMM".  Header and payload of every
\* block lie in pages the heap got from the physical allocator.
PageBacked == \A k \in 1 .. Len(heap) : Extent(heap[k]) \subseteq Units(owned)

\* The blocks fill the pages of the heap: no two overlap, and no unit is lost.
Tiled ==
  /\ \A j, k \in 1 .. Len(heap) : j # k => Extent(heap[j]) \cap Extent(heap[k]) = {}
  /\ \A a \in Units(owned) : \E k \in 1 .. Len(heap) : a \in Extent(heap[k])

\* Whatever is split, merged and added, and wherever between the pages of
\* others the regions come to lie, the blocks fill the pages of the heap and
\* reach into no others.  Only coalesce ends this, when it merges blocks of
\* two regions.
SoundUntilTorn == torn \/ (PageBacked /\ Tiled)

\* Every block of the list holds what its owner asked for.
AllLarge(h) == \A k \in 1 .. Len(h) : h[k].size >= h[k].asked

\* Until then an allocation is as large as asked for, ...
LargeEnough == torn \/ AllLarge(heap)

\* ... and whatever is allocated, split or merged, a block in use stays where
\* it is and as large as it is until its owner frees it.
UsedBlocksStay ==
  [][torn' \/ \A k \in 1 .. Len(heap) :
                ~heap[k].free => \/ \E m \in 1 .. Len(heap') : heap'[m] = heap[k]
                                 \/ kfree(k)]_heapVars

-----------------------------------------------------------------------------
(* The invariant behind them.                                              *)

KBlock == [at : Nat, size : Nat, free : BOOLEAN, asked : Nat]

\* Every address of U lies in exactly one block of h, every other in none.
ExactlyCovers(h, U) ==
  /\ \A k \in 1 .. Len(h) : Extent(h[k]) \subseteq U
  /\ \A j, k \in 1 .. Len(h) : j # k => Extent(h[j]) \cap Extent(h[k]) = {}
  /\ \A a \in U : \E k \in 1 .. Len(h) : a \in Extent(h[k])

HeapInv ==
  /\ heap \in Seq(KBlock)
  /\ owned \subseteq Nat
  /\ block \in Nat
  /\ torn \in BOOLEAN
  /\ torn \/ ExactlyCovers(heap, Units(owned))
  /\ AllLarge(heap)
=============================================================================
