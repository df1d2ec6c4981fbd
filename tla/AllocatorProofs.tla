--------------------------- MODULE AllocatorProofs ---------------------------
(***************************************************************************)
(* Proofs about the two allocators of the kernel.                          *)
(*                                                                         *)
(* The kernel heap of kernel/kmalloc.c: whatever pages others take and     *)
(* give back, its blocks cover its pages exactly until two regions are     *)
(* merged across pages of others, for any sizes of header, page and memory *)
(* and any requests.                                                       *)
(*                                                                         *)
(* The page allocator of kernel/pmm.c: whatever the memory map, the number *)
(* of pages and the size of a byte, and however timer ticks interleave     *)
(* with the loads and the stores of a call.                                *)
(***************************************************************************)
EXTENDS Kmalloc, Pmm, FiniteSetTheorems, WellFoundedInduction, TLAPS

-----------------------------------------------------------------------------
(* Arithmetic of pages. *)

\* Division with remainder.
LEMMA DivMod ==
  ASSUME NEW a \in Nat, NEW n \in Nat \ {0}
  PROVE  /\ a \div n \in Nat
         /\ (a \div n) * n <= a
         /\ a < (a \div n) * n + n
BY Z3

\* Multiplication is monotonic.
LEMMA TimesMonotonic ==
  ASSUME NEW a \in Nat, NEW b \in Nat, NEW n \in Nat, a <= b
  PROVE  a * n <= b * n
BY Z3

\* The page of an address between the bounds of some pages is one of them.
LEMMA PageBetween ==
  ASSUME NEW a \in Nat, NEW lo \in Nat, NEW hi \in Nat, NEW n \in Nat \ {0},
         lo * n <= a, a < hi * n
  PROVE  lo <= a \div n /\ a \div n < hi
<1> DEFINE q == a \div n
<1>1. q \in Nat /\ q * n <= a /\ a < (q + 1) * n
  BY DivMod, (q + 1) * n = q * n + n
<1> HIDE DEF q
<1>2. ASSUME q < lo PROVE FALSE
  <2>1. (q + 1) * n <= lo * n
    BY <1>1, <1>2, TimesMonotonic
  <2> QED BY <1>1, <2>1
<1>3. ASSUME hi <= q PROVE FALSE
  <2>1. hi * n <= q * n
    BY <1>1, <1>3, TimesMonotonic
  <2> QED BY <1>1, <2>1
<1> QED BY <1>1, <1>2, <1>3 DEF q

\* expand_heap asks for enough pages for the header and the size.
LEMMA PagesForEnough ==
  ASSUME NEW size \in Nat \ {0}
  PROVE  /\ PagesFor(size) \in Nat \ {0}
         /\ size + Header <= PagesFor(size) * PAGE_SIZE
<1> DEFINE q == (size + Header + PAGE_SIZE - 1) \div PAGE_SIZE
<1>1. PAGE_SIZE \in Nat \ {0} /\ Header \in Nat
  BY KmallocAssumption
<1>2. /\ q \in Nat
      /\ size + Header + PAGE_SIZE - 1 < q * PAGE_SIZE + PAGE_SIZE
  BY <1>1, DivMod
<1> HIDE DEF q
<1>3. q * PAGE_SIZE \in Nat
  BY <1>1, <1>2
<1>4. size + Header <= q * PAGE_SIZE
  BY <1>1, <1>2, <1>3
<1>5. q # 0
  BY <1>1, <1>4
<1> QED BY <1>2, <1>4, <1>5 DEF PagesFor, q

-----------------------------------------------------------------------------
(* Lists of blocks. *)

\* s is the list h with n blocks from position k on replaced by those of seq.
IsSplice(s, h, k, n, seq) ==
  /\ s \in Seq(KBlock)
  /\ Len(s) = Len(h) + Len(seq) - n
  /\ \A v \in 1 .. k - 1 : s[v] = h[v]
  /\ \A v \in 1 .. Len(seq) : s[k + v - 1] = seq[v]
  /\ \A v \in k + n .. Len(h) : s[v + Len(seq) - n] = h[v]

\* Splice does what its comment says.
LEMMA SpliceProperties ==
  ASSUME NEW h \in Seq(KBlock), NEW k \in 1 .. Len(h), NEW n \in Nat, k + n <= Len(h) + 1,
         NEW new \in Seq(KBlock)
  PROVE  IsSplice(Splice(h, k, n, new), h, k, n, new)
<1>s. PICK s : s = Splice(h, k, n, new)
  OBVIOUS
<1> DEFINE left == SubSeq(h, 1, k - 1)
           right == SubSeq(h, k + n, Len(h))
           front == left \o new
<1>1. /\ left \in Seq(KBlock) /\ Len(left) = k - 1
      /\ \A v \in 1 .. k - 1 : left[v] = h[v]
  <2>1. \A v \in 1 .. k - 1 : h[v] \in KBlock
    OBVIOUS
  <2> QED BY <2>1, Len(h) \in Nat
<1>2. /\ right \in Seq(KBlock) /\ Len(right) = Len(h) - k - n + 1
      /\ \A v \in k + n .. Len(h) : right[v - k - n + 1] = h[v]
  <2>1. \A v \in k + n .. Len(h) : h[v] \in KBlock
    OBVIOUS
  <2>2. /\ right \in Seq(KBlock)
        /\ Len(right) = IF k + n <= Len(h) THEN Len(h) - (k + n) + 1 ELSE 0
        /\ \A u \in 1 .. Len(h) - (k + n) + 1 : right[u] = h[k + n + u - 1]
    BY <2>1, Len(h) \in Nat
  <2> HIDE DEF right
  <2>3. Len(h) \in Nat
    OBVIOUS
  <2>4. Len(right) = Len(h) - k - n + 1
    <3>1. PICK m \in Nat : m = Len(h)
      BY <2>3
    <3>2. k \in Nat /\ k + n <= m + 1
      BY <3>1
    <3>3. PICK r : r = Len(right)
      BY Zenon
    <3>4. r = IF k + n <= m THEN m - (k + n) + 1 ELSE 0
      BY ONLY <2>2, <3>1, <3>3
    <3>5. r = m - k - n + 1
      BY ONLY <3>2, <3>4, n \in Nat, m \in Nat
    <3> QED BY ONLY <3>1, <3>3, <3>5
  <2>5. ASSUME NEW v \in k + n .. Len(h) PROVE right[v - k - n + 1] = h[v]
    <3>1. PICK u : u = v - k - n + 1
      OBVIOUS
    <3>2. u \in 1 .. Len(h) - (k + n) + 1 /\ k + n + u - 1 = v
      BY <2>3, <3>1
    <3> QED BY <2>2, <3>1, <3>2
  <2> QED BY <2>2, <2>4, <2>5, Zenon
<1> HIDE DEF left, right
<1>3. /\ front \in Seq(KBlock) /\ Len(front) = k - 1 + Len(new)
      /\ \A v \in 1 .. k - 1 : front[v] = h[v]
      /\ \A v \in 1 .. Len(new) : front[k + v - 1] = new[v]
  <2>1. /\ front \in Seq(KBlock) /\ Len(front) = Len(left) + Len(new)
        /\ \A u \in 1 .. Len(left) + Len(new) :
             front[u] = IF u <= Len(left) THEN left[u] ELSE new[u - Len(left)]
    BY <1>1
  <2> HIDE DEF front
  <2>2. Len(new) \in Nat
    OBVIOUS
  <2>3. ASSUME NEW v \in 1 .. Len(new) PROVE front[k + v - 1] = new[v]
    <3>1. PICK u : u = k + v - 1
      OBVIOUS
    <3>2. u \in 1 .. Len(left) + Len(new) /\ ~(u <= Len(left)) /\ u - Len(left) = v
      BY <1>1, <2>2, <3>1
    <3> QED BY <2>1, <3>1, <3>2, Zenon
  <2>4. ASSUME NEW v \in 1 .. k - 1 PROVE front[v] = h[v]
    <3>1. v \in 1 .. Len(left) + Len(new) /\ v <= Len(left)
      BY <1>1, <2>2
    <3> QED BY <1>1, <2>1, <3>1, Zenon
  <2>5. Len(front) = k - 1 + Len(new)
    BY <1>1, <2>1
  <2> QED BY ONLY <2>1, <2>3, <2>4, <2>5, Zenon
<1> HIDE DEF front
<1>4. s = front \o right
  BY <1>s DEF Splice, front, left, right
<1>6. /\ s \in Seq(KBlock)
      /\ Len(s) = Len(front) + Len(right)
      /\ \A v \in 1 .. Len(front) : s[v] = front[v]
      /\ \A v \in 1 .. Len(right) : s[Len(front) + v] = right[v]
  <2>0. front \in Seq(KBlock) /\ right \in Seq(KBlock)
    BY <1>2, <1>3, Zenon
  <2>1. /\ s \in Seq(KBlock) /\ Len(s) = Len(front) + Len(right)
        /\ \A u \in 1 .. Len(front) + Len(right) :
             s[u] = IF u <= Len(front) THEN front[u] ELSE right[u - Len(front)]
    BY ONLY <1>4, <2>0
  <2>2. Len(front) \in Nat /\ Len(right) \in Nat
    BY <1>2, <1>3
  <2>3. ASSUME NEW v \in 1 .. Len(right) PROVE s[Len(front) + v] = right[v]
    <3>1. PICK u : u = Len(front) + v
      OBVIOUS
    <3>2. u \in 1 .. Len(front) + Len(right) /\ ~(u <= Len(front)) /\ u - Len(front) = v
      BY <2>2, <3>1
    <3> QED BY <2>1, <3>1, <3>2, Zenon
  <2> QED BY ONLY <2>1, <2>2, <2>3
<1>7. Len(h) \in Nat /\ Len(new) \in Nat
  OBVIOUS
<1>8. Len(s) = Len(h) + Len(new) - n
  BY <1>2, <1>3, <1>6, <1>7
<1>9. \A v \in 1 .. k - 1 : s[v] = h[v]
  BY <1>3, <1>6, <1>7
<1>10. \A v \in 1 .. Len(new) : s[k + v - 1] = new[v]
  BY ONLY <1>3, <1>6, <1>7, SMTT(60)
<1>11. ASSUME NEW v \in k + n .. Len(h) PROVE s[v + Len(new) - n] = h[v]
  <2>1. PICK u : u = v - k - n + 1
    OBVIOUS
  <2>2. u \in 1 .. Len(right)
    BY <1>2, <1>7, <2>1
  <2>3. s[Len(front) + u] = h[v]
    BY <1>2, <1>6, <2>1, <2>2, Zenon
  <2>4. Len(front) + u = v + Len(new) - n
    BY <1>3, <1>7, <2>1, SMTT(60)
  <2> QED BY <2>3, <2>4
<1> QED BY ONLY <1>s, <1>6, <1>8, <1>9, <1>10, <1>11, Zenon DEF IsSplice

\* s is the list h with b at position k.
IsReplaced(s, h, k, b) ==
  /\ s \in Seq(KBlock) /\ Len(s) = Len(h)
  /\ \A v \in 1 .. Len(h) : v # k => s[v] = h[v]
  /\ s[k] = b

\* A block of the list replaced by another.
LEMMA SpliceOne ==
  ASSUME NEW h \in Seq(KBlock), NEW k \in 1 .. Len(h), NEW b \in KBlock,
         NEW s, s = Splice(h, k, 1, <<b>>)
  PROVE  IsReplaced(s, h, k, b)
<1>1. Len(h) \in Nat /\ <<b>> \in Seq(KBlock) /\ Len(<<b>>) = 1 /\ <<b>>[1] = b
  OBVIOUS
<1>3. /\ s \in Seq(KBlock) /\ Len(s) = Len(h) + 1 - 1
      /\ \A v \in 1 .. k - 1 : s[v] = h[v]
      /\ \A v \in 1 .. 1 : s[k + v - 1] = <<b>>[v]
      /\ \A v \in k + 1 .. Len(h) : s[v + 1 - 1] = h[v]
  <2>1. PICK new \in Seq(KBlock) : new = <<b>>
    BY <1>1, Zenon
  <2>2. 1 \in Nat /\ 2 \in Nat /\ k \in 1 .. Len(h) /\ k + 1 <= Len(h) + 1
    BY <1>1
  <2>3. IsSplice(s, h, k, 1, new)
    BY <2>1, <2>2, SpliceProperties, Zenon
  <2> QED BY ONLY <1>1, <2>1, <2>3, Zenon DEF IsSplice
<1>4. Len(s) = Len(h)
  BY <1>1, <1>3
<1>5. s[k] = b
  BY <1>1, <1>3
<1>6. ASSUME NEW v \in 1 .. Len(h), v # k PROVE s[v] = h[v]
  BY ONLY <1>1, <1>3, <1>6
<1> QED BY <1>3, <1>4, <1>5, <1>6, Zenon DEF IsReplaced

\* s is the list h with b and c for the block at position k.
IsCut(s, h, k, b, c) ==
  /\ s \in Seq(KBlock) /\ Len(s) = Len(h) + 1
  /\ \A v \in 1 .. k - 1 : s[v] = h[v]
  /\ s[k] = b /\ s[k + 1] = c
  /\ \A v \in k + 1 .. Len(h) : s[v + 1] = h[v]

\* A block of the list replaced by two.
LEMMA SpliceTwo ==
  ASSUME NEW h \in Seq(KBlock), NEW k \in 1 .. Len(h), NEW b \in KBlock, NEW c \in KBlock,
         NEW s, s = Splice(h, k, 1, <<b, c>>)
  PROVE  IsCut(s, h, k, b, c)
<1>1. /\ Len(h) \in Nat /\ <<b, c>> \in Seq(KBlock) /\ Len(<<b, c>>) = 2
      /\ <<b, c>>[1] = b /\ <<b, c>>[2] = c
  OBVIOUS
<1>3. /\ s \in Seq(KBlock) /\ Len(s) = Len(h) + 2 - 1
      /\ \A v \in 1 .. k - 1 : s[v] = h[v]
      /\ \A v \in 1 .. 2 : s[k + v - 1] = <<b, c>>[v]
      /\ \A v \in k + 1 .. Len(h) : s[v + 2 - 1] = h[v]
  <2>1. PICK new \in Seq(KBlock) : new = <<b, c>>
    BY <1>1, Zenon
  <2>2. 1 \in Nat /\ 2 \in Nat /\ k \in 1 .. Len(h) /\ k + 1 <= Len(h) + 1
    BY <1>1
  <2>3. IsSplice(s, h, k, 1, new)
    BY <2>1, <2>2, SpliceProperties, Zenon
  <2> QED BY ONLY <1>1, <2>1, <2>3, Zenon DEF IsSplice
<1>4. Len(s) = Len(h) + 1
  BY <1>1, <1>3
<1>5. s[k] = b /\ s[k + 1] = c
  <2>1. s[k + 1 - 1] = b /\ s[k + 2 - 1] = c
    BY <1>1, <1>3
  <2> QED BY <2>1, k + 1 - 1 = k, k + 2 - 1 = k + 1
<1>6. ASSUME NEW v \in k + 1 .. Len(h) PROVE s[v + 1] = h[v]
  <2>1. s[v + 2 - 1] = h[v]
    BY <1>3, Zenon
  <2>2. v + 2 - 1 = v + 1
    BY <1>1
  <2> QED BY ONLY <2>1, <2>2, Zenon
<1> QED BY <1>3, <1>4, <1>5, <1>6, Zenon DEF IsCut

\* s is the list h with b for the blocks at positions k and k + 1.
IsJoined(s, h, k, b) ==
  /\ s \in Seq(KBlock) /\ Len(s) = Len(h) - 1
  /\ \A v \in 1 .. k - 1 : s[v] = h[v]
  /\ s[k] = b
  /\ \A v \in k + 2 .. Len(h) : s[v - 1] = h[v]

\* Two blocks of the list replaced by one.
LEMMA SpliceMerge ==
  ASSUME NEW h \in Seq(KBlock), NEW k \in 1 .. Len(h) - 1, NEW b \in KBlock,
         NEW s, s = Splice(h, k, 2, <<b>>)
  PROVE  IsJoined(s, h, k, b)
<1>1. Len(h) \in Nat /\ <<b>> \in Seq(KBlock) /\ Len(<<b>>) = 1 /\ <<b>>[1] = b
  OBVIOUS
<1>3. k \in 1 .. Len(h) /\ k + 2 <= Len(h) + 1
  BY <1>1
<1>4. /\ s \in Seq(KBlock) /\ Len(s) = Len(h) + 1 - 2
      /\ \A v \in 1 .. k - 1 : s[v] = h[v]
      /\ \A v \in 1 .. 1 : s[k + v - 1] = <<b>>[v]
      /\ \A v \in k + 2 .. Len(h) : s[v + 1 - 2] = h[v]
  <2>1. PICK new \in Seq(KBlock) : new = <<b>>
    BY <1>1, Zenon
  <2>2. 1 \in Nat /\ 2 \in Nat /\ k \in 1 .. Len(h) /\ k + 2 <= Len(h) + 1
    BY <1>1
  <2>3. IsSplice(s, h, k, 2, new)
    BY <2>1, <2>2, SpliceProperties, Zenon
  <2> QED BY ONLY <1>1, <2>1, <2>3, Zenon DEF IsSplice
<1>5. Len(s) = Len(h) - 1
  BY <1>1, <1>4
<1>6. s[k] = b
  BY <1>1, <1>4
<1>7. ASSUME NEW v \in k + 2 .. Len(h) PROVE s[v - 1] = h[v]
  <2>1. s[v + 1 - 2] = h[v]
    BY <1>4, Zenon
  <2>2. v + 1 - 2 = v - 1
    BY <1>1
  <2> QED BY ONLY <2>1, <2>2, Zenon
<1> QED BY <1>4, <1>5, <1>6, <1>7, Zenon DEF IsJoined

-----------------------------------------------------------------------------
(* Blocks that tile a range of addresses. *)

\* The extent of a block ends where the next block may begin.
LEMMA BlockFacts ==
  ASSUME NEW b \in KBlock
  PROVE  /\ b.at \in Nat /\ b.size \in Nat /\ b.asked \in Nat /\ b.free \in BOOLEAN
         /\ End(b) \in Nat /\ b.at <= End(b)
         /\ \A a : a \in Extent(b) <=> a \in Int /\ b.at <= a /\ a < End(b)
<1>1. b.at \in Nat /\ b.size \in Nat /\ b.asked \in Nat /\ b.free \in BOOLEAN /\ Header \in Nat
  BY KmallocAssumption DEF KBlock
<1> QED BY <1>1 DEF End, Extent

\* The elements of a list of blocks are blocks.
LEMMA ListFacts ==
  ASSUME NEW h \in Seq(KBlock)
  PROVE  /\ Len(h) \in Nat
         /\ \A k \in 1 .. Len(h) :
              /\ h[k] \in KBlock /\ h[k].at \in Nat /\ End(h[k]) \in Nat
              /\ h[k].at <= End(h[k])
              /\ \A a : a \in Extent(h[k]) <=> a \in Int /\ h[k].at <= a /\ a < End(h[k])
<1>1. Len(h) \in Nat
  OBVIOUS
<1>2. ASSUME NEW k \in 1 .. Len(h) PROVE h[k] \in KBlock
  OBVIOUS
<1>3. ASSUME NEW k \in 1 .. Len(h)
      PROVE  /\ h[k].at \in Nat /\ End(h[k]) \in Nat /\ h[k].at <= End(h[k])
             /\ \A a : a \in Extent(h[k]) <=> a \in Int /\ h[k].at <= a /\ a < End(h[k])
  <2>1. h[k] \in KBlock
    BY <1>2
  <2> QED BY ONLY <2>1, BlockFacts, Zenon
<1> QED BY ONLY <1>1, <1>2, <1>3, Zenon

-----------------------------------------------------------------------------
(* Blocks that cover a set of addresses. *)

\* The extent of x is that of b and that of c, which do not overlap.
Halves(b, c, x) ==
  \A a : /\ a \in Extent(x) <=> a \in Extent(b) \/ a \in Extent(c)
         /\ ~(a \in Extent(b) /\ a \in Extent(c))

\* Two blocks, the second of which begins where the first ends, make up the
\* block from where the one begins to where the other ends.
LEMMA NeighboursMakeOne ==
  ASSUME NEW b \in KBlock, NEW c \in KBlock, NEW x \in KBlock,
         b.at = x.at, c.at = End(b), End(c) = End(x)
  PROVE  Halves(b, c, x)
<1>1. PICK lo \in Nat, mid \in Nat, hi \in Nat :
         lo = b.at /\ lo = x.at /\ mid = c.at /\ mid = End(b) /\ hi = End(c) /\ hi = End(x)
  BY BlockFacts, Zenon
<1>2. lo <= mid /\ mid <= hi
  BY BlockFacts, <1>1, Zenon
<1>3. ASSUME NEW a
      PROVE  /\ a \in Extent(b) <=> a \in Int /\ lo <= a /\ a < mid
             /\ a \in Extent(c) <=> a \in Int /\ mid <= a /\ a < hi
             /\ a \in Extent(x) <=> a \in Int /\ lo <= a /\ a < hi
  BY BlockFacts, <1>1, Zenon
<1>4. ASSUME NEW a \in Int
      PROVE  /\ lo <= a /\ a < hi <=> (lo <= a /\ a < mid) \/ (mid <= a /\ a < hi)
             /\ ~(lo <= a /\ a < mid /\ mid <= a /\ a < hi)
  BY ONLY <1>2, lo \in Nat, mid \in Nat, hi \in Nat, a \in Int
<1> QED BY ONLY <1>3, <1>4, Zenon DEF Halves

\* Every list of blocks that covers some addresses still does.
StillCovers(s, h) == \A U : ExactlyCovers(h, U) => ExactlyCovers(s, U)

\* Blocks with the extents of others cover what the others covered.
LEMMA SameCovers ==
  ASSUME NEW h, NEW s, Len(s) = Len(h), \A v \in 1 .. Len(h) : Extent(s[v]) = Extent(h[v])
  PROVE  StillCovers(s, h)
BY Zenon DEF StillCovers, ExactlyCovers

\* A finer list: every block of s lies in the block of h that origin names,
\* and the blocks of s leave nothing out.
Finer(s, h, origin) ==
  /\ \A w \in 1 .. Len(s) : /\ origin[w] \in 1 .. Len(h)
                             /\ \A a \in Extent(s[w]) : a \in Extent(h[origin[w]])
  /\ \A v, w \in 1 .. Len(s) :
       v # w /\ origin[v] = origin[w] => Extent(s[v]) \cap Extent(s[w]) = {}
  /\ \A v \in 1 .. Len(h) : \A a \in Extent(h[v]) :
       \E w \in 1 .. Len(s) : a \in Extent(s[w])

\* A finer list covers what the list covered.
LEMMA FinerCovers ==
  ASSUME NEW h, NEW s, NEW origin, Finer(s, h, origin)
  PROVE  StillCovers(s, h)
<1> SUFFICES ASSUME NEW U, ExactlyCovers(h, U) PROVE ExactlyCovers(s, U)
  BY Zenon DEF StillCovers
<1>1. \A w \in 1 .. Len(s) : Extent(s[w]) \subseteq U
  BY Zenon DEF ExactlyCovers, Finer
<1>2. ASSUME NEW v \in 1 .. Len(s), NEW w \in 1 .. Len(s), v # w
      PROVE  Extent(s[v]) \cap Extent(s[w]) = {}
  <2>1. CASE origin[v] = origin[w]
    BY <1>2, <2>1, Zenon DEF Finer
  <2>2. CASE origin[v] # origin[w]
    <3>1. Extent(h[origin[v]]) \cap Extent(h[origin[w]]) = {}
      BY <2>2, Zenon DEF ExactlyCovers, Finer
    <3> QED BY <3>1, Zenon DEF Finer
  <2> QED BY <2>1, <2>2, Zenon
<1>3. \A a \in U : \E w \in 1 .. Len(s) : a \in Extent(s[w])
  BY Zenon DEF ExactlyCovers, Finer
<1> QED BY ONLY <1>1, <1>2, <1>3, Zenon DEF ExactlyCovers

\* A coarser list: every block of h lies in the block of s that goal names,
\* and the blocks of s hold nothing else.
Coarser(s, h, goal) ==
  /\ \A v \in 1 .. Len(h) : /\ goal[v] \in 1 .. Len(s)
                             /\ \A a \in Extent(h[v]) : a \in Extent(s[goal[v]])
  /\ \A w \in 1 .. Len(s) : \A a \in Extent(s[w]) :
       \E v \in 1 .. Len(h) : goal[v] = w /\ a \in Extent(h[v])

\* A coarser list covers what the list covered.
LEMMA CoarserCovers ==
  ASSUME NEW h, NEW s, NEW goal, Coarser(s, h, goal)
  PROVE  StillCovers(s, h)
<1> SUFFICES ASSUME NEW U, ExactlyCovers(h, U) PROVE ExactlyCovers(s, U)
  BY Zenon DEF StillCovers
<1>1. \A w \in 1 .. Len(s) : Extent(s[w]) \subseteq U
  BY Zenon DEF ExactlyCovers, Coarser
<1>2. ASSUME NEW w \in 1 .. Len(s), NEW x \in 1 .. Len(s), w # x,
             NEW a \in Extent(s[w]), a \in Extent(s[x])
      PROVE  FALSE
  <2>1. PICK v \in 1 .. Len(h) : goal[v] = w /\ a \in Extent(h[v])
    BY Zenon DEF Coarser
  <2>2. PICK y \in 1 .. Len(h) : goal[y] = x /\ a \in Extent(h[y])
    BY <1>2, Zenon DEF Coarser
  <2>3. v # y
    BY <1>2, <2>1, <2>2, Zenon
  <2>4. Extent(h[v]) \cap Extent(h[y]) = {}
    BY <2>3, Zenon DEF ExactlyCovers
  <2> QED BY <2>1, <2>2, <2>4, Zenon
<1>3. \A a \in U : \E w \in 1 .. Len(s) : a \in Extent(s[w])
  BY Zenon DEF ExactlyCovers, Coarser
<1>4. \A w, x \in 1 .. Len(s) : w # x => Extent(s[w]) \cap Extent(s[x]) = {}
  BY ONLY <1>2, Zenon
<1> QED BY ONLY <1>1, <1>3, <1>4, Zenon DEF ExactlyCovers

\* A block cut in two.
LEMMA CutCovers ==
  ASSUME NEW h \in Seq(KBlock), NEW k \in 1 .. Len(h), NEW b \in KBlock, NEW c \in KBlock, NEW s,
         IsCut(s, h, k, b, c), Halves(b, c, h[k])
  PROVE  StillCovers(s, h)
<1> DEFINE o == [w \in 1 .. Len(s) |-> IF w <= k THEN w ELSE w - 1]
<1>1. /\ Len(h) \in Nat /\ k \in Nat /\ Len(s) = Len(h) + 1
      /\ k \in 1 .. Len(s) /\ k + 1 \in 1 .. Len(s) /\ k <= Len(h) /\ 1 <= k
  BY DEF IsCut
<1>2. s[k] = b /\ s[k + 1] = c
  BY Zenon DEF IsCut
<1>3. ASSUME NEW w \in 1 .. Len(s), w < k
      PROVE  o[w] = w /\ w \in 1 .. Len(h) /\ s[w] = h[w]
  <2>1. w \in 1 .. k - 1 /\ w \in 1 .. Len(h) /\ w <= k
    BY ONLY <1>1, <1>3, w \in 1 .. Len(s)
  <2> QED BY <2>1, Zenon DEF IsCut
<1>4. ASSUME NEW w \in 1 .. Len(s), w > k + 1
      PROVE  o[w] = w - 1 /\ w - 1 \in 1 .. Len(h) /\ s[w] = h[w - 1]
  <2>1. w - 1 \in k + 1 .. Len(h) /\ w - 1 \in 1 .. Len(h) /\ ~(w <= k) /\ (w - 1) + 1 = w
    BY ONLY <1>1, <1>4, w \in 1 .. Len(s)
  <2>2. s[(w - 1) + 1] = h[w - 1]
    BY <2>1, Zenon DEF IsCut
  <2> QED BY <2>1, <2>2, Zenon
<1>5. o[k] = k /\ o[k + 1] = k
  BY ONLY <1>1
<1>6. ASSUME NEW w \in 1 .. Len(s) PROVE w < k \/ w > k + 1 \/ w = k \/ w = k + 1
  BY ONLY <1>1, w \in 1 .. Len(s)
<1>7. ASSUME NEW v \in 1 .. Len(s), NEW w \in 1 .. Len(s), v # w, o[v] = o[w]
      PROVE  (v = k /\ w = k + 1) \/ (v = k + 1 /\ w = k)
  BY ONLY <1>1, <1>7, v \in 1 .. Len(s), w \in 1 .. Len(s)
<1> HIDE DEF o
<1>8. ASSUME NEW w \in 1 .. Len(s)
      PROVE  o[w] \in 1 .. Len(h) /\ \A a \in Extent(s[w]) : a \in Extent(h[o[w]])
  <2>1. CASE w < k
    BY <1>3, <2>1, Zenon
  <2>2. CASE w > k + 1
    BY <1>4, <2>2, Zenon
  <2>3. CASE w = k \/ w = k + 1
    BY <1>2, <1>5, <2>3, Zenon DEF Halves
  <2> QED BY <1>6, <2>1, <2>2, <2>3, Zenon
<1>9. ASSUME NEW v \in 1 .. Len(s), NEW w \in 1 .. Len(s), v # w, o[v] = o[w]
      PROVE  Extent(s[v]) \cap Extent(s[w]) = {}
  <2>1. Extent(b) \cap Extent(c) = {} /\ Extent(c) \cap Extent(b) = {}
    BY Zenon DEF Halves
  <2>2. (v = k /\ w = k + 1) \/ (v = k + 1 /\ w = k)
    BY <1>7, <1>9, Zenon
  <2> QED BY ONLY <1>2, <2>1, <2>2, Zenon
<1>10. ASSUME NEW v \in 1 .. Len(h), NEW a \in Extent(h[v])
       PROVE  \E w \in 1 .. Len(s) : a \in Extent(s[w])
  <2>1. CASE v < k
    <3>1. v \in 1 .. Len(s)
      BY ONLY <1>1, v \in 1 .. Len(h)
    <3> QED BY <1>3, <2>1, <3>1, Zenon
  <2>2. CASE v > k
    <3>1. v \in k + 1 .. Len(h) /\ v + 1 \in 1 .. Len(s)
      BY ONLY <1>1, <2>2, v \in 1 .. Len(h)
    <3>2. s[v + 1] = h[v]
      BY <3>1, Zenon DEF IsCut
    <3> QED BY <3>1, <3>2, Zenon
  <2>3. CASE v = k
    BY <1>1, <1>2, <2>3, Zenon DEF Halves
  <2>4. v < k \/ v > k \/ v = k
    BY ONLY <1>1, v \in 1 .. Len(h)
  <2> QED BY ONLY <2>1, <2>2, <2>3, <2>4
<1>11. Finer(s, h, o)
  BY ONLY <1>8, <1>9, <1>10, Zenon DEF Finer
<1> QED BY ONLY <1>11, FinerCovers, Zenon

\* Two blocks merged into one.
LEMMA JoinCovers ==
  ASSUME NEW h \in Seq(KBlock), NEW k \in 1 .. Len(h) - 1, NEW b \in KBlock, NEW s,
         IsJoined(s, h, k, b), Halves(h[k], h[k + 1], b)
  PROVE  StillCovers(s, h)
<1> DEFINE o == [v \in 1 .. Len(h) |-> IF v <= k THEN v ELSE v - 1]
<1>1. /\ Len(h) \in Nat /\ k \in Nat /\ Len(s) = Len(h) - 1 /\ Len(s) \in Nat
      /\ k \in 1 .. Len(s) /\ k \in 1 .. Len(h) /\ k + 1 \in 1 .. Len(h) /\ 1 <= k
  BY DEF IsJoined
<1>2. s[k] = b
  BY Zenon DEF IsJoined
<1>3. ASSUME NEW v \in 1 .. Len(h), v < k
      PROVE  o[v] = v /\ v \in 1 .. Len(s) /\ s[v] = h[v]
  <2>1. v \in 1 .. k - 1 /\ v \in 1 .. Len(s) /\ v <= k
    BY ONLY <1>1, <1>3, v \in 1 .. Len(h)
  <2> QED BY <2>1, Zenon DEF IsJoined
<1>4. ASSUME NEW v \in 1 .. Len(h), v > k + 1
      PROVE  o[v] = v - 1 /\ v - 1 \in 1 .. Len(s) /\ s[v - 1] = h[v]
  <2>1. v \in k + 2 .. Len(h) /\ v - 1 \in 1 .. Len(s) /\ ~(v <= k)
    BY ONLY <1>1, <1>4, v \in 1 .. Len(h)
  <2> QED BY <2>1, Zenon DEF IsJoined
<1>5. o[k] = k /\ o[k + 1] = k
  BY ONLY <1>1
<1> HIDE DEF o
<1>6. ASSUME NEW v \in 1 .. Len(h)
      PROVE  o[v] \in 1 .. Len(s) /\ \A a \in Extent(h[v]) : a \in Extent(s[o[v]])
  <2>1. CASE v < k
    BY <1>3, <2>1, Zenon
  <2>2. CASE v > k + 1
    BY <1>4, <2>2, Zenon
  <2>3. CASE v = k \/ v = k + 1
    BY <1>1, <1>2, <1>5, <2>3, Zenon DEF Halves
  <2>4. v < k \/ v > k + 1 \/ v = k \/ v = k + 1
    BY ONLY <1>1, v \in 1 .. Len(h)
  <2> QED BY ONLY <2>1, <2>2, <2>3, <2>4
<1>7. ASSUME NEW w \in 1 .. Len(s), NEW a \in Extent(s[w])
      PROVE  \E v \in 1 .. Len(h) : o[v] = w /\ a \in Extent(h[v])
  <2>1. CASE w < k
    <3>1. w \in 1 .. Len(h)
      BY ONLY <1>1, w \in 1 .. Len(s)
    <3> QED BY <1>3, <2>1, <3>1, Zenon
  <2>2. CASE w > k
    <3>1. w + 1 \in 1 .. Len(h) /\ w + 1 > k + 1 /\ (w + 1) - 1 = w
      BY ONLY <1>1, <2>2, w \in 1 .. Len(s)
    <3>2. o[w + 1] = w /\ s[w] = h[w + 1]
      BY <1>4, <3>1, Zenon
    <3> QED BY <3>1, <3>2, Zenon
  <2>3. CASE w = k
    BY <1>1, <1>2, <1>5, <2>3, Zenon DEF Halves
  <2>4. w < k \/ w > k \/ w = k
    BY ONLY <1>1, w \in 1 .. Len(s)
  <2> QED BY ONLY <2>1, <2>2, <2>3, <2>4
<1>8. Coarser(s, h, o)
  BY ONLY <1>6, <1>7, Zenon DEF Coarser
<1> QED BY ONLY <1>8, CoarserCovers, Zenon

\* A block behind the others, over addresses they do not cover.
LEMMA AppendCovers ==
  ASSUME NEW h \in Seq(KBlock), NEW b \in KBlock, NEW U, NEW V, ExactlyCovers(h, U),
         \A a : a \in V <=> a \in U \/ a \in Extent(b), \A a \in U : a \notin Extent(b),
         NEW s, Len(s) = Len(h) + 1, s[Len(h) + 1] = b, \A v \in 1 .. Len(h) : s[v] = h[v]
  PROVE  ExactlyCovers(s, V)
<1>1. PICK n \in Nat : n = Len(h)
  OBVIOUS
<1>2. \A v : v \in 1 .. Len(s) <=> v \in 1 .. n \/ v = n + 1
  BY ONLY <1>1, n \in Nat, Len(s) = Len(h) + 1
<1>3. s[n + 1] = b /\ \A v \in 1 .. n : s[v] = h[v]
  BY <1>1, Zenon
<1>4. \A v \in 1 .. Len(s) : Extent(s[v]) \subseteq V
  BY <1>1, <1>2, <1>3, Zenon DEF ExactlyCovers
<1>5. ASSUME NEW v \in 1 .. n, NEW a \in Extent(h[v]) PROVE a \notin Extent(b)
  BY <1>1, Zenon DEF ExactlyCovers
<1>6. \A v, w \in 1 .. n : v # w => Extent(h[v]) \cap Extent(h[w]) = {}
  BY <1>1, Zenon DEF ExactlyCovers
<1>7. ASSUME NEW v \in 1 .. Len(s), NEW w \in 1 .. Len(s), v # w
      PROVE  Extent(s[v]) \cap Extent(s[w]) = {}
  BY ONLY <1>2, <1>3, <1>5, <1>6, <1>7, v \in 1 .. Len(s), w \in 1 .. Len(s), ZenonT(60)
<1>8. ASSUME NEW a \in V PROVE \E v \in 1 .. Len(s) : a \in Extent(s[v])
  BY <1>1, <1>2, <1>3, Zenon DEF ExactlyCovers
<1> QED BY ONLY <1>4, <1>7, <1>8, Zenon DEF ExactlyCovers

-----------------------------------------------------------------------------
(* The operations of the heap. *)

\* The blocks of h other than the one at position k are in s too.
OthersStay(s, h, k) ==
  \A v \in 1 .. Len(h) : v # k => \E m \in 1 .. Len(s) : s[m] = h[v]

\* The blocks the operations make.
LEMMA MakeBlock ==
  ASSUME NEW at \in Nat, NEW size \in Nat, NEW asked \in Nat
  PROVE  /\ FreeBlock(at, size) \in KBlock
         /\ FreeBlock(at, size).at = at /\ FreeBlock(at, size).size = size
         /\ FreeBlock(at, size).asked = 0 /\ FreeBlock(at, size).free
         /\ UsedBlock(at, size, asked) \in KBlock
BY Zenon DEF FreeBlock, UsedBlock, KBlock

\* split_block covers what was covered, makes a block as large as asked for and
\* leaves the other blocks alone.
LEMMA SplitBlock ==
  ASSUME NEW h \in Seq(KBlock), AllLarge(h), NEW k \in 1 .. Len(h),
         NEW size \in Nat, h[k].size >= size, NEW s, s = split_block(h, k, size)
  PROVE  s \in Seq(KBlock) /\ StillCovers(s, h) /\ AllLarge(s) /\ OthersStay(s, h, k)
<1> DEFINE old == h[k]
           remaining == old.size - size
<1>1. old \in KBlock /\ Len(h) \in Nat
  BY ListFacts, Zenon
<1>2. old.at \in Nat /\ old.size \in Nat /\ Header \in Nat
  BY ONLY <1>1, BlockFacts, KmallocAssumption, Zenon
<1>3. CASE remaining <= Header + 1
  <2>1. PICK b : b = UsedBlock(old.at, old.size, size)
    OBVIOUS
  <2>2. b \in KBlock /\ b.at = old.at /\ End(b) = End(old) /\ b.size >= b.asked
    <3>1. b.at = old.at /\ b.size = old.size /\ b.asked = size /\ b.free = FALSE
      BY <2>1 DEF UsedBlock
    <3> QED BY <1>2, <2>1, <3>1, Zenon DEF UsedBlock, KBlock, End
  <2>3. s = Splice(h, k, 1, <<b>>)
    BY <1>3, <2>1, Zenon DEF split_block
  <2>4. /\ s \in Seq(KBlock) /\ Len(s) = Len(h)
        /\ \A v \in 1 .. Len(h) : v # k => s[v] = h[v]
        /\ s[k] = b
    <3>1. b \in KBlock
      BY ONLY <2>2
    <3>2. IsReplaced(s, h, k, b)
      BY <2>3, <3>1, SpliceOne, Zenon
    <3> QED BY <3>2 DEF IsReplaced
  <2>5. Extent(b) = Extent(h[k])
    BY <2>1, Zenon DEF UsedBlock, Extent
  <2>6. StillCovers(s, h)
    <3>1. \A v \in 1 .. Len(h) : Extent(s[v]) = Extent(h[v])
      BY <2>4, <2>5, Zenon
    <3> QED BY ONLY <2>4, <3>1, SameCovers, Zenon
  <2>7. AllLarge(s)
    BY <2>2, <2>4, Zenon DEF AllLarge
  <2>8. OthersStay(s, h, k)
    BY <2>4 DEF OthersStay
  <2> QED BY ONLY <2>4, <2>6, <2>7, <2>8, Zenon
<1>4. CASE ~(remaining <= Header + 1)
  <2>1. PICK b : b = UsedBlock(old.at, size, size)
    OBVIOUS
  <2>2. PICK c : c = FreeBlock(old.at + Header + size, SplitPayload(remaining))
    OBVIOUS
  <2>3. b.at = old.at /\ b.size = size /\ b.asked = size /\ b.free = FALSE
    BY <2>1, Zenon DEF UsedBlock
  <2>4. /\ c.at = old.at + Header + size /\ c.size = old.size - size - Header
        /\ c.asked = 0 /\ c.free = TRUE /\ c.size \in Nat
    BY <1>2, <1>4, <2>2, SMTT(60) DEF FreeBlock, SplitPayload
  <2>5. b \in KBlock /\ c \in KBlock
    <3>1. b \in KBlock
      BY <1>2, <2>1 DEF UsedBlock, KBlock
    <3>2. SplitPayload(remaining) \in Nat /\ old.at + Header + size \in Nat
      BY <1>2, <1>4, SMTT(60) DEF SplitPayload
    <3>4. c \in KBlock
      BY ONLY <2>2, <3>2, MakeBlock, 0 \in Nat
    <3> QED BY <3>1, <3>4
  <2>6. b.size >= b.asked /\ c.size >= c.asked /\ c.at = End(b) /\ End(c) = End(old)
    <3>1. PICK at \in Nat, all \in Nat, hd \in Nat : at = old.at /\ all = old.size /\ hd = Header
      BY <1>2, Zenon
    <3>2. End(b) = at + hd + size /\ End(old) = at + hd + all
      BY <2>3, <3>1, Zenon DEF End
    <3>3. End(c) = at + hd + size + hd + (all - size - hd)
      BY <2>4, <3>1 DEF End
    <3>4. End(c) = at + hd + all
      BY ONLY <3>3, at \in Nat, all \in Nat, hd \in Nat, size \in Nat
    <3>5. b.size >= b.asked /\ c.size >= c.asked
      BY ONLY <2>3, <2>4
    <3>6. c.at = at + hd + size
      BY <2>4, <3>1, Zenon
    <3> QED BY <3>2, <3>4, <3>5, <3>6
  <2>7. s = Splice(h, k, 1, <<b, c>>)
    BY <1>4, <2>1, <2>2 DEF split_block
  <2>8. /\ s \in Seq(KBlock) /\ Len(s) = Len(h) + 1
        /\ \A v \in 1 .. k - 1 : s[v] = h[v]
        /\ s[k] = b /\ s[k + 1] = c
        /\ \A v \in k + 1 .. Len(h) : s[v + 1] = h[v]
    <3>1. b \in KBlock /\ c \in KBlock
      BY ONLY <2>5, Zenon
    <3>2. IsCut(s, h, k, b, c)
      BY <2>7, <3>1, SpliceTwo
    <3> QED BY <3>2, Zenon DEF IsCut
  <2>9. Halves(b, c, h[k])
    BY ONLY <1>1, <2>3, <2>5, <2>6, NeighboursMakeOne, Zenon
  <2>10. StillCovers(s, h)
    <3>1. IsCut(s, h, k, b, c)
      BY ONLY <2>8, Zenon DEF IsCut
    <3> QED BY ONLY <2>5, <2>9, <3>1, CutCovers, h \in Seq(KBlock), k \in 1 .. Len(h), Zenon
  <2>11. ASSUME NEW v \in 1 .. Len(s) PROVE s[v].size >= s[v].asked
    <3>1. CASE v < k
      <4>1. v \in 1 .. k - 1 /\ v \in 1 .. Len(h)
        BY <1>1, <3>1
      <4> QED BY <2>8, <4>1, Zenon DEF AllLarge
    <3>2. CASE v = k \/ v = k + 1
      BY ONLY <2>6, <2>8, <3>2, Zenon
    <3>3. CASE v > k + 1
      <4>1. v - 1 \in k + 1 .. Len(h) /\ v - 1 \in 1 .. Len(h) /\ (v - 1) + 1 = v
        BY ONLY <1>1, <2>8, <3>3
      <4>2. s[(v - 1) + 1] = h[v - 1]
        BY <2>8, <4>1, Zenon
      <4> QED BY ONLY AllLarge(h), <4>1, <4>2, Zenon DEF AllLarge
    <3> QED BY ONLY <1>1, <2>8, <3>1, <3>2, <3>3
  <2>12. ASSUME NEW v \in 1 .. Len(h), v # k PROVE \E m \in 1 .. Len(s) : s[m] = h[v]
    <3>1. CASE v < k
      <4>1. v \in 1 .. k - 1 /\ v \in 1 .. Len(s)
        BY <1>1, <2>8, <3>1
      <4> QED BY <2>8, <4>1, Zenon
    <3>2. CASE ~(v < k)
      <4>1. v \in k + 1 .. Len(h) /\ v + 1 \in 1 .. Len(s)
        BY <1>1, <2>8, <2>12, <3>2
      <4> QED BY <2>8, <4>1, Zenon
    <3> QED BY <3>1, <3>2
  <2> QED BY ONLY <2>8, <2>10, <2>11, <2>12, Zenon DEF AllLarge, OthersStay
<1> QED BY <1>3, <1>4

\* s is the list h with a block for those at positions k and k + 1.
MergesTwo(s, h, k) ==
  /\ s \in Seq(KBlock) /\ AllLarge(s)
  /\ h[k + 1].at = End(h[k]) => StillCovers(s, h)
  /\ \A v \in 1 .. Len(h) : v # k /\ v # k + 1 => \E m \in 1 .. Len(s) : s[m] = h[v]

\* coalesce covers what was covered when it merges two neighbours, and leaves
\* the other blocks alone.
LEMMA MergedBlock ==
  ASSUME NEW h \in Seq(KBlock), AllLarge(h),
         NEW k \in 1 .. Len(h) - 1, NEW s, s = Merged(h, k)
  PROVE  MergesTwo(s, h, k)
<1>1. /\ Len(h) \in Nat /\ k \in 1 .. Len(h) /\ k + 1 \in 1 .. Len(h)
      /\ h[k] \in KBlock /\ h[k + 1] \in KBlock
  BY ListFacts
<1>0. PICK x \in KBlock, y \in KBlock : x = h[k] /\ y = h[k + 1]
  BY <1>1
<1>2. x.at \in Nat /\ x.size \in Nat /\ y.at \in Nat /\ y.size \in Nat /\ Header \in Nat
  BY BlockFacts, KmallocAssumption
<1>3. PICK b : b = FreeBlock(x.at, x.size + Header + y.size)
  BY Zenon
<1>4. /\ b \in KBlock /\ b.at = h[k].at /\ b.asked = 0
      /\ b.size = x.size + Header + y.size
  <2>1. PICK sum \in Nat : sum = x.size + Header + y.size
    BY ONLY <1>2
  <2>2. b \in KBlock /\ b.at = x.at /\ b.asked = 0 /\ b.size = sum
    BY ONLY <1>2, <1>3, <2>1, sum \in Nat, MakeBlock, 0 \in Nat, SMTT(60)
  <2> QED BY <1>0, <2>1, <2>2, Zenon
<1>5. b.size >= b.asked
  <2>1. PICK m \in Nat : m = b.size
    BY ONLY <1>2, <1>4
  <2> QED BY ONLY <1>4, <2>1
<1>6. s = Splice(h, k, 2, <<b>>)
  BY <1>0, <1>3, Zenon DEF Merged
<1>7. /\ s \in Seq(KBlock) /\ Len(s) = Len(h) - 1
      /\ \A v \in 1 .. k - 1 : s[v] = h[v]
      /\ s[k] = b
      /\ \A v \in k + 2 .. Len(h) : s[v - 1] = h[v]
  <2>1. b \in KBlock
    BY <1>4
  <2>2. IsJoined(s, h, k, b)
    BY <1>6, <2>1, SpliceMerge
  <2> QED BY <2>2 DEF IsJoined
<1>9. ASSUME h[k + 1].at = End(h[k]) PROVE StillCovers(s, h)
  <2>1. End(b) = End(y)
    <3>1. PICK at \in Nat, m \in Nat, n \in Nat, hd \in Nat :
             at = x.at /\ m = x.size /\ n = y.size /\ hd = Header
      BY <1>2, Zenon
    <3>2. y.at = at + hd + m /\ b.size = m + hd + n /\ b.at = at
      BY ONLY <1>0, <1>4, <1>9, <3>1, Zenon DEF End
    <3>3. End(y) = at + hd + m + hd + n
      BY ONLY <3>1, <3>2, Zenon DEF End
    <3>4. End(b) = at + hd + (m + hd + n)
      BY ONLY <3>1, <3>2, Zenon DEF End
    <3> QED BY ONLY <3>3, <3>4, at \in Nat, m \in Nat, n \in Nat, hd \in Nat
  <2>2. Halves(h[k], h[k + 1], b)
    BY ONLY <1>0, <1>1, <1>4, <1>9, <2>1, NeighboursMakeOne, Zenon
  <2>3. IsJoined(s, h, k, b)
    BY ONLY <1>7, Zenon DEF IsJoined
  <2> QED BY ONLY <1>4, <2>2, <2>3, JoinCovers, h \in Seq(KBlock), k \in 1 .. Len(h) - 1, Zenon
<1>10. ASSUME NEW v \in 1 .. Len(s) PROVE s[v].size >= s[v].asked
  <2>1. CASE v < k
    <3>1. v \in 1 .. k - 1 /\ v \in 1 .. Len(h)
      BY <1>1, <2>1
    <3> QED BY <1>7, <3>1, Zenon DEF AllLarge
  <2>2. CASE v = k
    BY ONLY <1>5, <1>7, <2>2, Zenon
  <2>3. CASE v > k
    <3>1. v + 1 \in k + 2 .. Len(h) /\ v + 1 \in 1 .. Len(h) /\ (v + 1) - 1 = v
      BY <1>1, <1>7, <2>3
    <3>2. s[(v + 1) - 1] = h[v + 1]
      BY <1>7, <3>1, Zenon
    <3> QED BY ONLY AllLarge(h), <3>1, <3>2, Zenon DEF AllLarge
  <2> QED BY ONLY <1>1, <1>7, <2>1, <2>2, <2>3
<1>11. ASSUME NEW v \in 1 .. Len(h), v # k, v # k + 1 PROVE \E m \in 1 .. Len(s) : s[m] = h[v]
  <2>1. CASE v < k
    <3>1. v \in 1 .. k - 1 /\ v \in 1 .. Len(s)
      BY <1>1, <1>7, <2>1
    <3> QED BY <1>7, <3>1, Zenon
  <2>2. CASE ~(v < k)
    <3>1. v \in k + 2 .. Len(h) /\ v - 1 \in 1 .. Len(s)
      BY ONLY <1>1, <1>7, <1>11, <2>2
    <3> QED BY <1>7, <3>1, Zenon
  <2> QED BY <2>1, <2>2
<1> QED BY ONLY <1>7, <1>9, <1>10, <1>11, Zenon DEF AllLarge, MergesTwo

\* The addresses of pages are those in them.
LEMMA UnitsOfPages ==
  ASSUME NEW P, P \subseteq Nat
  PROVE  \A a : a \in Units(P) <=> a \in Nat /\ a \div PAGE_SIZE \in P
<1>1. PAGE_SIZE \in Nat \ {0}
  BY KmallocAssumption
<1>2. ASSUME NEW a \in Units(P) PROVE a \in Nat /\ a \div PAGE_SIZE \in P
  <2>1. PICK p \in P : a \in p * PAGE_SIZE .. (p + 1) * PAGE_SIZE - 1
    BY Zenon DEF Units
  <2>2. p \in Nat /\ p + 1 \in Nat
    BY P \subseteq Nat
  <2>3. PICK lo \in Nat, hi \in Nat : lo = p * PAGE_SIZE /\ hi = (p + 1) * PAGE_SIZE
    BY ONLY <1>1, <2>2
  <2>4. a \in Nat /\ lo <= a /\ a < hi
    BY ONLY <2>1, <2>3, lo \in Nat, hi \in Nat
  <2>5. p <= a \div PAGE_SIZE /\ a \div PAGE_SIZE < p + 1
    BY ONLY <1>1, <2>2, <2>3, <2>4, PageBetween, Zenon
  <2>6. a \div PAGE_SIZE \in Nat
    BY ONLY <1>1, <2>4, DivMod, Zenon
  <2>7. a \div PAGE_SIZE = p
    BY ONLY <2>2, <2>5, <2>6
  <2> QED BY <2>4, <2>7, Zenon
<1>3. ASSUME NEW a \in Nat, a \div PAGE_SIZE \in P PROVE a \in Units(P)
  <2>1. PICK p \in Nat : p = a \div PAGE_SIZE /\ p * PAGE_SIZE <= a /\ a < p * PAGE_SIZE + PAGE_SIZE
    BY ONLY <1>1, a \in Nat, DivMod, Zenon
  <2>2. (p + 1) * PAGE_SIZE = p * PAGE_SIZE + PAGE_SIZE /\ p * PAGE_SIZE \in Nat
    BY ONLY <1>1, p \in Nat
  <2>3. a \in p * PAGE_SIZE .. (p + 1) * PAGE_SIZE - 1
    BY ONLY <1>1, <2>1, <2>2, a \in Nat
  <2> QED BY <1>3, <2>1, <2>3, Zenon DEF Units
<1> QED BY ONLY <1>2, <1>3, Zenon

\* b fills n pages from page p on and is large enough for size.
Fills(b, p, n, size) ==
  /\ n \in Nat \ {0}
  /\ b \in KBlock /\ b.at = p * PAGE_SIZE /\ End(b) = (p + n) * PAGE_SIZE
  /\ b.size >= size /\ b.size >= b.asked

\* The region expand_heap adds is a free block that fills its pages and is
\* large enough for the request.
LEMMA NewRegionFills ==
  ASSUME NEW p \in Nat, NEW size \in Nat \ {0}, NEW n, n = PagesFor(size), NEW b, b = NewRegion(p, n)
  PROVE  Fills(b, p, n, size)
<1>1. n \in Nat \ {0} /\ size + Header <= n * PAGE_SIZE
  BY PagesForEnough
<1>2. PAGE_SIZE \in Nat /\ Header \in Nat
  BY KmallocAssumption
<1>3. PICK at \in Nat, len \in Nat : at = p * PAGE_SIZE /\ len = n * PAGE_SIZE
  BY <1>1, <1>2
<1>4. len - Header \in Nat /\ len - Header >= size
  BY ONLY <1>1, <1>2, <1>3
<1>5. b = FreeBlock(at, len - Header)
  BY <1>3, Zenon DEF NewRegion
<1>6. b \in KBlock /\ b.at = at /\ b.size = len - Header /\ b.asked = 0
  BY ONLY <1>4, <1>5, at \in Nat, MakeBlock, 0 \in Nat
<1>7. End(b) = at + Header + (len - Header)
  BY ONLY <1>6 DEF End
<1>8. End(b) = at + len
  BY ONLY <1>2, <1>7, at \in Nat, len \in Nat
<1>9. at + len = (p + n) * PAGE_SIZE
  BY ONLY <1>1, <1>2, <1>3, p \in Nat, Z3
<1>10. b.size >= size /\ b.size >= b.asked
  BY ONLY <1>4, <1>6
<1> QED BY ONLY <1>1, <1>3, <1>6, <1>8, <1>9, <1>10, Zenon DEF Fills

\* A block that fills pages covers their addresses.
LEMMA FilledPages ==
  ASSUME NEW p \in Nat, NEW n, NEW b, NEW size, Fills(b, p, n, size)
  PROVE  \A a : a \in Extent(b) <=> a \in Units(p .. p + n - 1)
<1>1. n \in Nat /\ p + n \in Nat /\ b \in KBlock /\ PAGE_SIZE \in Nat \ {0}
  BY KmallocAssumption DEF Fills
<1>2. PICK lo \in Nat, hi \in Nat : lo = p * PAGE_SIZE /\ hi = (p + n) * PAGE_SIZE
  BY ONLY <1>1, p \in Nat
<1>3. b.at = lo /\ End(b) = hi
  BY ONLY <1>2, Fills(b, p, n, size), Zenon DEF Fills
<1>4. \A a : a \in Extent(b) <=> a \in Int /\ lo <= a /\ a < hi
  BY ONLY <1>1, <1>3, BlockFacts, Zenon
<1>5. \A a : a \in Units(p .. p + n - 1) <=> a \in Nat /\ a \div PAGE_SIZE \in p .. p + n - 1
  <2>1. p .. p + n - 1 \subseteq Nat
    BY ONLY <1>1, p \in Nat
  <2> QED BY ONLY <2>1, UnitsOfPages, Zenon
<1>6. ASSUME NEW a \in Int, lo <= a, a < hi
      PROVE  a \in Nat /\ a \div PAGE_SIZE \in p .. p + n - 1
  <2>1. a \in Nat
    BY ONLY <1>6, lo \in Nat, a \in Int
  <2>2. p <= a \div PAGE_SIZE /\ a \div PAGE_SIZE < p + n
    BY ONLY <1>1, <1>2, <1>6, <2>1, p \in Nat, PageBetween, Zenon
  <2>3. a \div PAGE_SIZE \in Nat
    BY ONLY <1>1, <2>1, DivMod, Zenon
  <2>4. a \div PAGE_SIZE \in p .. p + n - 1
    BY ONLY <1>1, <2>2, <2>3, p \in Nat
  <2> QED BY <2>1, <2>4, Zenon
<1>7. ASSUME NEW a \in Nat, a \div PAGE_SIZE \in p .. p + n - 1
      PROVE  a \in Int /\ lo <= a /\ a < hi
  <2>1. PICK q \in Nat : q = a \div PAGE_SIZE /\ q * PAGE_SIZE <= a /\ a < q * PAGE_SIZE + PAGE_SIZE
    BY ONLY <1>1, a \in Nat, DivMod, Zenon
  <2>2. p <= q /\ q + 1 <= p + n /\ q + 1 \in Nat
    BY ONLY <1>1, <1>7, <2>1, p \in Nat, q \in Nat
  <2>3. p * PAGE_SIZE <= q * PAGE_SIZE /\ (q + 1) * PAGE_SIZE <= (p + n) * PAGE_SIZE
    BY ONLY <1>1, <2>2, p \in Nat, q \in Nat, TimesMonotonic
  <2>4. (q + 1) * PAGE_SIZE = q * PAGE_SIZE + PAGE_SIZE /\ q * PAGE_SIZE \in Nat
    BY ONLY <1>1, q \in Nat
  <2> QED BY ONLY <1>1, <1>2, <2>1, <2>3, <2>4, a \in Nat, lo \in Nat, hi \in Nat
<1>8. \A a \in Nat : a \in Int
  OBVIOUS
<1> QED BY ONLY <1>4, <1>5, <1>6, <1>7, <1>8, Zenon

\* The search of kmalloc stops at a block that fits when there is one.
LEMMA FirstExists ==
  ASSUME NEW S, S \subseteq Nat, S # {}
  PROVE  \E x \in S : \A y \in S : x <= y
<1>1. PICK R : R = OpToRel(<, Nat)
  BY Zenon
<1>2. IsWellFoundedOn(R, Nat)
  BY <1>1, NatLessThanWellFounded, Zenon
<1>3. PICK x \in S : \A y \in S : <<y, x>> \notin R
  BY ONLY <1>2, S \subseteq Nat, S # {}, WFMin, Zenon
<1>4. \A a, b \in Nat : b < a => <<b, a>> \in R
  BY <1>1 DEF OpToRel
<1>5. \A y \in S : ~(y < x)
  BY ONLY <1>3, <1>4, S \subseteq Nat, x \in S, Zenon
<1> QED BY <1>5

\* The pages expand_heap gets are not the heap's yet.
LEMMA NewPages ==
  ASSUME NEW n \in Nat \ {0}, NEW p, p = pmm_alloc_pages(n), p # 0
  PROVE  p \in Nat /\ \A q \in p .. p + n - 1 : q \in Nat /\ q \notin owned
<1> DEFINE starts == {x \in Available : \A q \in x .. x + n - 1 : q \in Available}
<1>1. starts # {} /\ p = CHOOSE x \in starts : \A q \in starts : x <= q
  BY Zenon DEF pmm_alloc_pages
<1>2. \A x \in Available : x \in Nat /\ x \notin owned
  BY KmallocAssumption DEF Available
<1>3. starts \subseteq Nat
  BY <1>2, Zenon
<1>4. \A x \in starts : x \in Nat /\ \A q \in x .. x + n - 1 : q \in Available
  BY <1>2, Zenon
<1> HIDE DEF starts
<1>5. p \in starts
  BY ONLY <1>1, <1>3, FirstExists, Zenon
<1> QED BY ONLY <1>2, <1>4, <1>5, Zenon

\* kmalloc_init makes the first region.
LEMMA HeapInit == kmalloc_init => HeapInv
<1> SUFFICES ASSUME kmalloc_init PROVE HeapInv
  OBVIOUS
<1>1. PAGE_SIZE \in Nat \ {0}
  BY KmallocAssumption
<1>2. PICK n : n = PagesFor(PAGE_SIZE)
  BY Zenon
<1>3. PICK p \in Nat : p = 1
  OBVIOUS
<1>4. PICK b : b = NewRegion(p, n)
  BY Zenon
<1>5. Fills(b, p, n, PAGE_SIZE)
  BY ONLY <1>1, <1>2, <1>4, p \in Nat, NewRegionFills, Zenon
<1>6. b \in KBlock /\ b.size >= b.asked /\ n \in Nat
  BY ONLY <1>5 DEF Fills
<1>7. heap = <<b>> /\ owned = 1 .. n /\ block = 0 /\ torn = FALSE
  BY <1>2, <1>3, <1>4, Zenon DEF kmalloc_init
<1>8. heap \in Seq(KBlock) /\ Len(heap) = 1 /\ heap[1] = b
  BY ONLY <1>6, <1>7
<1>9. p .. p + n - 1 = 1 .. n
  BY ONLY <1>3, <1>6
<1>10. \A a : a \in Extent(b) <=> a \in Units(owned)
  BY ONLY <1>5, <1>7, <1>9, p \in Nat, FilledPages, Zenon
<1>11. \A k : k \in 1 .. Len(heap) <=> k = 1
  BY ONLY <1>8
<1>12. ExactlyCovers(heap, Units(owned))
  <2>1. \A k \in 1 .. Len(heap) : Extent(heap[k]) \subseteq Units(owned)
    BY ONLY <1>8, <1>10, <1>11, Zenon
  <2>2. \A v, k \in 1 .. Len(heap) : v # k => Extent(heap[v]) \cap Extent(heap[k]) = {}
    <3>1. ASSUME NEW v \in 1 .. Len(heap), NEW k \in 1 .. Len(heap), v # k PROVE FALSE
      <4>1. v = 1 /\ k = 1
        BY ONLY <1>11, v \in 1 .. Len(heap), k \in 1 .. Len(heap), Zenon
      <4> QED BY ONLY <3>1, <4>1, Zenon
    <3> QED BY ONLY <3>1, Zenon
  <2>3. \A a \in Units(owned) : \E k \in 1 .. Len(heap) : a \in Extent(heap[k])
    BY ONLY <1>8, <1>10, <1>11, Zenon
  <2> QED BY ONLY <2>1, <2>2, <2>3, Zenon DEF ExactlyCovers
<1>13. AllLarge(heap)
  BY ONLY <1>6, <1>8, <1>11, Zenon DEF AllLarge
<1>14. owned \subseteq Nat /\ block \in Nat
  BY ONLY <1>6, <1>7
<1>15. torn \in BOOLEAN
  BY ONLY <1>7, Zenon
<1> QED BY ONLY <1>8, <1>12, <1>13, <1>14, <1>15, Zenon DEF HeapInv

\* What a step leaves of the blocks in use.
Stay ==
  \A k \in 1 .. Len(heap) :
    ~heap[k].free => \/ \E m \in 1 .. Len(heap') : heap'[m] = heap[k]
                     \/ kfree(k)

\* kmalloc from a block of the list.
LEMMA KmallocKeeps ==
  ASSUME HeapInv, NEW size \in Requests, kmalloc(size)
  PROVE  HeapInv' /\ Stay
<1> DEFINE fitting == {k \in 1 .. Len(heap) : Fits(heap[k], size)}
<1>1. heap \in Seq(KBlock) /\ AllLarge(heap)
  BY Zenon DEF HeapInv
<1>2. PICK k : k = CHOOSE x \in fitting : \A m \in fitting : x <= m
  OBVIOUS
<1>3. k \in fitting
  <2>1. fitting \subseteq Nat /\ fitting # {}
    BY DEF kmalloc
  <2> HIDE DEF fitting
  <2> QED BY <1>2, <2>1, FirstExists, Zenon
<1>4. k \in 1 .. Len(heap) /\ heap[k].free /\ heap[k].size >= size
  BY <1>3, Zenon DEF Fits
<1>5. heap' = split_block(heap, k, size) /\ owned' = owned /\ block' = block /\ torn' = torn
  BY <1>2, Zenon DEF kmalloc
<1>6. size \in Nat
  BY KmallocAssumption
<1>7. /\ heap' \in Seq(KBlock) /\ StillCovers(heap', heap)
      /\ AllLarge(heap') /\ OthersStay(heap', heap, k)
  BY ONLY <1>1, <1>4, <1>5, <1>6, SplitBlock, Zenon
<1>8. Stay
  BY ONLY <1>4, <1>7, Zenon DEF Stay, OthersStay
<1>9. HeapInv'
  BY ONLY <1>5, <1>7, HeapInv, Zenon DEF HeapInv, StillCovers
<1> QED BY <1>8, <1>9

\* kmalloc from a new region: its pages are not those of any block.
LEMMA ExpandKeeps ==
  ASSUME HeapInv, NEW size \in Requests, kmalloc_expand(size)
  PROVE  HeapInv' /\ Stay
<1>1. heap \in Seq(KBlock) /\ AllLarge(heap) /\ owned \subseteq Nat /\ block \in Nat
  BY Zenon DEF HeapInv
<1>2. PICK n : n = PagesFor(size)
  BY Zenon
<1>3. size \in Nat \ {0} /\ size \in Nat
  BY KmallocAssumption
<1>4. n \in Nat \ {0}
  BY ONLY <1>2, <1>3, PagesForEnough, Zenon
<1>5. PICK p : p = pmm_alloc_pages(n)
  BY Zenon
<1>6. p \in Nat /\ \A q \in p .. p + n - 1 : q \in Nat /\ q \notin owned
  <2>1. p # 0
    BY <1>2, <1>5, Zenon DEF kmalloc_expand
  <2> QED BY ONLY <1>4, <1>5, <2>1, NewPages, Zenon
<1>7. PICK b : b = NewRegion(p, n)
  BY Zenon
<1>8. Fills(b, p, n, size)
  BY ONLY <1>2, <1>3, <1>6, <1>7, NewRegionFills, Zenon
<1>9. b \in KBlock /\ b.size >= size /\ b.size >= b.asked
  BY ONLY <1>8, Zenon DEF Fills
<1>10. PICK h : h = Append(heap, b)
  BY Zenon
<1>11. PICK k : k = Len(heap) + 1
  BY Zenon
<1>12. /\ heap' = split_block(h, k, size)
       /\ owned' = owned \cup (p .. p + n - 1) /\ block' = block /\ torn' = torn
  BY <1>2, <1>5, <1>7, <1>10, <1>11, Zenon DEF kmalloc_expand
<1>13. /\ h \in Seq(KBlock) /\ Len(h) = Len(heap) + 1 /\ h[k] = b /\ Len(heap) \in Nat
       /\ \A v \in 1 .. Len(heap) : h[v] = heap[v]
  BY ONLY <1>1, <1>9, <1>10, <1>11
<1>14. /\ k \in 1 .. Len(h)
       /\ \A v : v \in 1 .. Len(h) <=> v \in 1 .. Len(heap) \/ v = k
       /\ \A v \in 1 .. Len(heap) : v # k
  BY ONLY <1>11, <1>13
<1>15. AllLarge(h)
  BY ONLY <1>1, <1>9, <1>13, <1>14, Zenon DEF AllLarge
<1>16. /\ heap' \in Seq(KBlock) /\ StillCovers(heap', h)
       /\ AllLarge(heap') /\ OthersStay(heap', h, k)
  <2>1. h[k].size >= size
    BY ONLY <1>9, <1>13, Zenon
  <2> QED BY ONLY <1>3, <1>12, <1>13, <1>14, <1>15, <2>1, SplitBlock, ZenonT(60)
<1>17. Stay
  BY ONLY <1>13, <1>14, <1>16, Zenon DEF Stay, OthersStay
<1>18. owned' \subseteq Nat
  BY ONLY <1>1, <1>6, <1>12, Zenon
<1>19. ASSUME ExactlyCovers(heap, Units(owned)) PROVE ExactlyCovers(heap', Units(owned'))
  <2>1. \A a : a \in Units(owned') <=> a \in Units(owned) \/ a \in Units(p .. p + n - 1)
    BY ONLY <1>12, Zenon DEF Units
  <2>2. \A a : a \in Extent(b) <=> a \in Units(p .. p + n - 1)
    BY ONLY <1>6, <1>8, FilledPages, Zenon
  <2>3. \A a \in Units(owned) : a \notin Extent(b)
    <3>1. p .. p + n - 1 \subseteq Nat
      BY ONLY <1>6, Zenon
    <3> QED BY ONLY <1>1, <1>6, <2>2, <3>1, UnitsOfPages, Zenon
  <2>4. ExactlyCovers(h, Units(owned'))
    <3>1. PICK U, V : U = Units(owned) /\ V = Units(owned')
      BY Zenon
    <3>2. ExactlyCovers(heap, U)
      BY ONLY <1>19, <3>1, Zenon
    <3>3. \A a : a \in V <=> a \in U \/ a \in Extent(b)
      BY ONLY <2>1, <2>2, <3>1, Zenon
    <3>4. \A a \in U : a \notin Extent(b)
      BY ONLY <2>3, <3>1, Zenon
    <3>5. h[Len(heap) + 1] = b
      BY ONLY <1>11, <1>13, Zenon
    <3>6. ExactlyCovers(h, V)
      BY ONLY <1>1, <1>9, <1>13, <3>2, <3>3, <3>4, <3>5, AppendCovers, ZenonT(60)
    <3> QED BY ONLY <3>1, <3>6, Zenon
  <2> QED BY ONLY <1>16, <2>4, Zenon DEF StillCovers
<1>20. HeapInv'
  BY ONLY <1>1, <1>12, <1>16, <1>18, <1>19, HeapInv, Zenon DEF HeapInv
<1> QED BY <1>17, <1>20

\* kfree marks a block and leaves it where it is.
LEMMA KfreeKeeps ==
  ASSUME HeapInv, NEW k \in 1 .. Len(heap), kfree(k)
  PROVE  HeapInv' /\ Stay
<1>1. heap \in Seq(KBlock) /\ AllLarge(heap)
  BY Zenon DEF HeapInv
<1>2. PICK x \in KBlock : x = heap[k]
  BY <1>1, ListFacts, Zenon
<1>3. PICK b : b = FreeBlock(x.at, x.size)
  BY Zenon
<1>4. x.at \in Nat /\ x.size \in Nat
  BY BlockFacts, Zenon
<1>5. b \in KBlock /\ b.size >= b.asked
  <2>1. b \in KBlock /\ b.size = x.size /\ b.asked = 0
    BY ONLY <1>3, <1>4, MakeBlock, 0 \in Nat
  <2> QED BY ONLY <1>4, <2>1
<1>6. Extent(b) = Extent(x)
  BY ONLY <1>3, Zenon DEF FreeBlock, Extent
<1>7. heap' = [heap EXCEPT ![k] = b]
  BY <1>2, <1>3, Zenon DEF kfree
<1>8. /\ heap' \in Seq(KBlock) /\ Len(heap') = Len(heap)
      /\ heap'[k] = b /\ \A v \in 1 .. Len(heap) : v # k => heap'[v] = heap[v]
  BY ONLY <1>1, <1>5, <1>7, k \in 1 .. Len(heap)
<1>9. StillCovers(heap', heap)
  <2>1. \A v \in 1 .. Len(heap) : Extent(heap'[v]) = Extent(heap[v])
    BY ONLY <1>2, <1>6, <1>8, Zenon
  <2> QED BY ONLY <1>8, <2>1, SameCovers, Zenon
<1>10. AllLarge(heap')
  BY ONLY <1>1, <1>5, <1>8, Zenon DEF AllLarge
<1>11. Stay
  <2>1. ASSUME NEW v \in 1 .. Len(heap), v # k PROVE \E m \in 1 .. Len(heap') : heap'[m] = heap[v]
    BY ONLY <1>8, <2>1, v \in 1 .. Len(heap), Zenon
  <2> QED BY ONLY <2>1, kfree(k), Zenon DEF Stay
<1>12. block' = 1 /\ owned' = owned /\ torn' = torn
  BY Zenon DEF kfree
<1>13. HeapInv'
  BY ONLY <1>8, <1>9, <1>10, <1>12, HeapInv, 1 \in Nat, Zenon DEF HeapInv, StillCovers
<1> QED BY <1>11, <1>13

\* coalesce merges free blocks or leaves the list as it is; a merge of blocks
\* that are not neighbours is recorded.
LEMMA CoalesceKeeps ==
  ASSUME HeapInv, coalesce
  PROVE  HeapInv' /\ Stay
<1>1. heap \in Seq(KBlock) /\ AllLarge(heap) /\ block \in Nat /\ Len(heap) \in Nat
  BY DEF HeapInv
<1>2. block' \in Nat /\ owned' = owned
  BY <1>1, 0 \in Nat, block + 1 \in Nat, Zenon DEF coalesce
<1>3. CASE UNCHANGED <<heap, torn>>
  <2>1. Stay
    BY <1>3, Zenon DEF Stay
  <2>2. HeapInv'
    BY ONLY <1>2, <1>3, HeapInv, Zenon DEF HeapInv
  <2> QED BY <2>1, <2>2
<1>4. CASE ~UNCHANGED <<heap, torn>>
  <2>1. PICK k \in Nat : k = block
    BY <1>1, Zenon
  <2>2. /\ k # 0 /\ ~(k >= Len(heap))
        /\ heap[k].free /\ heap[k + 1].free /\ heap' = Merged(heap, k)
        /\ torn' = (torn \/ heap[k + 1].at # End(heap[k]))
    BY <1>4, <2>1, Zenon DEF coalesce, Merges
  <2>3. k \in 1 .. Len(heap) - 1
    BY ONLY <1>1, <2>2, k \in Nat
  <2>4. MergesTwo(heap', heap, k)
    BY ONLY <1>1, <2>2, <2>3, MergedBlock, Zenon
  <2>5. Stay
    BY ONLY <2>2, <2>4, Zenon DEF Stay, MergesTwo
  <2>6. torn' \in BOOLEAN
    BY ONLY <2>2, Zenon
  <2>7. torn' \/ ExactlyCovers(heap', Units(owned'))
    BY ONLY <1>2, <2>2, <2>4, HeapInv, Zenon DEF HeapInv, StillCovers, MergesTwo
  <2>8. HeapInv'
    BY ONLY <1>2, <2>4, <2>6, <2>7, HeapInv, Zenon DEF HeapInv, MergesTwo
  <2> QED BY <2>5, <2>8
<1> QED BY <1>3, <1>4

\* The other users of the page allocator leave the heap alone.
LEMMA OthersKeep ==
  ASSUME HeapInv, UNCHANGED <<heap, owned, block, torn>>
  PROVE  HeapInv' /\ Stay
BY Zenon DEF HeapInv, Stay

\* Every step keeps the invariant and the blocks in use.
LEMMA HeapStep == HeapInv /\ [HeapNext]_heapVars => HeapInv' /\ Stay
<1> SUFFICES ASSUME HeapInv, [HeapNext]_heapVars PROVE HeapInv' /\ Stay
  OBVIOUS
<1>1. CASE UNCHANGED heapVars
  <2>1. UNCHANGED <<heap, owned, block, torn>>
    BY <1>1, Zenon DEF heapVars
  <2> QED BY <2>1, OthersKeep, Zenon
<1>2. ASSUME NEW size \in Requests, kmalloc(size) PROVE HeapInv' /\ Stay
  BY <1>2, KmallocKeeps, Zenon
<1>3. ASSUME NEW size \in Requests, kmalloc_expand(size) PROVE HeapInv' /\ Stay
  BY <1>3, ExpandKeeps, Zenon
<1>4. ASSUME NEW size \in Requests, kmalloc_fails(size) PROVE UNCHANGED heapVars
  BY <1>4, Zenon DEF kmalloc_fails
<1>5. ASSUME NEW k \in 1 .. Len(heap), kfree(k) PROVE HeapInv' /\ Stay
  BY <1>5, KfreeKeeps, Zenon
<1>6. ASSUME coalesce PROVE HeapInv' /\ Stay
  BY <1>6, CoalesceKeeps, Zenon
<1>7. ASSUME pmm_alloc_page_others \/ pmm_free_page_others PROVE HeapInv' /\ Stay
  <2>1. UNCHANGED <<heap, owned, block, torn>>
    BY <1>7, Zenon DEF pmm_alloc_page_others, pmm_free_page_others
  <2> QED BY <2>1, OthersKeep, Zenon
<1> QED BY <1>1, <1>2, <1>3, <1>4, <1>5, <1>6, <1>7, Zenon DEF HeapNext

-----------------------------------------------------------------------------
(* The heap among the other users of the page allocator. *)

\* Until blocks of two regions have been merged across pages of others, every
\* address of the pages of the heap lies in exactly one block and no block
\* reaches beyond them.
THEOREM HeapInvariant == HeapSpec => []HeapInv
BY HeapInit, HeapStep, PTL DEF HeapSpec

\* Until then the blocks lie in pages of the heap, do not overlap and lose no
\* unit, wherever the pages others take make the regions come to lie.
THEOREM HeapIsSoundUntilTorn == HeapSpec => []SoundUntilTorn
<1>1. HeapInv => SoundUntilTorn
  BY Zenon DEF HeapInv, ExactlyCovers, SoundUntilTorn, PageBacked, Tiled
<1> QED BY <1>1, HeapInvariant, PTL

\* Until then an allocation is as large as asked for.
THEOREM AllocationsAreLargeEnough == HeapSpec => []LargeEnough
<1>1. HeapInv => LargeEnough
  BY Zenon DEF HeapInv, LargeEnough
<1> QED BY <1>1, HeapInvariant, PTL

\* A block in use stays where it is and as large as it is until it is freed.
THEOREM BlocksInUseStay == HeapSpec => UsedBlocksStay
<1> DEFINE A == torn' \/ \A k \in 1 .. Len(heap) :
                           ~heap[k].free => \/ \E m \in 1 .. Len(heap') : heap'[m] = heap[k]
                                            \/ kfree(k)
<1>1. HeapInv /\ [HeapNext]_heapVars => [A]_heapVars
  <2>1. Stay => A
    BY Zenon DEF Stay
  <2> QED BY <2>1, HeapStep, Zenon
<1> HIDE DEF A
<1>2. HeapSpec => [][A]_heapVars
  BY <1>1, HeapInvariant, PTL DEF HeapSpec
<1> QED BY <1>2 DEF UsedBlocksStay, A

-----------------------------------------------------------------------------
(* The bitmap of the page allocator. *)

\* The bytes of the bitmap divide the pages.
LEMMA ByteHasPage ==
  \A p \in Pages : p \in Byte(p) /\ Byte(p) \subseteq Pages
BY DEF Byte

\* What pmm_init leaves allocated is memory, and page 0 is among it.
LEMMA InitialPages ==
  \A m : InitialBitmap(m) \subseteq Pages /\ 0 \in InitialBitmap(m)
BY PmmAssumption DEF InitialBitmap, BitmapOf, Pages

\* The tick and the counter leave what is taken alone when they leave the
\* owners alone.
LEMMA TakenKept ==
  ASSUME memory_map' = memory_map
  PROVE  /\ InitialBitmap(memory_map)' = InitialBitmap(memory_map)
         /\ in_use' = in_use => Taken' = Taken
BY DEF Taken, InitialBitmap

\* A byte stored from the register shows what it showed when it was loaded,
\* and the page that was added to it.
LEMMA StoreSets ==
  ASSUME NEW B, NEW byte, NEW R, NEW S, NEW p,
         S \subseteq B, R \subseteq byte, S \cap byte \subseteq R, p \in byte
  PROVE  /\ S \cup {p} \subseteq (B \ byte) \cup (R \cup {p})
         /\ B \subseteq S /\ R \subseteq S
              => (B \ byte) \cup (R \cup {p}) \subseteq S \cup {p}
OBVIOUS

\* Storing a byte with one bit cleared takes that page, and only that, out of
\* what the bitmap shows.
LEMMA StoreClears ==
  ASSUME NEW B, NEW byte, NEW R, NEW S, NEW p,
         S \subseteq B, R \subseteq byte, S \cap byte \subseteq R, p \in byte
  PROVE  /\ S \ {p} \subseteq (B \ byte) \cup (R \ {p})
         /\ B \subseteq S /\ R \subseteq S
              => (B \ byte) \cup (R \ {p}) \subseteq S \ {p}
OBVIOUS

\* A used page blocks every run that contains it: the scan may go on after it.
LEMMA SkipIsSafe ==
  ASSUME NEW S, NEW a \in Nat, NEW b \in Nat, NEW n \in Nat,
         b \in a .. a + n - 1, b \in S, Blocked(S, a, n)
  PROVE  Blocked(S, b + 1, n)
<1> SUFFICES ASSUME NEW s \in 0 .. b
             PROVE  \E p \in s .. s + n - 1 : p \in S
  BY DEF Blocked
<1>1. CASE s < a
  BY <1>1 DEF Blocked
<1>2. CASE s >= a
  BY <1>2
<1> QED
  BY <1>1, <1>2

\* When no run can start before b, none can before a smaller a.
LEMMA BlockedBefore ==
  ASSUME NEW S, NEW a \in Int, NEW b \in Int, NEW n \in Nat, a <= b, Blocked(S, b, n)
  PROVE  Blocked(S, a, n)
BY DEF Blocked

-----------------------------------------------------------------------------
(* The invariant of the page allocator. *)

\* PmmInv holds after pmm_init.
LEMMA PmmStarts == Init => PmmInv
<1> SUFFICES ASSUME Init PROVE PmmInv
  OBVIOUS
<1>1. PmmTypes
  BY InitialPages, Zenon DEF Init, PmmTypes
<1>2. OwnersOK
  BY Zenon DEF Init, OwnersOK
<1>3. BitmapOK
  BY Zenon DEF Init, BitmapOK, Shows, Taken, ClearLabels, CountLabels
<1>4. RunOK /\ PageOK
  BY DEF Init, RunOK, PageOK, MarkLabels, ClearLabels, CountLabels
<1> QED
  BY <1>1, <1>2, <1>3, <1>4 DEF PmmInv

\* A call of pmm_alloc_pages keeps PmmInv.
LEMMA AllocCallKeeps ==
  ASSUME PmmInv, AllocCall
  PROVE  PmmInv'
<1>1. Taken' = Taken /\ InitialBitmap(memory_map)' = InitialBitmap(memory_map)
  BY TakenKept, Zenon DEF AllocCall, ownerVars
<1>2. PmmTypes'
  BY PmmAssumption DEF AllocCall, PmmInv, PmmTypes, pmmVars
<1>3. OwnersOK'
  BY <1>1, Zenon DEF AllocCall, PmmInv, OwnersOK, ownerVars
<1>4. BitmapOK'
  BY <1>1, Zenon DEF AllocCall, PmmInv, BitmapOK, Shows, pmmVars, ClearLabels, CountLabels
<1>5. RunOK'
  <2>1. 0 \in Taken
    BY InitialPages DEF Taken
  <2>2. NoneBefore(i)'
    BY <1>1, <2>1, PmmAssumption DEF AllocCall, NoneBefore, Blocked
  <2>3. count' >= 1 /\ j' \in Run' /\ (i .. j - 1)' = {}
    BY PmmAssumption DEF AllocCall, Run
  <2> QED
    BY <2>2, <2>3 DEF AllocCall, RunOK, MarkLabels
<1>6. PageOK'
  BY DEF AllocCall, PageOK, ClearLabels, CountLabels
<1> QED
  BY <1>2, <1>3, <1>4, <1>5, <1>6, Zenon DEF PmmInv

\* A test of a bit in the scan, and what follows from it, keep PmmInv.
LEMMA ScanKeeps ==
  ASSUME PmmInv, Scan
  PROVE  PmmInv'
<1>1. /\ Taken' = Taken /\ InitialBitmap(memory_map)' = InitialBitmap(memory_map)
      /\ pc = "scan" /\ bitmap' = bitmap /\ interrupts' = interrupts /\ count' = count
      /\ in_use' = in_use /\ dead' = dead /\ memory_map' = memory_map
  BY TakenKept, Zenon DEF Scan, ownerVars, pmmVars
<1>2. /\ i \in Nat /\ j \in Nat /\ count \in Nat /\ count >= 1 /\ total_pages \in Nat
      /\ j \in i .. i + count - 1 /\ (i .. j - 1) \cap bitmap = {}
      /\ NoneBefore(i) /\ Shows(Taken)
  BY <1>1, PmmAssumption DEF PmmInv, PmmTypes, RunOK, Run, BitmapOK
<1>3. OwnersOK'
  BY <1>1 DEF PmmInv, OwnersOK
<1>4. CASE i > LastStart /\ pc' = "none" /\ UNCHANGED <<i, j>>
  <2>1. NoneBefore(LastStart + 1)'
    <3>1. LastStart + 1 \in Int /\ LastStart + 1 <= i /\ LastStart' = LastStart
      BY <1>1, <1>2, <1>4 DEF LastStart
    <3>2. ~interrupts => Blocked(Taken, LastStart + 1, count)
      BY <1>2, <3>1, BlockedBefore DEF NoneBefore
    <3> QED
      BY <1>1, <3>1, <3>2 DEF NoneBefore
  <2>2. PmmTypes' /\ BitmapOK' /\ RunOK' /\ PageOK'
    BY <1>1, <1>2, <1>4, <2>1 DEF PmmInv, PmmTypes, BitmapOK, Shows, RunOK, PageOK,
         MarkLabels, ClearLabels, CountLabels
  <2> QED
    BY <1>3, <2>2 DEF PmmInv
<1>5. CASE i <= LastStart /\ ~StillFree(j) /\ i' = j + 1 /\ j' = j + 1 /\ UNCHANGED pc
  <2>1. ~interrupts => j \in Taken
    BY <1>2, <1>5 DEF StillFree, Shows
  <2>2. NoneBefore(i)'
    <3>1. ~interrupts => Blocked(Taken, j + 1, count)
      BY <1>2, <2>1, SkipIsSafe, ZenonT(60) DEF NoneBefore
    <3> QED
      BY <1>1, <1>5, <3>1 DEF NoneBefore
  <2>3. PmmTypes' /\ BitmapOK' /\ RunOK' /\ PageOK'
    <3>1. pc' = "scan"
      BY ONLY <1>1, <1>5, Zenon
    <3>2. PmmTypes'
      <4>1. i' \in Nat /\ j' \in Nat
        BY ONLY <1>2, <1>5
      <4> QED BY <1>1, <1>2, <3>1, <4>1, Zenon DEF PmmInv, PmmTypes
    <3>3. BitmapOK'
      BY ONLY <1>1, <1>2, <3>1, Zenon DEF BitmapOK, Shows, ClearLabels, CountLabels
    <3>4. RunOK'
      <4>1. j' \in Run' /\ ((i .. j - 1) \cap bitmap)' = {}
        BY ONLY <1>1, <1>2, <1>5, <2>2 DEF Run
      <4> QED BY ONLY <1>1, <1>2, <2>2, <3>1, <4>1, Zenon DEF RunOK, MarkLabels
    <3>5. PageOK'
      BY ONLY <3>1, Zenon DEF PageOK, ClearLabels, CountLabels
    <3> QED BY ONLY <3>2, <3>3, <3>4, <3>5, Zenon
  <2> QED
    BY <1>3, <2>3 DEF PmmInv
<1>6. CASE i <= LastStart /\ StillFree(j) /\ j + 1 < i + count /\ j' = j + 1 /\ UNCHANGED <<pc, i>>
  <2>1. (i .. j - 1)' \cap bitmap = {} /\ NoneBefore(i)'
    BY ONLY <1>1, <1>2, <1>6 DEF StillFree, NoneBefore
  <2>2. PmmTypes' /\ BitmapOK' /\ RunOK' /\ PageOK'
    <3>1. pc' = "scan"
      BY ONLY <1>1, <1>6, Zenon
    <3>2. PmmTypes'
      <4>1. i' \in Nat /\ j' \in Nat
        BY ONLY <1>2, <1>6
      <4> QED BY <1>1, <1>2, <3>1, <4>1, Zenon DEF PmmInv, PmmTypes
    <3>3. BitmapOK'
      BY ONLY <1>1, <1>2, <3>1, Zenon DEF BitmapOK, Shows, ClearLabels, CountLabels
    <3>4. RunOK'
      <4>1. j' \in Run' /\ ((i .. j - 1) \cap bitmap)' = {}
        BY ONLY <1>1, <1>2, <1>6, <2>1 DEF Run
      <4> QED BY ONLY <1>1, <1>2, <2>1, <3>1, <4>1, Zenon DEF RunOK, MarkLabels
    <3>5. PageOK'
      BY ONLY <3>1, Zenon DEF PageOK, ClearLabels, CountLabels
    <3> QED BY ONLY <3>2, <3>3, <3>4, <3>5, Zenon
  <2> QED
    BY <1>3, <2>2 DEF PmmInv
<1>7. CASE /\ i <= LastStart /\ StillFree(j) /\ ~(j + 1 < i + count)
           /\ j' = i /\ pc' = "set_load" /\ UNCHANGED i
  <2>1. Run' = i .. j
    BY <1>1, <1>2, <1>7 DEF Run
  <2>2. Run' \cap Taken = {} /\ NoneBefore(i)' /\ i <= LastStart'
    BY <1>1, <1>2, <1>7, <2>1 DEF StillFree, NoneBefore, Shows, LastStart
  <2>3. i .. i - 1 = {} /\ Taken \cup (i .. i - 1) = Taken
    BY ONLY <1>2
  <2>4. BitmapOK'
    BY ONLY <1>1, <1>2, <1>7, <2>3, Zenon DEF BitmapOK, Shows, ClearLabels, CountLabels
  <2>5. PmmTypes' /\ RunOK' /\ PageOK'
    BY <1>1, <1>2, <1>7, <2>1, <2>2 DEF PmmInv, PmmTypes, RunOK, PageOK,
         MarkLabels, ClearLabels, CountLabels
  <2> QED
    BY <1>3, <2>4, <2>5 DEF PmmInv
<1> QED
  BY <1>4, <1>5, <1>6, <1>7, Zenon DEF Scan, SkipUsed

\* The two steps that load a byte.
LEMMA LoadByteKeeps ==
  ASSUME PmmInv,
         \/ LoadByte("set_load", "set_store", j)
         \/ LoadByte("clear_load", "clear_store", i)
  PROVE  PmmInv'
<1>1. /\ Taken' = Taken /\ InitialBitmap(memory_map)' = InitialBitmap(memory_map)
      /\ bitmap' = bitmap /\ interrupts' = interrupts
      /\ i' = i /\ j' = j /\ count' = count
      /\ in_use' = in_use /\ dead' = dead /\ memory_map' = memory_map
  BY TakenKept DEF LoadByte, ownerVars, pmmVars
<1>2. \/ pc = "set_load" /\ pc' = "set_store" /\ rbyte' = bitmap \cap Byte(j)
      \/ pc = "clear_load" /\ pc' = "clear_store" /\ rbyte' = bitmap \cap Byte(i)
  BY DEF LoadByte
<1>3. PmmTypes' /\ OwnersOK'
  BY <1>1, <1>2, Zenon DEF PmmInv, PmmTypes, OwnersOK, MarkLabels, ClearLabels
<1>4. RunOK' /\ PageOK'
  BY <1>1, <1>2 DEF PmmInv, RunOK, PageOK, Run, LastStart, NoneBefore,
       MarkLabels, ClearLabels, CountLabels
<1>5. BitmapOK'
  <2>1. CASE pc = "set_load"
    <3>1. Shows(Taken \cup i .. j - 1)
      BY <2>1, Zenon DEF PmmInv, BitmapOK
    <3> QED
      BY <1>1, <1>2, <2>1, <3>1, Zenon DEF BitmapOK, Shows, RegisterShows, Byte, ClearLabels, CountLabels
  <2>2. CASE pc = "clear_load"
    <3>1. Shows(Taken)
      BY <2>2 DEF PmmInv, BitmapOK, ClearLabels
    <3> QED
      BY ONLY <1>1, <1>2, <2>2, <3>1 DEF BitmapOK, Shows, RegisterShows, Byte, ClearLabels, CountLabels
  <2> QED
    BY <1>2, <2>1, <2>2, Zenon
<1> QED
  BY <1>3, <1>4, <1>5 DEF PmmInv

\* Storing a byte with one bit set keeps PmmInv.
LEMMA StoreSetKeeps ==
  ASSUME PmmInv, StoreByte("set_store", "dec_load", j, rbyte \cup {j})
  PROVE  PmmInv'
<1>1. /\ Taken' = Taken /\ InitialBitmap(memory_map)' = InitialBitmap(memory_map)
      /\ interrupts' = interrupts /\ i' = i /\ j' = j /\ count' = count
      /\ in_use' = in_use /\ dead' = dead /\ memory_map' = memory_map
      /\ pc = "set_store" /\ pc' = "dec_load"
      /\ bitmap' = (bitmap \ Byte(j)) \cup (rbyte \cup {j})
  BY TakenKept DEF StoreByte, ownerVars, localVars
<1>2. /\ Shows(Taken \cup i .. j - 1) /\ RegisterShows(j, Taken \cup i .. j - 1)
      /\ i \in Nat /\ j \in Nat /\ count \in Nat /\ j \in Run /\ i <= LastStart
  BY <1>1 DEF PmmInv, PmmTypes, BitmapOK, RunOK, MarkLabels
<1>3. j \in Pages /\ j \in Byte(j) /\ Byte(j) \subseteq Pages
  BY <1>2, ByteHasPage, PmmAssumption DEF Run, LastStart, Pages
<1>4. PmmTypes' /\ OwnersOK'
  BY <1>1, <1>2, <1>3, Zenon DEF PmmInv, PmmTypes, OwnersOK, MarkLabels, RegisterShows
<1>5. RunOK' /\ PageOK'
  BY <1>1 DEF PmmInv, RunOK, PageOK, Run, LastStart, NoneBefore,
       MarkLabels, ClearLabels, CountLabels
<1>6. BitmapOK'
  <2>1. (Taken \cup i .. j - 1) \cup {j} = Taken \cup i .. j
    BY ONLY <1>2 DEF Run
  <2>2. Taken \cup i .. j \subseteq bitmap'
    BY ONLY <1>1, <1>2, <1>3, <2>1, StoreSets DEF Shows, RegisterShows
  <2>3. ~interrupts => bitmap' \subseteq Taken \cup i .. j
    BY ONLY <1>1, <1>2, <1>3, <2>1, StoreSets, Zenon DEF Shows, RegisterShows
  <2> QED
    BY <1>1, <2>2, <2>3 DEF BitmapOK, Shows, ClearLabels, CountLabels
<1> QED
  BY <1>4, <1>5, <1>6 DEF PmmInv

\* Storing a byte with one bit cleared keeps PmmInv.
LEMMA StoreClearKeeps ==
  ASSUME PmmInv, StoreByte("clear_store", "inc_load", i, rbyte \ {i})
  PROVE  PmmInv'
<1>1. /\ Taken' = Taken /\ InitialBitmap(memory_map)' = InitialBitmap(memory_map)
      /\ interrupts' = interrupts /\ i' = i /\ j' = j /\ count' = count
      /\ in_use' = in_use /\ dead' = dead /\ memory_map' = memory_map
      /\ pc = "clear_store" /\ pc' = "inc_load"
      /\ bitmap' = (bitmap \ Byte(i)) \cup (rbyte \ {i})
  BY TakenKept, Zenon DEF StoreByte, ownerVars, localVars
<1>2. /\ Shows(Taken) /\ RegisterShows(i, Taken) /\ i \in Pages \ InitialBitmap(memory_map)
  BY <1>1 DEF PmmInv, BitmapOK, PageOK, ClearLabels
<1>3. i \in Byte(i) /\ Byte(i) \subseteq Pages
  BY ONLY <1>2, ByteHasPage
<1>4. PmmTypes' /\ OwnersOK'
  BY <1>1, <1>2, <1>3, Zenon DEF PmmInv, PmmTypes, OwnersOK, CountLabels, RegisterShows
<1>5. RunOK' /\ PageOK'
  BY <1>1, Zenon DEF PmmInv, RunOK, PageOK, MarkLabels, ClearLabels, CountLabels
<1>6. BitmapOK'
  <2>1. Taken \ {i} = InitialBitmap(memory_map) \cup (in_use \ {i})
    BY <1>2 DEF Taken
  <2>2. Taken \ {i} \subseteq bitmap'
    BY ONLY <1>1, <1>2, <1>3, StoreClears DEF Shows, RegisterShows
  <2>3. ~interrupts => bitmap' \subseteq Taken \ {i}
    BY ONLY <1>1, <1>2, <1>3, StoreClears DEF Shows, RegisterShows
  <2> QED
    BY <1>1, <2>1, <2>2, <2>3 DEF BitmapOK, Shows, ClearLabels, CountLabels
<1> QED
  BY ONLY <1>4, <1>5, <1>6, Zenon DEF PmmInv

\* Steps of a call that touch the counter only.
LEMMA CountKeeps ==
  ASSUME PmmInv,
         \/ LoadCount("dec_load", "dec_store")
         \/ LoadCount("inc_load", "inc_store")
         \/ StoreFreed
  PROVE  PmmInv'
<1>1. /\ Taken' = Taken /\ InitialBitmap(memory_map)' = InitialBitmap(memory_map)
      /\ bitmap' = bitmap /\ interrupts' = interrupts
      /\ i' = i /\ j' = j /\ count' = count
      /\ in_use' = in_use /\ dead' = dead /\ memory_map' = memory_map
  BY TakenKept DEF LoadCount, StoreFreed, ownerVars, pmmVars, localVars
<1>2. \/ pc = "dec_load" /\ pc' = "dec_store"
      \/ pc = "inc_load" /\ pc' = "inc_store"
      \/ pc = "inc_store" /\ pc' = "freed"
  BY DEF LoadCount, StoreFreed
<1>3. PmmTypes' /\ OwnersOK'
  BY <1>1, <1>2, Zenon DEF PmmInv, PmmTypes, OwnersOK, MarkLabels, CountLabels
<1>4. RunOK' /\ PageOK'
  BY <1>1, <1>2, Zenon DEF PmmInv, RunOK, PageOK, Run, LastStart, NoneBefore,
       MarkLabels, ClearLabels, CountLabels
<1>5. BitmapOK'
  BY <1>1, <1>2 DEF PmmInv, BitmapOK, Shows, ClearLabels, CountLabels
<1> QED
  BY <1>3, <1>4, <1>5 DEF PmmInv

\* Storing the lowered counter, and going on to the next page, keep PmmInv.
LEMMA StoreTakenKeeps ==
  ASSUME PmmInv, StoreTaken
  PROVE  PmmInv'
<1>1. /\ Taken' = Taken /\ InitialBitmap(memory_map)' = InitialBitmap(memory_map)
      /\ bitmap' = bitmap /\ interrupts' = interrupts
      /\ i' = i /\ j' = j + 1 /\ count' = count
      /\ in_use' = in_use /\ dead' = dead /\ memory_map' = memory_map
      /\ pc = "dec_store"
  BY TakenKept DEF StoreTaken, ownerVars
<1>2. /\ i \in Nat /\ j \in Nat /\ count \in Nat /\ j \in i .. i + count - 1
      /\ i <= LastStart /\ Run \cap Taken = {} /\ count >= 1 /\ NoneBefore(i)
      /\ Shows(Taken \cup i .. j)
  BY <1>1 DEF PmmInv, PmmTypes, BitmapOK, RunOK, Run, MarkLabels
<1>3. /\ NoneBefore(i)' /\ i' <= LastStart' /\ Run' \cap Taken' = {}
  BY <1>1, <1>2 DEF NoneBefore, LastStart, Run
<1>4. OwnersOK'
  BY <1>1 DEF PmmInv, OwnersOK
<1>5. CASE j + 1 < i + count /\ pc' = "set_load"
  <2>1. i .. (j + 1) - 1 = i .. j /\ j' \in Run'
    BY <1>1, <1>2, <1>5 DEF Run
  <2>2. BitmapOK'
    BY ONLY <1>1, <1>2, <1>5, <2>1, Zenon DEF BitmapOK, Shows, ClearLabels, CountLabels
  <2>3. PmmTypes' /\ RunOK' /\ PageOK'
    BY <1>1, <1>2, <1>3, <1>5, <2>1 DEF PmmInv, PmmTypes, RunOK, PageOK,
         MarkLabels, ClearLabels, CountLabels
  <2> QED
    BY <1>4, <2>2, <2>3 DEF PmmInv
<1>6. CASE ~(j + 1 < i + count) /\ pc' = "found"
  <2>1. Run' = i .. j
    BY <1>1, <1>2, <1>6 DEF Run
  <2>2. BitmapOK'
    BY <1>1, <1>2, <1>6, <2>1, Zenon DEF BitmapOK, Shows, ClearLabels, CountLabels
  <2>3. PmmTypes' /\ RunOK' /\ PageOK'
    BY <1>1, <1>2, <1>3, <1>6 DEF PmmInv, PmmTypes, RunOK, PageOK,
         MarkLabels, ClearLabels, CountLabels
  <2> QED
    BY <1>4, <2>2, <2>3 DEF PmmInv
<1> QED
  BY <1>1, <1>5, <1>6 DEF StoreTaken

\* The return of pmm_alloc_pages keeps PmmInv.
LEMMA AllocReturnKeeps ==
  ASSUME PmmInv, AllocReturn
  PROVE  PmmInv'
<1>1. /\ InitialBitmap(memory_map)' = InitialBitmap(memory_map)
      /\ bitmap' = bitmap /\ interrupts' = interrupts /\ dead' = dead
      /\ memory_map' = memory_map /\ pc' = "idle" /\ i' = 0 /\ j' = 0 /\ count' = 0
  BY TakenKept, Zenon DEF AllocReturn, pmmVars
<1>2. PmmTypes' /\ RunOK' /\ PageOK'
  BY <1>1 DEF PmmInv, PmmTypes, RunOK, PageOK, MarkLabels, ClearLabels, CountLabels
<1>3. CASE pc = "found" /\ in_use' = in_use \cup Run
  <2>1. Run \subseteq Pages /\ Run \cap Taken = {} /\ Shows(Taken \cup Run)
    BY <1>3, PmmAssumption DEF PmmInv, PmmTypes, BitmapOK, RunOK, Run, Pages, LastStart
  <2>2. OwnersOK' /\ Taken' = Taken \cup Run
    BY <1>1, <1>3, <2>1, Zenon DEF PmmInv, OwnersOK, Taken
  <2>3. BitmapOK'
    BY <1>1, <2>1, <2>2 DEF BitmapOK, Shows, ClearLabels, CountLabels
  <2> QED
    BY <1>2, <2>2, <2>3, Zenon DEF PmmInv
<1>4. CASE pc = "none" /\ in_use' = in_use
  <2>1. OwnersOK' /\ Taken' = Taken /\ Shows(Taken)
    BY <1>1, <1>4, Zenon DEF PmmInv, OwnersOK, Taken, BitmapOK
  <2>2. BitmapOK'
    BY <1>1, <2>1 DEF BitmapOK, Shows, ClearLabels, CountLabels
  <2> QED
    BY ONLY <1>2, <2>1, <2>2, Zenon DEF PmmInv
<1> QED
  BY <1>3, <1>4 DEF AllocReturn

\* A call of pmm_free_page keeps PmmInv.
LEMMA FreeCallKeeps ==
  ASSUME PmmInv, FreeCall
  PROVE  PmmInv'
<1>1. /\ Taken' = Taken /\ InitialBitmap(memory_map)' = InitialBitmap(memory_map)
      /\ bitmap' = bitmap /\ interrupts' = interrupts /\ j' = j /\ count' = count
      /\ in_use' = in_use /\ dead' = dead /\ memory_map' = memory_map
      /\ pc = "idle" /\ i' \in in_use \cup {0}
  BY TakenKept DEF FreeCall, ownerVars, pmmVars
<1>2. /\ Shows(Taken) /\ 0 \in InitialBitmap(memory_map)
      /\ in_use \subseteq Pages \ InitialBitmap(memory_map)
  BY <1>1, InitialPages DEF PmmInv, BitmapOK, OwnersOK
<1>3. i' \in Nat
  BY <1>1, <1>2 DEF Pages
<1>4. PmmTypes' /\ OwnersOK'
  BY <1>1, <1>3 DEF FreeCall, PmmInv, PmmTypes, OwnersOK, ClearLabels
<1>5. CASE i' = 0
  <2>1. pc' = "freed"
    BY <1>5 DEF FreeCall
  <2>2. Taken = InitialBitmap(memory_map) \cup (in_use \ {0})
    BY <1>2, Zenon DEF Taken
  <2>3. BitmapOK' /\ RunOK' /\ PageOK'
    BY <1>1, <1>2, <1>5, <2>1, <2>2 DEF BitmapOK, Shows, RunOK, PageOK,
         MarkLabels, ClearLabels, CountLabels
  <2> QED
    BY <1>4, <2>3 DEF PmmInv
<1>6. CASE i' # 0
  <2>1. i' \in in_use /\ i' \in Pages \ InitialBitmap(memory_map) /\ i' \in bitmap
    BY <1>1, <1>2, <1>6 DEF Shows, Taken
  <2>2. ~(i' >= total_pages)
    BY <2>1, PmmAssumption DEF Pages
  <2>3. pc' = "clear_load"
    BY <1>6, <2>1, <2>2, Zenon DEF FreeCall
  <2>4. BitmapOK' /\ RunOK' /\ PageOK'
    BY <1>1, <1>2, <2>1, <2>3 DEF BitmapOK, Shows, RunOK, PageOK,
         MarkLabels, ClearLabels, CountLabels
  <2> QED
    BY <1>4, <2>4 DEF PmmInv
<1> QED
  BY <1>5, <1>6

\* The return of pmm_free_page keeps PmmInv.
LEMMA FreeReturnKeeps ==
  ASSUME PmmInv, FreeReturn
  PROVE  PmmInv'
<1>1. /\ InitialBitmap(memory_map)' = InitialBitmap(memory_map)
      /\ bitmap' = bitmap /\ interrupts' = interrupts
      /\ dead' = dead \ {i} /\ in_use' = in_use \ {i}
      /\ memory_map' = memory_map /\ pc = "freed" /\ pc' = "idle"
      /\ i' = 0 /\ j' = 0 /\ count' = 0
  BY TakenKept, Zenon DEF FreeReturn, pmmVars
<1>2. PmmTypes' /\ RunOK' /\ PageOK' /\ OwnersOK'
  BY <1>1 DEF PmmInv, PmmTypes, RunOK, PageOK, OwnersOK, MarkLabels, ClearLabels, CountLabels
<1>3. Taken' = InitialBitmap(memory_map) \cup (in_use \ {i})
  BY <1>1 DEF Taken
<1>4. Shows(InitialBitmap(memory_map) \cup (in_use \ {i}))
  BY <1>1, Zenon DEF PmmInv, BitmapOK
<1>5. BitmapOK'
  BY ONLY <1>1, <1>3, <1>4 DEF BitmapOK, Shows, ClearLabels, CountLabels
<1> QED
  BY <1>2, <1>5 DEF PmmInv

\* Enabling interrupts keeps PmmInv.
LEMMA EnableKeeps ==
  ASSUME PmmInv, enable_interrupts
  PROVE  PmmInv'
<1>1. /\ Taken' = Taken /\ InitialBitmap(memory_map)' = InitialBitmap(memory_map)
      /\ bitmap' = bitmap /\ interrupts' = TRUE /\ i' = i /\ j' = j /\ count' = count
      /\ in_use' = in_use /\ dead' = dead /\ memory_map' = memory_map
      /\ pc = "idle" /\ pc' = "idle"
  BY TakenKept, Zenon DEF enable_interrupts, ownerVars, pmmVars, localVars
<1>2. PmmTypes' /\ RunOK' /\ PageOK' /\ OwnersOK'
  BY <1>1 DEF PmmInv, PmmTypes, RunOK, PageOK, OwnersOK, MarkLabels, ClearLabels, CountLabels
<1>3. BitmapOK'
  BY <1>1 DEF PmmInv, BitmapOK, Shows, ClearLabels, CountLabels
<1> QED
  BY <1>2, <1>3 DEF PmmInv

\* A process that dies, leaving its pages to the reaper, keeps PmmInv.
LEMMA OwnerDiesKeeps ==
  ASSUME PmmInv, OwnerDies
  PROVE  PmmInv'
<1>1. /\ Taken' = Taken /\ InitialBitmap(memory_map)' = InitialBitmap(memory_map)
      /\ bitmap' = bitmap /\ interrupts' = interrupts /\ i' = i /\ j' = j /\ count' = count
      /\ in_use' = in_use /\ memory_map' = memory_map /\ pc' = pc /\ rbyte' = rbyte
  BY TakenKept DEF OwnerDies, pmmVars, localVars
<1>2. PmmTypes' /\ OwnersOK'
  BY <1>1, Zenon DEF OwnerDies, PmmInv, PmmTypes, OwnersOK
<1>3. RunOK' /\ PageOK'
  BY <1>1 DEF PmmInv, RunOK, PageOK, Run, LastStart, NoneBefore
<1>4. BitmapOK'
  BY <1>1 DEF PmmInv, BitmapOK, Shows, RegisterShows, Byte, Run
<1> QED
  BY <1>2, <1>3, <1>4 DEF PmmInv

\* The page of a dead owner is no page of a run that is being marked, so the
\* reaper clears no bit of it.
LEMMA ReapKeeps ==
  ASSUME PmmInv, interrupts, Reap
  PROVE  PmmInv'
<1>1. /\ InitialBitmap(memory_map)' = InitialBitmap(memory_map)
      /\ interrupts' = interrupts /\ i' = i /\ j' = j /\ count' = count
      /\ memory_map' = memory_map /\ pc' = pc /\ rbyte' = rbyte
  BY TakenKept DEF Reap, localVars
<1>2. PICK p \in dead : /\ bitmap' = bitmap \ {p} /\ in_use' = in_use \ {p}
                        /\ dead' = dead \ {p}
  BY DEF Reap
<1>3. p \in in_use /\ p \notin InitialBitmap(memory_map) /\ p \in Taken
  BY <1>2 DEF PmmInv, OwnersOK, Taken
<1>4. Taken' = Taken \ {p}
  BY ONLY <1>1, <1>2, <1>3, Zenon DEF Taken
<1>5. PmmTypes' /\ OwnersOK'
  BY <1>1, <1>2 DEF PmmInv, PmmTypes, OwnersOK
<1>6. Run' = Run /\ LastStart' = LastStart
  BY <1>1, Zenon DEF Run, LastStart
<1>7. RunOK' /\ PageOK'
  BY <1>1, <1>2, <1>4, <1>6, Zenon DEF PmmInv, RunOK, PageOK, NoneBefore
<1>8. BitmapOK'
  <2>1. pc \in MarkLabels \cup {"found"} => p \notin Run
    BY <1>3, Zenon DEF PmmInv, RunOK
  <2>2. pc \in MarkLabels => p \notin i .. j /\ p \notin i .. j - 1
    BY <2>1 DEF PmmInv, PmmTypes, RunOK, Run
  <2>3. Byte(i)' = Byte(i) /\ Byte(j)' = Byte(j)
    BY <1>1 DEF Byte
  <2>4. \A S : Shows(S) /\ p \notin S => S \subseteq bitmap'
    BY <1>2, ZenonT(60) DEF Shows
  <2>5. /\ pc \in {"idle", "scan", "none"} \cup ClearLabels => Shows(Taken)'
        /\ pc \in {"freed"} \cup CountLabels
             => Shows(InitialBitmap(memory_map) \cup (in_use \ {i}))'
    BY <1>1, <1>2, <1>3, <1>4 DEF PmmInv, BitmapOK, Shows
  <2>6. /\ pc \in {"set_load", "set_store"} => Shows(Taken \cup i .. j - 1)'
        /\ pc \in {"dec_load", "dec_store"} => Shows(Taken \cup i .. j)'
        /\ pc = "found" => Shows(Taken \cup Run)'
    BY <1>1, <1>2, <1>4, <1>6, <2>1, <2>2 DEF PmmInv, BitmapOK, Shows, MarkLabels
  <2>7. /\ pc = "set_store" => RegisterShows(j, Taken \cup i .. j - 1)'
        /\ pc = "clear_store" => RegisterShows(i, Taken)'
    BY <1>1, <1>4, <2>3 DEF PmmInv, BitmapOK, RegisterShows
  <2> QED
    BY ONLY <1>1, <2>5, <2>6, <2>7, Zenon DEF BitmapOK
<1> QED
  BY <1>5, <1>7, <1>8 DEF PmmInv

\* PmmInv is inductive.
LEMMA PmmKeeps == PmmInv /\ [Next]_vars => PmmInv'
<1> SUFFICES ASSUME PmmInv, [Next]_vars PROVE PmmInv'
  OBVIOUS
<1>1. CASE MarkUsed
  BY <1>1, LoadByteKeeps, StoreSetKeeps, CountKeeps, StoreTakenKeeps DEF MarkUsed
<1>2. CASE MarkFree
  BY <1>2, LoadByteKeeps, StoreClearKeeps, CountKeeps DEF MarkFree
<1>3. CASE Tick
  BY <1>3, OwnerDiesKeeps, ReapKeeps DEF Tick
<1>4. CASE UNCHANGED vars
  <2>1. UNCHANGED <<memory_map, interrupts, bitmap, in_use, dead, pc, i, j, count, rbyte>>
    BY <1>4 DEF vars, pmmVars, ownerVars, localVars
  <2>2. Taken' = Taken /\ InitialBitmap(memory_map)' = InitialBitmap(memory_map) /\ Run' = Run
    BY <2>1 DEF Taken, InitialBitmap, Run
  <2>3. PmmTypes' /\ OwnersOK' /\ PageOK'
    BY <2>1, <2>2, ZenonT(60) DEF PmmInv, PmmTypes, OwnersOK, PageOK
  <2>4. BitmapOK'
    BY <2>1, <2>2 DEF PmmInv, BitmapOK, Shows, RegisterShows, Byte
  <2>5. RunOK'
    BY <2>1, <2>2 DEF PmmInv, RunOK, LastStart, NoneBefore
  <2> QED
    BY <2>3, <2>4, <2>5 DEF PmmInv
<1> QED
  BY <1>1, <1>2, <1>3, <1>4, AllocCallKeeps, ScanKeeps, AllocReturnKeeps, FreeCallKeeps,
     FreeReturnKeeps, EnableKeeps DEF Next

-----------------------------------------------------------------------------
(* The theorems about it. *)

\* The invariant holds of every interleaving of a call with the timer ticks.
THEOREM PmmInvariant == Spec => []PmmInv
BY PmmStarts, PmmKeeps, PTL DEF Spec

\* pmm_alloc_page and pmm_alloc_pages return a page that nobody owns, although
\* the bits were tested many ticks before they were stored.
THEOREM AllocationsAreDisjoint == Spec => []NoDoubleAllocation
<1>1. PmmInv => NoDoubleAllocation
  BY PmmAssumption DEF PmmInv, PmmTypes, RunOK, NoDoubleAllocation, Run, Pages, LastStart, Taken
<1> QED
  BY <1>1, PmmInvariant, PTL

\* A lost update of the bitmap never frees a page that is in use; and before
\* kernel_main enables interrupts there is none.
THEOREM BitmapShowsOwners == Spec => []BitmapIsExact
<1>1. PmmInv => BitmapIsExact
  BY Zenon DEF PmmInv, BitmapOK, Shows, Taken, BitmapIsExact
<1> QED
  BY <1>1, PmmInvariant, PTL

\* The jump over a used page in pmm_alloc_pages misses no run.
THEOREM ScanIsFirstFit == Spec => []FirstFit
<1>1. PmmInv => FirstFit
  <2> SUFFICES ASSUME PmmInv, ~interrupts
               PROVE  FirstFit
    BY DEF FirstFit
  <2>1. i \in Nat /\ count \in Nat /\ total_pages \in Nat
    BY PmmAssumption DEF PmmInv, PmmTypes
  <2>2. CASE pc = "found"
    <3>1. i <= LastStart /\ Blocked(Taken, i, count) /\ bitmap \ Run = Taken
      BY <2>2 DEF PmmInv, BitmapOK, RunOK, NoneBefore, Shows
    <3>2. i \in {k \in 0 .. total_pages - count : (k .. k + count - 1) \cap Taken = {}}
      BY <2>1, <2>2, <3>1 DEF LastStart, PmmInv, RunOK, Run
    <3>3. \A k \in 0 .. total_pages - count : (k .. k + count - 1) \cap Taken = {} => i <= k
      BY <2>1, <3>1 DEF Blocked
    <3> QED
      BY <2>2, <3>1, <3>2, <3>3, Zenon DEF FirstFit
  <2>3. CASE pc = "none"
    <3>1. Blocked(Taken, LastStart + 1, count) /\ bitmap = Taken
      BY <2>3, Zenon DEF PmmInv, BitmapOK, RunOK, NoneBefore, Shows
    <3>2. \A k \in 0 .. total_pages - count : (k .. k + count - 1) \cap Taken # {}
      BY <2>1, <3>1 DEF Blocked, LastStart
    <3> QED
      BY <2>3, <3>1, <3>2 DEF FirstFit
  <2> QED
    BY <2>2, <2>3, Zenon DEF FirstFit
<1> QED
  BY <1>1, PmmInvariant, PTL

-----------------------------------------------------------------------------
(* The counter of free pages. *)

\* Until interrupts are enabled the counter follows the bitmap through the two
\* stores of every page.
LEMMA CounterFollows == PmmInv /\ CountOK /\ [Next]_vars => CountOK'
<1> SUFFICES ASSUME PmmInv, CountOK, [Next]_vars, ~interrupts'
             PROVE  /\ free_pages' = Cardinality(Pages \ bitmap') + Behind'
                    /\ pc' \in {"dec_store", "inc_store"} => rfree' = free_pages'
  BY Zenon DEF CountOK
<1>1. ~interrupts
  BY Zenon DEF Next, vars, AllocCall, Scan, MarkUsed, LoadByte, StoreByte, LoadCount, StoreTaken,
       AllocReturn, FreeCall, MarkFree, StoreFreed, FreeReturn, enable_interrupts, Tick,
       OwnerDies, Reap
<1>2. /\ free_pages = Cardinality(Pages \ bitmap) + Behind
      /\ pc \in {"dec_store", "inc_store"} => rfree = free_pages
  BY <1>1 DEF CountOK
<1>3. PICK clear : clear = Pages \ bitmap
  BY Zenon
<1>4. IsFiniteSet(clear) /\ Cardinality(clear) \in Nat
  <2>1. IsFiniteSet(Pages)
    BY FS_Interval, PmmAssumption DEF Pages
  <2>2. clear \in SUBSET Pages
    BY <1>3
  <2> QED
    BY ONLY <2>1, <2>2, FS_Subset, FS_CardinalityType
<1>5. CASE UNCHANGED <<bitmap, free_pages, rfree>> /\ Behind' = Behind /\ UNCHANGED pc
  BY <1>2, <1>5
<1>6. CASE \/ AllocCall \/ Scan \/ AllocReturn \/ FreeCall \/ FreeReturn
           \/ LoadByte("set_load", "set_store", j) \/ LoadByte("clear_load", "clear_store", i)
  <2>1. bitmap' = bitmap /\ free_pages' = free_pages
    BY ONLY <1>6, ZenonT(60) DEF AllocCall, Scan, AllocReturn, FreeCall, FreeReturn, LoadByte,
         pmmVars
  <2>2. Behind = 0 /\ Behind' = 0 /\ pc' \notin {"dec_store", "inc_store"}
    BY <1>6 DEF AllocCall, Scan, AllocReturn, FreeCall, FreeReturn, LoadByte, Behind, CountLabels
  <2> QED
    BY <1>2, <2>1, <2>2, Zenon
<1>7. CASE LoadCount("dec_load", "dec_store") \/ LoadCount("inc_load", "inc_store")
  <2>1. bitmap' = bitmap /\ free_pages' = free_pages /\ rfree' = free_pages
    BY <1>7 DEF LoadCount, pmmVars
  <2>2. Behind' = Behind
    BY <1>7 DEF LoadCount, Behind, CountLabels
  <2> QED
    BY <1>2, <2>1, <2>2
<1>8. CASE StoreByte("set_store", "dec_load", j, rbyte \cup {j})
  <2>1. /\ pc = "set_store" /\ pc' = "dec_load" /\ free_pages' = free_pages
        /\ PmmInv'
    BY <1>8, StoreSetKeeps DEF StoreByte
  <2>2. /\ j \in Run /\ Run \cap Taken = {} /\ i \in Nat /\ j \in Nat /\ count \in Nat
        /\ bitmap = Taken \cup i .. j - 1 /\ i <= LastStart
    BY <1>1, <2>1, ZenonT(60) DEF PmmInv, PmmTypes, RunOK, BitmapOK, Shows, MarkLabels
  <2>3. j \in Pages /\ j \notin bitmap
    BY <2>2, PmmAssumption DEF Run, Pages, LastStart
  <2>4. bitmap' = bitmap \cup {j}
    <3>1. /\ Taken' = Taken /\ i' = i /\ j' = j /\ interrupts' = interrupts
      BY <1>8, TakenKept, ZenonT(60) DEF StoreByte, ownerVars, localVars
    <3>2. bitmap' = Taken \cup i .. j
      BY <1>1, <2>1, <3>1 DEF PmmInv, BitmapOK, Shows
    <3> QED
      BY <2>2, <3>2 DEF Run
  <2>5. Pages \ bitmap' = clear \ {j} /\ j \in clear
    BY <1>3, <2>3, <2>4
  <2>6. Cardinality(clear \ {j}) = Cardinality(clear) - 1
    BY ONLY <1>4, <2>5, FS_RemoveElement, Zenon
  <2>7. Behind = 0 /\ Behind' = 1
    BY <2>1 DEF Behind, CountLabels
  <2> QED
    <3>1. Cardinality(Pages \ bitmap') = Cardinality(clear \ {j})
      BY ONLY <2>5, Zenon
    <3>2. free_pages = Cardinality(clear)
      BY <1>2, <1>3, <1>4, <2>7
    <3> QED
      BY <1>4, <2>1, <2>6, <2>7, <3>1, <3>2
<1>9. CASE StoreByte("clear_store", "inc_load", i, rbyte \ {i})
  <2>1. /\ pc = "clear_store" /\ pc' = "inc_load" /\ free_pages' = free_pages
        /\ PmmInv'
    BY <1>9, StoreClearKeeps DEF StoreByte
  <2>2. i \in in_use /\ i \in Pages \ InitialBitmap(memory_map) /\ bitmap = Taken
    BY <1>1, <2>1, Zenon DEF PmmInv, PageOK, BitmapOK, Shows, ClearLabels
  <2>3. bitmap' = bitmap \ {i}
    <3>1. /\ InitialBitmap(memory_map)' = InitialBitmap(memory_map)
          /\ in_use' = in_use /\ i' = i /\ interrupts' = interrupts
      BY <1>9, TakenKept, ZenonT(60) DEF StoreByte, ownerVars, localVars
    <3>2. bitmap' = InitialBitmap(memory_map) \cup (in_use \ {i})
      BY <1>1, <2>1, <3>1 DEF PmmInv, BitmapOK, Shows, CountLabels
    <3> QED
      BY <2>2, <3>2 DEF Taken
  <2>4. Pages \ bitmap' = clear \cup {i} /\ i \notin clear
    BY <1>3, <2>2, <2>3 DEF Taken
  <2>5. Cardinality(clear \cup {i}) = Cardinality(clear) + 1
    BY ONLY <1>4, <2>4, FS_AddElement, Zenon
  <2>6. Behind = 0 /\ Behind' = -1
    BY <2>1 DEF Behind, CountLabels
  <2> QED
    BY <1>2, <1>3, <1>4, <2>1, <2>4, <2>5, <2>6
<1>10. CASE StoreTaken \/ StoreFreed
  <2>1. /\ bitmap' = bitmap /\ rfree = free_pages /\ Behind' = 0
        /\ pc' \notin {"dec_store", "inc_store"}
    BY <1>2, <1>10 DEF StoreTaken, StoreFreed, Behind, CountLabels
  <2>2. \/ free_pages' = free_pages - 1 /\ Behind = 1
        \/ free_pages' = free_pages + 1 /\ Behind = -1
    BY <1>10, <2>1 DEF StoreTaken, StoreFreed, Behind, CountLabels
  <2> QED
    BY <1>2, <1>3, <1>4, <2>1, <2>2
<1> QED
  <2>1. CASE UNCHANGED vars
    BY <1>5, <2>1 DEF vars, pmmVars, localVars, Behind
  <2> QED
    BY <1>1, <1>6, <1>7, <1>8, <1>9, <1>10, <2>1, Zenon DEF Next, MarkUsed, MarkFree,
       enable_interrupts, Tick

\* When pmm_init has counted the free pages right, free_pages is the number of
\* clear bits between two calls for as long as interrupts are disabled.
THEOREM CounterIsExact ==
  Spec /\ free_pages = Cardinality(Pages \ bitmap) => []FreeCountExact
<1>1. Init /\ free_pages = Cardinality(Pages \ bitmap) => CountOK
  <2> SUFFICES ASSUME Init, free_pages = Cardinality(Pages \ bitmap)
               PROVE  CountOK
    OBVIOUS
  <2>1. PICK clear : clear = Pages \ bitmap
    OBVIOUS
  <2>2. Cardinality(clear) \in Nat
    <3>1. IsFiniteSet(Pages) /\ clear \in SUBSET Pages
      BY <2>1, FS_Interval, PmmAssumption DEF Pages
    <3> QED
      BY ONLY <3>1, FS_Subset, FS_CardinalityType
  <2>3. pc = "idle" /\ Behind = 0
    BY DEF Init, Behind, CountLabels
  <2> QED
    BY <2>1, <2>2, <2>3 DEF CountOK
<1>2. CountOK => FreeCountExact
  <2> SUFFICES ASSUME CountOK, ~interrupts, pc = "idle"
               PROVE  free_pages = Cardinality(Pages \ bitmap)
    BY DEF FreeCountExact
  <2>1. PICK clear : clear = Pages \ bitmap
    BY Zenon
  <2>2. Cardinality(clear) \in Nat
    <3>1. IsFiniteSet(Pages) /\ clear \in SUBSET Pages
      BY <2>1, FS_Interval, PmmAssumption DEF Pages
    <3> QED
      BY ONLY <3>1, FS_Subset, FS_CardinalityType
  <2> QED
    BY <2>1, <2>2 DEF CountOK, Behind, CountLabels
<1> QED
  BY <1>1, <1>2, CounterFollows, PmmInvariant, PTL DEF Spec
=============================================================================
