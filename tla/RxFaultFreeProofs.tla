------------------------- MODULE RxFaultFreeProofs -------------------------
(***************************************************************************)
(* Proofs about the receive path when nothing fails, for any number of     *)
(* queues, descriptors, pages per descriptor and IOVAs: what is mapped is  *)
(* what is held, and the path implements strict protection in batches.     *)
(***************************************************************************)
EXTENDS RxFaultFree, RxPageProofs

----------------------------------------------------------------------------
(***************************************************************************)
(* The allocator with requests of one size only: the homes tile the space. *)
(***************************************************************************)
\* The block of a descriptor is a class of the cache.
LEMMA BlockSize ==
  /\ AllocSize(PagesPerWqe) \in Pfn /\ PagesPerWqe \in Pfn
  /\ PagesPerWqe <= AllocSize(PagesPerWqe)
  /\ RoundUp(PagesPerWqe) = AllocSize(PagesPerWqe)
  /\ RoundUp(AllocSize(PagesPerWqe)) = AllocSize(PagesPerWqe)
<1> DEFINE B == AllocSize(PagesPerWqe)
<1>1. PagesPerWqe \in Pfn /\ PagesPerWqe \in Nat /\ PagesPerWqe > 0 /\ MaxCached \in Pfn
      /\ PagesPerWqe <= MaxCached /\ MaxPfn \in Nat
  BY RxAssumption, FaultFreeAssumption, CacheAssumption, MaxPfnAssumption DEF Pfn, Cacheable
<1>2. B \in Nat /\ PagesPerWqe <= B /\ B = RoundUp(PagesPerWqe)
  BY <1>1, FaultFreeAssumption, AllocSizeBounds
<1>3. B \in PowersOfTwo /\ B <= MaxCached
  BY <1>1, <1>2, RoundUpLeast, RoundUpBounds
<1>4. RoundUp(B) \in Nat /\ B <= RoundUp(B) /\ \A p \in PowersOfTwo : B <= p => RoundUp(B) <= p
  BY <1>2, <1>3, RoundUpLeast, RoundUpBounds
<1> HIDE DEF B
<1>5. RoundUp(B) = B
  BY <1>2, <1>3, <1>4
<1>6. B \in Pfn
  BY <1>1, <1>2, <1>3 DEF Pfn
<1> QED BY <1>1, <1>2, <1>5, <1>6 DEF B

\* Two multiples of q are at least q apart.
LEMMA Multiples ==
  ASSUME NEW a \in Nat, NEW b \in Nat, NEW q \in Nat, q > 0, a % q = 0, b % q = 0, a < b
  PROVE  a + q <= b
<1> DEFINE x == a \div q
           y == b \div q
<1>1. a = q * x + (a % q) /\ b = q * y + (b % q) /\ x \in Int /\ y \in Int
  OBVIOUS
<1>2. a = q * x /\ b = q * y
  BY <1>1
<1> HIDE DEF x, y
<1>3. x < y
  BY <1>1, <1>2
<1>4. q * (x + 1) <= q * y
  BY <1>1, <1>3
<1>5. q * (x + 1) = q * x + q
  BY <1>1
<1> QED BY <1>1, <1>2, <1>4, <1>5

\* What a home is.
LEMMA HomeBounds ==
  ASSUME NEW lo \in Homes
  PROVE  /\ lo \in Pfn /\ lo \in Nat /\ lo % AllocSize(PagesPerWqe) = 0
         /\ Block(lo) \in Ranges /\ Block(lo).lo = lo /\ Block(lo).n = AllocSize(PagesPerWqe)
         /\ lo + AllocSize(PagesPerWqe) <= MaxPfn + 1
BY MaxPfnAssumption DEF Homes, Block, Ranges, Pfn

LEMMA HomesApart ==
  ASSUME NEW x \in Homes, NEW y \in Homes, x # y
  PROVE  /\ x + AllocSize(PagesPerWqe) <= y \/ y + AllocSize(PagesPerWqe) <= x
         /\ Apart(Block(x), Block(y))
<1> DEFINE B == AllocSize(PagesPerWqe)
<1>1. B \in Nat /\ B > 0
  BY BlockSize DEF Pfn
<1>2. x \in Nat /\ y \in Nat /\ x % B = 0 /\ y % B = 0
  BY HomeBounds
<1>3. /\ Block(x).lo = x /\ Block(x).n = B
      /\ Block(y).lo = y /\ Block(y).n = B
  BY HomeBounds
<1> HIDE DEF B
<1>4. x + B <= y \/ y + B <= x
  <2>1. CASE x < y
    BY <1>1, <1>2, <2>1, Multiples
  <2>2. CASE y < x
    BY <1>1, <1>2, <2>2, Multiples
  <2> QED BY <1>2, <2>1, <2>2
<1> QED BY <1>3, <1>4 DEF B, Apart

\* The blocks of the tree are apart, and a flush leaves the ones in use.
LEMMA AtHomeApart ==
  ASSUME AtHome
  PROVE  /\ tree \subseteq Ranges /\ PairwiseApart(tree)
         /\ FlushedTree = tree \ rcache
<1>1. tree \subseteq Ranges
  BY HomeBounds DEF AtHome
<1>2. ASSUME NEW b \in tree, NEW c \in tree, b # c PROVE Apart(b, c)
  <2>1. PICK x \in Homes, y \in Homes : b = Block(x) /\ c = Block(y)
    BY DEF AtHome
  <2> QED BY <1>2, <2>1, HomesApart
<1>3. PairwiseApart(tree)
  BY <1>2 DEF PairwiseApart
<1>4. FlushedTree = tree \ rcache
  BY <1>1, <1>3, WithoutBlocks DEF AtHome, FlushedTree
<1> QED BY <1>1, <1>3, <1>4

\* alloc_iova_fast for a descriptor: a home that was not in use now is.
LEMMA AllocTakesHome ==
  ASSUME AtHome, NEW lo \in Pfn, AllocIova(PagesPerWqe, lo)
  PROVE  /\ AtHome' /\ lo \in Homes /\ Block(lo) \notin tree \ rcache
         /\ tree' \ rcache' = (tree \ rcache) \cup {Block(lo)}
<1> DEFINE B == AllocSize(PagesPerWqe)
<1>1. B \in Pfn /\ RoundUp(PagesPerWqe) = B /\ RoundUp(B) = B
  BY BlockSize
<1>2. CASE RcacheGet(PagesPerWqe, lo)
  <2>1. Block(lo) \in rcache /\ rcache' = rcache \ {Block(lo)} /\ tree' = tree
    BY <1>1, <1>2 DEF RcacheGet, Block
  <2>2. PICK x \in Homes : Block(lo) = Block(x)
    BY <2>1 DEF AtHome
  <2>3. lo \in Homes
    BY <2>2 DEF Block
  <2> QED BY <2>1, <2>3 DEF AtHome
<1>3. ASSUME NEW S \in SUBSET tree, NEW C \in SUBSET S, tree \ rcache = S \ C,
             NEW g \in Gaps(S, B), g.lo = lo, tree' = S \cup {g}, rcache' = C
      PROVE  /\ AtHome' /\ lo \in Homes /\ Block(lo) \notin tree \ rcache
             /\ tree' \ rcache' = (tree \ rcache) \cup {Block(lo)}
  <2>1. g \in Ranges /\ g.n = B /\ lo % B = 0 /\ \A b \in S : Apart(g, b)
    BY <1>1, <1>3, Zenon DEF Gaps
  <2>2. g = Block(lo) /\ lo \in Homes
    BY <1>3, <2>1 DEF Ranges, Block, Homes
  <2>3. Block(lo) \notin S
    BY <1>1, <2>1, <2>2, MaxPfnAssumption DEF Apart, Ranges, Pfn
  <2> QED BY <1>3, <2>2, <2>3 DEF AtHome
<1>4. CASE TreeAlloc(PagesPerWqe, lo)
  <2>1. PICK g \in Gaps(tree, B) : g.lo = lo /\ tree' = tree \cup {g} /\ rcache' = rcache
    BY <1>4 DEF TreeAlloc
  <2> QED BY <2>1, <1>3 DEF AtHome
<1>5. CASE FlushAlloc(PagesPerWqe, lo)
  <2>1. PICK g \in Gaps(tree \ rcache, B) :
          g.lo = lo /\ tree' = (tree \ rcache) \cup {g} /\ rcache' = {}
    BY <1>5, AtHomeApart DEF FlushAlloc
  <2> QED BY <2>1, <1>3
<1> QED BY <1>2, <1>4, <1>5 DEF AllocIova

\* free_iova_fast of a descriptor's whole range: its home is free again.
LEMMA FreeLeavesHome ==
  ASSUME AtHome, NEW lo \in Homes, Block(lo) \in tree \ rcache, FreeIova(lo, PagesPerWqe)
  PROVE  AtHome' /\ tree' \ rcache' = (tree \ rcache) \ {Block(lo)}
<1>1. CASE RcacheInsert(lo, PagesPerWqe)
  <2>1. rcache' = rcache \cup {Block(lo)} /\ tree' = tree
    BY <1>1, BlockSize DEF RcacheInsert, Block
  <2> QED BY <2>1 DEF AtHome
<1>2. CASE TreeFree(lo)
  <2>1. Without(tree, {e.lo : e \in {Block(lo)}}) = tree \ {Block(lo)}
    BY AtHomeApart, WithoutBlocks
  <2>2. Block(lo).lo = lo
    BY HomeBounds
  <2>3. tree' = tree \ {Block(lo)} /\ rcache' = rcache
    BY <1>2, <2>1, <2>2 DEF TreeFree
  <2> QED BY <2>3 DEF AtHome
<1> QED BY <1>1, <1>2 DEF FreeIova

\* A magazine returned to the tree touches no home in use.
LEMMA SpillKeepsHomes ==
  ASSUME AtHome, SpillRcache
  PROVE  AtHome' /\ tree' \ rcache' = tree \ rcache
<1>1. PICK e \in rcache : tree' = Without(tree, {e.lo}) /\ rcache' = rcache \ {e}
  BY DEF SpillRcache
<1>2. Without(tree, {x.lo : x \in {e}}) = tree \ {e}
  BY AtHomeApart, WithoutBlocks DEF AtHome
<1>3. tree' = tree \ {e}
  BY <1>1, <1>2
<1> QED BY <1>1, <1>3 DEF AtHome

\* A home that is not in use is found, at the latest when the cache is flushed.
LEMMA FreeHomeServes ==
  ASSUME AtHome, NEW lo \in Homes, Block(lo) \notin tree \ rcache
  PROVE  ~ AllocIovaFails(PagesPerWqe)
<1> DEFINE B == AllocSize(PagesPerWqe)
<1>1. \A b \in tree \ rcache : Apart(Block(lo), b)
  BY HomesApart DEF AtHome
<1>2. Block(lo) \in Ranges /\ Block(lo).n = B /\ Block(lo).lo % RoundUp(B) = 0
  BY HomeBounds, BlockSize
<1>3. Block(lo) \in Gaps(FlushedTree, B)
  BY <1>1, <1>2, AtHomeApart, Zenon DEF Gaps
<1> QED BY <1>3 DEF AllocIovaFails

----------------------------------------------------------------------------
(***************************************************************************)
(* What the invariant says of addresses and pages.                         *)
(***************************************************************************)
\* A taken range lies inside the space, and two of them share no address.
LEMMA TakenRange ==
  ASSUME NEW lo, Taken(lo), NEW i \in Slots
  PROVE  /\ lo \in Homes /\ lo \in Nat /\ i \in Nat /\ lo + i \in Pfn /\ lo # 0 /\ lo + i # 0
         /\ Phys(lo + i) = pt[lo + i]
         /\ lo + i \in Span(Block(lo))
         /\ lo + i \in Span([lo |-> lo, n |-> PagesPerWqe])
<1>1. lo \in Homes
  BY DEF Taken
<1>2. /\ lo \in Pfn /\ lo \in Nat /\ Block(lo).lo = lo /\ Block(lo).n = AllocSize(PagesPerWqe)
      /\ lo + AllocSize(PagesPerWqe) <= MaxPfn + 1
  BY <1>1, HomeBounds
<1>3. AllocSize(PagesPerWqe) \in Nat /\ PagesPerWqe \in Nat /\ MaxPfn \in Nat
      /\ PagesPerWqe <= AllocSize(PagesPerWqe)
  BY BlockSize, MaxPfnAssumption DEF Pfn
<1>4. i \in Nat /\ i < PagesPerWqe
  BY <1>3 DEF Slots
<1>5. lo + i \in Pfn /\ lo # 0 /\ lo + i # 0
  BY <1>2, <1>3, <1>4 DEF Pfn
<1>6. lo + i \in Span(Block(lo)) /\ lo + i \in Span([lo |-> lo, n |-> PagesPerWqe])
  BY <1>2, <1>3, <1>4 DEF Span
<1> QED BY <1>1, <1>2, <1>4, <1>5, <1>6 DEF Phys

LEMMA TakenApart ==
  ASSUME NEW x, NEW y, Taken(x), Taken(y), x # y, NEW i \in Slots
  PROVE  /\ \A j \in Slots : x + i # y + j
         /\ x + i \notin Span([lo |-> y, n |-> PagesPerWqe])
         /\ x + i \notin Span(Block(y))
<1>1. x \in Homes /\ y \in Homes
  BY DEF Taken
<1>2. x \in Nat /\ y \in Nat /\ Block(y).lo = y /\ Block(y).n = AllocSize(PagesPerWqe)
  BY <1>1, HomeBounds
<1>3. x + AllocSize(PagesPerWqe) <= y \/ y + AllocSize(PagesPerWqe) <= x
  BY <1>1, HomesApart
<1>4. AllocSize(PagesPerWqe) \in Nat /\ PagesPerWqe \in Nat /\ PagesPerWqe <= AllocSize(PagesPerWqe)
  BY BlockSize DEF Pfn
<1>5. \A j \in Slots : j \in Nat /\ j < PagesPerWqe
  BY <1>4 DEF Slots
<1>6. x + i \notin y .. (y + AllocSize(PagesPerWqe) - 1)
  BY <1>2, <1>3, <1>4, <1>5
<1> QED BY <1>2, <1>3, <1>4, <1>5, <1>6 DEF Span

\* The range of an unmap, as a record.
LEMMA JobRange ==
  ASSUME JobTypeOK, JobIsBatch, NEW r \in Rq, Unmapping(r)
  PROVE  /\ job[r].range = [lo |-> job[r].range.lo, n |-> PagesPerWqe]
         /\ job[r].page \in Page /\ job[r].to = "kernel" /\ job[r].stage \in {"sync", "free"}
BY DEF JobTypeOK, Jobs, JobIsBatch, Unmapping

\* Slots that are filled or owned are slots of an active descriptor.
LEMMA FilledSlots ==
  ASSUME SlotTypeOK, NothingShared, NEW w \in Wqe
  PROVE  /\ Filled(w) \subseteq Slots /\ OwnedSlots(w) \subseteq Filled(w)
         /\ Filled(w) # {} => Active(w)
         /\ Filled(w) \ OwnedSlots(w) # {} => Freeing(w)
         /\ \A i \in Filled(w) \ OwnedSlots(w) : i \in 0 .. (idx[w] - 1)
<1>1. PagesPerWqe \in Nat /\ wqe[w] \in Phases /\ idx[w] \in 0..PagesPerWqe
      /\ wqe[w] # "unwinding" /\ xdpBits[w] = {}
  BY BlockSize DEF SlotTypeOK, NothingShared, Pfn
<1>2. CASE wqe[w] = "filling"
  <2>1. Filled(w) = 0 .. (idx[w] - 1) /\ OwnedSlots(w) = 0 .. (idx[w] - 1)
    BY <1>2, Owns, Zenon DEF Filled
  <2> QED BY <1>1, <1>2, <2>1 DEF Slots, Active
<1>3. CASE wqe[w] = "posted"
  <2>1. Filled(w) = Slots /\ OwnedSlots(w) = Slots
    BY <1>1, <1>3, Owns DEF Filled
  <2> QED BY <1>3, <2>1 DEF Active
<1>4. CASE wqe[w] = "freeing"
  <2>1. Filled(w) = Slots /\ OwnedSlots(w) = idx[w] .. Last
    BY <1>1, <1>4, Owns DEF Filled
  <2> QED BY <1>1, <1>4, <2>1 DEF Active, Freeing, Slots, Last
<1>5. CASE wqe[w] = "empty"
  <2>1. Filled(w) = {} /\ OwnedSlots(w) = {}
    BY <1>5, Owns DEF Filled
  <2> QED BY <2>1
<1> QED BY <1>1, <1>2, <1>3, <1>4, <1>5 DEF Phases

\* Two places hold two pages.
LEMMA TwoPlaces ==
  ASSUME NEW p, One(p), NEW k \in Kind, NEW j \in Kind, NEW u, NEW v, NEW x, NEW y,
         At(p, k, u, v), At(p, j, x, y)
  PROVE  k = j /\ u = x /\ v = y
BY DEF One, Lone, Empty

\* No two slots owe the same page, and none owes a page the kernel has.
LEMMA OwnedOnce ==
  ASSUME OwnedArePages, AllOne, NEW w \in Wqe, NEW i \in OwnedSlots(w)
  PROVE  /\ di[w][i].page \in Page /\ di[w][i].page \notin kernel
         /\ \A v \in Wqe : \A j \in OwnedSlots(v) :
              di[v][j].page = di[w][i].page => v = w /\ j = i
<1> DEFINE p == di[w][i].page
<1>1. p \in Page /\ One(p)
  BY DEF OwnedArePages, AllOne
<1>2. At(p, "slot", w, i)
  BY DEF At
<1>3. p \in kernel => At(p, "kernel", 0, 0)
  BY DEF At
<1>4. \A v \in Wqe : \A j \in OwnedSlots(v) : di[v][j].page = p => At(p, "slot", v, j)
  BY DEF At
<1>5. "slot" \in Kind /\ "kernel" \in Kind /\ "slot" # "kernel"
  BY DEF Kind
<1> HIDE DEF p
<1>6. p \notin kernel
  BY <1>1, <1>2, <1>3, <1>5, TwoPlaces
<1>7. ASSUME NEW v \in Wqe, NEW j \in OwnedSlots(v), di[v][j].page = p PROVE v = w /\ j = i
  BY <1>1, <1>2, <1>4, <1>5, <1>7, TwoPlaces
<1> QED BY <1>1, <1>6, <1>7 DEF p

----------------------------------------------------------------------------
(***************************************************************************)
(* There is always a page and a range for a descriptor being filled: each  *)
(* one in use stands against a descriptor, or a slot, of its own.          *)
(***************************************************************************)
\* The range at lo is descriptor u's, or being unmapped by u's queue while u is
\* off the ring.
StandsFor(u, lo) ==
  \/ Active(u) /\ iovaBase[u] = lo
  \/ ~ Active(u) /\ Unmapping(RqOf[u]) /\ job[RqOf[u]].range.lo = lo

LEMMA SpareHome ==
  ASSUME JobIsBatch, BlocksHeld, NEW w \in Wqe, ~ Active(w), NotRunning(RqOf[w])
  PROVE  \E lo \in Homes : Block(lo) \notin tree \ rcache
<1> SUFFICES ASSUME \A lo \in Homes : Taken(lo) PROVE FALSE
  BY DEF Taken
<1> DEFINE Rest == Wqe \ {w}
           f == [lo \in Homes |-> CHOOSE u \in Rest : StandsFor(u, lo)]
<1>1. ASSUME NEW lo \in Homes PROVE \E u \in Rest : StandsFor(u, lo)
  <2>1. CASE \E u \in Wqe : Active(u) /\ iovaBase[u] = lo
    BY <2>1 DEF StandsFor
  <2>2. CASE \E r \in Rq : Unmapping(r) /\ job[r].range.lo = lo
    <3>1. PICK r \in Rq : Unmapping(r) /\ job[r].range.lo = lo
      BY <2>2
    <3>2. PICK u \in Wqe : RqOf[u] = r /\ wqe[u] = "empty"
      BY <3>1 DEF JobIsBatch
    <3>3. u # w /\ ~ Active(u)
      BY <3>1, <3>2 DEF NotRunning, Unmapping, Active
    <3> QED BY <3>1, <3>2, <3>3 DEF StandsFor
  <2> QED BY <2>1, <2>2 DEF BlocksHeld
<1>2. f \in [Homes -> Rest] /\ \A lo \in Homes : StandsFor(f[lo], lo)
  BY <1>1
<1> HIDE DEF f
<1>3. IsFiniteSet(Homes) /\ Cardinality(Homes) \in Nat
  <2>1. Homes \in SUBSET (1..MaxPfn)
    BY DEF Homes, Pfn
  <2>2. IsFiniteSet(1..MaxPfn)
    BY MaxPfnAssumption, FS_Interval
  <2>3. IsFiniteSet(Homes)
    BY <2>1, <2>2, FS_Subset
  <2> QED BY <2>3, FS_CardinalityType
<1>4. IsFiniteSet(Rest) /\ Cardinality(Rest) = Cardinality(Wqe) - 1 /\ Cardinality(Wqe) \in Nat
  BY FaultFreeAssumption, FS_RemoveElement, FS_CardinalityType
<1>5. Cardinality(Rest) < Cardinality(Homes)
  BY <1>3, <1>4, FaultFreeAssumption
<1> HIDE DEF Rest
<1>6. PICK x \in Homes, y \in Homes : x # y /\ f[x] = f[y]
  BY <1>2, <1>3, <1>4, <1>5, FS_PigeonHole
<1> QED BY <1>2, <1>6 DEF StandsFor

\* Page p is the one slot i of descriptor u owes, or is being unmapped by u's
\* queue while u is off the ring.
OwesPage(u, i, p) ==
  \/ Active(u) /\ i \in OwnedSlots(u) /\ di[u][i].page = p
  \/ ~ Active(u) /\ Unmapping(RqOf[u]) /\ job[RqOf[u]].page = p

LEMMA SparePage ==
  ASSUME SlotTypeOK, AllOne, NothingShared, JobIsBatch, NEW w \in Wqe, Filling(w)
  PROVE  kernel # {}
<1> SUFFICES ASSUME kernel = {} PROVE FALSE
  OBVIOUS
<1> DEFINE hole == <<w, idx[w]>>
           Rest == (Wqe \X Slots) \ {hole}
           Owes(t, p) == OwesPage(t[1], t[2], p)
           f == [p \in Page |-> CHOOSE t \in Rest : Owes(t, p)]
<1>0. PagesPerWqe \in Nat /\ PagesPerWqe > 0 /\ 0 \in Slots /\ idx[w] \in Slots /\ Active(w)
  BY BlockSize DEF SlotTypeOK, Filling, Active, Slots, Pfn
<1>1. ASSUME NEW p \in Page PROVE \E t \in Rest : Owes(t, p)
  <2>1. PICK k \in Kind : \E x, y : At(p, k, x, y)
    BY DEF AllOne, One, Lone
  <2>2. PICK x, y : At(p, k, x, y)
    BY <2>1
  <2>3. p # NoPage
    BY PageAssumption
  <2>4. k \in {"job", "slot"}
    BY <2>2, <2>3 DEF At, NothingShared
  <2>5. CASE k = "job"
    <3>1. x \in Rq /\ Unmapping(x) /\ job[x].page = p
      BY <2>2, <2>5 DEF At, Unmapping
    <3>2. PICK u \in Wqe : RqOf[u] = x /\ wqe[u] = "empty"
      BY <3>1 DEF JobIsBatch
    <3>3. u # w /\ OwesPage(u, 0, p)
      BY <1>0, <3>1, <3>2 DEF OwesPage, Active
    <3>4. <<u, 0>> \in Rest /\ Owes(<<u, 0>>, p)
      BY <1>0, <3>3
    <3> QED BY <3>4
  <2>6. CASE k = "slot"
    <3>1. x \in Wqe /\ y \in OwnedSlots(x) /\ di[x][y].page = p
      BY <2>2, <2>6 DEF At
    <3>2. y \in Slots /\ Active(x)
      BY <3>1, FilledSlots
    <3>3. <<x, y>> # hole
      <4>1. OwnedSlots(w) = 0 .. (idx[w] - 1)
        BY Owns DEF Filling
      <4> QED BY <1>0, <3>1, <4>1 DEF Slots
    <3>4. <<x, y>> \in Rest /\ Owes(<<x, y>>, p)
      BY <3>1, <3>2, <3>3 DEF OwesPage
    <3> QED BY <3>4
  <2> QED BY <2>4, <2>5, <2>6
<1> HIDE DEF Owes, Rest
<1>2. f \in [Page -> Rest] /\ \A p \in Page : Owes(f[p], p)
  BY <1>1
<1> HIDE DEF f
<1>3. \A t, p, q : Owes(t, p) /\ Owes(t, q) => p = q
  BY DEF Owes, OwesPage
<1>4. IsFiniteSet(Rest) /\ Cardinality(Rest) = Cardinality(Wqe) * PagesPerWqe - 1
      /\ Cardinality(Wqe) * PagesPerWqe \in Nat
  <2>1. IsFiniteSet(Slots) /\ Cardinality(Slots) = PagesPerWqe
    BY <1>0, FS_Interval DEF Slots
  <2>2. IsFiniteSet(Wqe \X Slots) /\ Cardinality(Wqe \X Slots) = Cardinality(Wqe) * PagesPerWqe
    BY <2>1, FaultFreeAssumption, FS_Product
  <2>3. hole \in Wqe \X Slots
    BY <1>0
  <2>4. Cardinality(Wqe \X Slots) \in Nat
    BY <2>2, FS_CardinalityType
  <2> DEFINE T == Wqe \X Slots
  <2>5. Rest = T \ {hole}
    BY DEF Rest
  <2>6. IsFiniteSet(T) /\ hole \in T /\ Cardinality(T) = Cardinality(Wqe) * PagesPerWqe
    BY <2>2, <2>3
  <2> HIDE DEF hole, T, Rest
  <2>7. IsFiniteSet(T \ {hole}) /\ Cardinality(T \ {hole}) = Cardinality(T) - 1
    BY <2>6, FS_RemoveElement, Zenon
  <2> QED BY <2>4, <2>5, <2>6, <2>7 DEF T
<1>5. Cardinality(Rest) < Cardinality(Page) /\ IsFiniteSet(Page)
  <2>1. Cardinality(Page) \in Nat
    BY FaultFreeAssumption, FS_CardinalityType
  <2> QED BY <1>4, <2>1, FaultFreeAssumption
<1>6. PICK p \in Page, q \in Page : p # q /\ f[p] = f[q]
  BY <1>2, <1>4, <1>5, FS_PigeonHole
<1> QED BY <1>2, <1>3, <1>6

----------------------------------------------------------------------------
(***************************************************************************)
(* What the invariant implies.                                             *)
(***************************************************************************)
FullInv == RxInv /\ AllOne /\ FaultFreeInv

\* Whatever the device can still reach belongs to a filled slot or to an unmap
\* whose invalidation is under way.
LEMMA ReachedFrom ==
  ASSUME FullInv, NEW a \in Pfn, pt[a] # NoPage \/ iotlb[a] # NoPage
  PROVE  \/ /\ pt[a] # NoPage /\ iotlb[a] \in {NoPage, pt[a]}
            /\ \E w \in Wqe : \E i \in Filled(w) : a = iovaBase[w] + i
         \/ /\ iotlb[a] # NoPage
            /\ \E r \in Rq : job[r].stage = "sync" /\ Unmapping(r) /\ a \in Span(job[r].range)
<1>1. \A r \in Rq : job[r].stage = "sync" => Unmapping(r)
  BY DEF Unmapping, NoJob
<1> QED BY <1>1 DEF FullInv, RxInv, FaultFreeInv, IotlbCoherent, OnlySlotsMapped

\* A mapped slot, seen through the page table and the IOTLB.
LEMMA SlotSeen ==
  ASSUME FullInv, NEW w \in Wqe, NEW i \in Filled(w)
  PROVE  /\ i \in Slots /\ Active(w) /\ Taken(iovaBase[w])
         /\ iovaBase[w] + i \in Pfn /\ di[w][i].addr = iovaBase[w] + i
         /\ pt[iovaBase[w] + i] = di[w][i].page
         /\ iotlb[iovaBase[w] + i] \in {NoPage, di[w][i].page}
<1> DEFINE a == iovaBase[w] + i
<1>1. i \in Slots /\ Active(w)
  BY FilledSlots DEF FullInv, RxInv, TypeOK, FaultFreeInv
<1>2. Taken(iovaBase[w])
  BY <1>1 DEF FullInv, FaultFreeInv, BlocksHeld
<1>3. a \in Pfn /\ Phys(a) = pt[a]
  BY <1>1, <1>2, TakenRange
<1>4. di[w][i].addr = a /\ Phys(a) = di[w][i].page
  BY DEF FullInv, FaultFreeInv, SlotsMapped
<1>5. ASSUME NEW r \in Rq, Unmapping(r) PROVE a \notin Span(job[r].range)
  <2>1. Taken(job[r].range.lo) /\ iovaBase[w] # job[r].range.lo
    BY <1>1, <1>5 DEF FullInv, FaultFreeInv, BlocksHeld, OneHolder
  <2>2. job[r].range = [lo |-> job[r].range.lo, n |-> PagesPerWqe]
    BY <1>5, JobRange DEF FullInv, RxInv, TypeOK, FaultFreeInv
  <2> QED BY <1>1, <1>2, <2>1, <2>2, TakenApart
<1> HIDE DEF a
<1>6. iotlb[a] \in {NoPage, pt[a]}
  BY <1>3, <1>5, ReachedFrom
<1> QED BY <1>1, <1>2, <1>3, <1>4, <1>6 DEF a

LEMMA ImpliesPostedMapped == FullInv => PostedMapped
<1> SUFFICES ASSUME FullInv, NEW w \in Wqe, wqe[w] = "posted",
                    NEW i \in Slots \ xdpBits[w]
             PROVE  /\ Phys(di[w][i].addr) = di[w][i].page
                    /\ iotlb[di[w][i].addr] \in {NoPage, di[w][i].page}
  BY DEF PostedMapped
<1>1. i \in Filled(w)
  BY DEF Filled
<1> QED BY <1>1, SlotSeen DEF Phys

LEMMA ImpliesMappedIsAllocated == FullInv => MappedIsAllocated
<1> SUFFICES ASSUME FullInv, NEW a \in Pfn, pt[a] # NoPage \/ iotlb[a] # NoPage
             PROVE  InUse(a)
  BY DEF MappedIsAllocated
<1>1. \E lo : Taken(lo) /\ a \in Span(Block(lo))
  <2>1. CASE \E w \in Wqe : \E i \in Filled(w) : a = iovaBase[w] + i
    BY <2>1, SlotSeen, TakenRange
  <2>2. CASE \E r \in Rq : Unmapping(r) /\ a \in Span(job[r].range)
    <3>1. PICK r \in Rq : Unmapping(r) /\ a \in Span(job[r].range)
      BY <2>2
    <3> DEFINE lo == job[r].range.lo
    <3>2. Taken(lo) /\ job[r].range = [lo |-> lo, n |-> PagesPerWqe]
      BY <3>1, JobRange DEF FullInv, RxInv, TypeOK, FaultFreeInv, BlocksHeld
    <3> HIDE DEF lo
    <3>3. lo \in Nat /\ PagesPerWqe \in Nat /\ a \in Nat
      BY <3>2, HomeBounds, BlockSize, MaxPfnAssumption DEF Taken, Pfn
    <3>4. a - lo \in Slots /\ lo + (a - lo) = a
      BY <3>1, <3>2, <3>3 DEF Span, Slots
    <3> QED BY <3>2, <3>4, TakenRange
  <2> QED BY <2>1, <2>2, ReachedFrom
<1>2. PICK lo : Taken(lo) /\ a \in Span(Block(lo))
  BY <1>1
<1>3. PairwiseApart(tree) /\ rcache \subseteq tree /\ tree \subseteq Ranges
  BY AtHomeApart DEF FullInv, FaultFreeInv, BlocksHeld, AtHome
<1>4. ASSUME NEW e \in rcache, a \in Span(e) PROVE FALSE
  <2>1. Block(lo) # e /\ Block(lo) \in Ranges /\ e \in Ranges /\ Apart(Block(lo), e)
    BY <1>2, <1>3, <1>4 DEF Taken, PairwiseApart
  <2> QED BY <1>2, <1>4, <2>1, MaxPfnAssumption DEF Apart, Span, Ranges, Pfn
<1> QED BY <1>2, <1>4 DEF InUse, Taken

LEMMA ImpliesProtectedAtRest == FullInv => ProtectedAtRest
<1> SUFFICES ASSUME FullInv, NEW page \in kernel, NEW a \in Pfn, pt[a] = page \/ iotlb[a] = page
             PROVE  \/ \E w \in Wqe : Freeing(w) /\ \E i \in 0 .. (idx[w] - 1) : di[w][i].page = page
                    \/ \E r \in Rq : job[r].stage = "sync"
                                     /\ \E b \in Span(job[r].range) \cap Pfn : iotlb[b] = page
  BY DEF ProtectedAtRest, Reachable
<1>1. page # NoPage
  BY PageAssumption DEF FullInv, RxInv, TypeOK, PageTypeOK
<1>2. CASE \E w \in Wqe : \E i \in Filled(w) : a = iovaBase[w] + i
  <2>0. PICK w \in Wqe : \E i \in Filled(w) : a = iovaBase[w] + i
    BY <1>2
  <2>1. PICK i \in Filled(w) : a = iovaBase[w] + i
    BY <2>0
  <2>2. di[w][i].page = page
    BY <1>1, <2>1, SlotSeen
  <2>3. i \notin OwnedSlots(w)
    BY <2>2, OwnedOnce DEF FullInv, RxInv
  <2>4. Freeing(w) /\ i \in 0 .. (idx[w] - 1)
    BY <2>3, FilledSlots DEF FullInv, RxInv, TypeOK, FaultFreeInv
  <2> QED BY <2>2, <2>4
<1>3. CASE iotlb[a] = page /\ \E r \in Rq : job[r].stage = "sync" /\ a \in Span(job[r].range)
  BY <1>3
<1>4. pt[a] = page => \E w \in Wqe : \E i \in Filled(w) : a = iovaBase[w] + i
  BY <1>1 DEF FullInv, FaultFreeInv, OnlySlotsMapped
<1>5. \/ pt[a] = page
      \/ iotlb[a] = page /\ \E r \in Rq : job[r].stage = "sync" /\ a \in Span(job[r].range)
  BY <1>1 DEF FullInv, RxInv, IotlbCoherent
<1> QED BY <1>2, <1>3, <1>4, <1>5

LEMMA ImpliesNoIovaLeak == FullInv => NoIovaLeak
<1> SUFFICES ASSUME FullInv, NEW b \in tree \ rcache
             PROVE  \/ \E w \in Wqe : wqe[w] # "empty" /\ iovaBase[w] = b.lo
                    \/ \E r \in Rq : job[r] # NoJob /\ job[r].range.lo = b.lo
  BY DEF NoIovaLeak
<1>1. PICK lo \in Homes : b = Block(lo)
  BY DEF FullInv, FaultFreeInv, BlocksHeld, AtHome
<1>2. Taken(lo) /\ b.lo = lo
  BY <1>1, HomeBounds DEF Taken
<1> QED BY <1>2 DEF FullInv, FaultFreeInv, BlocksHeld, Active, Unmapping

\* The last slot's address leads back to the beginning of the range.
LEMMA BatchBase ==
  ASSUME FullInv, NEW w \in Wqe, AboutToUnmap(w)
  PROVE  /\ BatchRange(w) = [lo |-> iovaBase[w], n |-> PagesPerWqe]
         /\ Taken(iovaBase[w]) /\ Active(w) /\ 0 \in Slots
         /\ \A i \in Slots : i \in Filled(w)
         /\ Phys(iovaBase[w]) = di[w][0].page /\ di[w][0].page # NoPage
<1>1. PagesPerWqe \in Nat /\ PagesPerWqe > 0 /\ Last \in Slots /\ 0 \in Slots /\ Last \in Nat
  BY BlockSize DEF Pfn, Last, Slots
<1>2. Last \in OwnedSlots(w) /\ Filled(w) = Slots
  BY <1>1, Owns DEF AboutToUnmap, Freeing, Filled
<1>3. dmaAddr[di[w][Last].page] = iovaBase[w] + Last
  BY <1>2 DEF FullInv, FaultFreeInv, AddressKept
<1>4. Active(w) /\ Taken(iovaBase[w])
  BY <1>1, <1>2, SlotSeen
<1>5. iovaBase[w] \in Nat
  BY <1>1, <1>4, TakenRange
<1>6. BatchRange(w) = [lo |-> iovaBase[w], n |-> PagesPerWqe]
  BY <1>1, <1>3, <1>5 DEF BatchRange
<1>7. Phys(iovaBase[w]) = di[w][0].page
  <2>1. Phys(iovaBase[w] + 0) = di[w][0].page
    BY <1>1, <1>2 DEF FullInv, FaultFreeInv, SlotsMapped
  <2> QED BY <1>5, <2>1
<1>8. di[w][0].page # NoPage
  <2>1. di[w][0].page \in Page
    BY <1>1, <1>2 DEF FullInv, FaultFreeInv, SlotsMapped
  <2> QED BY <2>1, PageAssumption
<1> QED BY <1>1, <1>2, <1>4, <1>6, <1>7, <1>8

LEMMA ImpliesUnmapsOwnRange == FullInv => UnmapsOwnRange
<1> SUFFICES ASSUME FullInv, NEW w \in Wqe, AboutToUnmap(w), NEW i \in Slots
             PROVE  Phys(BatchRange(w).lo + i) = di[w][i].page
  BY DEF UnmapsOwnRange
<1>1. BatchRange(w).lo = iovaBase[w] /\ i \in Filled(w)
  BY BatchBase
<1> QED BY <1>1 DEF FullInv, FaultFreeInv, SlotsMapped

LEMMA ImpliesSubtracts == FullInv => SubtractsToBeginning /\ BatchIsMapped
BY BatchBase DEF SubtractsToBeginning, BatchIsMapped

----------------------------------------------------------------------------
(***************************************************************************)
(* How the three groups of the invariant survive a step.                   *)
(***************************************************************************)
Ranged == BlocksHeld /\ OneHolder
Mapped == SlotsMapped /\ OnlySlotsMapped /\ AddressKept

\* A step that gives no range to anybody and takes none away.
SameHolders ==
  /\ AtHome' /\ tree' \ rcache' = tree \ rcache
  /\ \A w \in Wqe :
       /\ Active(w)' = Active(w)
       /\ Active(w) => iovaBase'[w] = iovaBase[w]
  /\ \A r \in Rq :
       /\ Unmapping(r)' = Unmapping(r)
       /\ Unmapping(r) => job'[r].range.lo = job[r].range.lo

LEMMA RangedStays ==
  ASSUME Ranged, SameHolders
  PROVE  Ranged'
<1>1. \A lo : Taken(lo)' = Taken(lo)
  BY DEF SameHolders, Taken
<1>2. BlocksHeld'
  BY <1>1 DEF Ranged, SameHolders, BlocksHeld
<1>3. OneHolder'
  BY DEF Ranged, SameHolders, OneHolder
<1> QED BY <1>2, <1>3 DEF Ranged

\* Nothing of the allocator changes.
LEMMA QuietAlloc ==
  ASSUME AtHome, UNCHANGED allocVars
  PROVE  AtHome' /\ tree' \ rcache' = tree \ rcache
BY DEF AtHome, allocVars

\* A descriptor keeps its mapped slots, and owes no slot it did not owe.
Still(w) ==
  /\ Filled(w)' = Filled(w) /\ OwnedSlots(w)' \subseteq OwnedSlots(w)
  /\ Filled(w) # {} => di'[w] = di[w] /\ iovaBase'[w] = iovaBase[w]
  /\ \A i \in OwnedSlots(w)' : dmaAddr'[di[w][i].page] = dmaAddr[di[w][i].page]

LEMMA MappedStays ==
  ASSUME Mapped, pt' = pt, \A w \in Wqe : Still(w),
         \A w \in Wqe : OwnedSlots(w) \subseteq Filled(w)
  PROVE  Mapped'
<1>1. ASSUME NEW w \in Wqe, NEW i \in Filled(w)'
      PROVE  /\ i \in Filled(w) /\ di'[w] = di[w] /\ iovaBase'[w] = iovaBase[w]
  BY <1>1 DEF Still
<1>2. SlotsMapped'
  BY <1>1 DEF Mapped, SlotsMapped, Phys
<1>3. OnlySlotsMapped'
  BY <1>1 DEF Mapped, OnlySlotsMapped, Still
<1>4. AddressKept'
  <2> SUFFICES ASSUME NEW w \in Wqe, NEW i \in OwnedSlots(w)'
               PROVE  dmaAddr'[di'[w][i].page] = iovaBase'[w] + i
    BY DEF AddressKept
  <2>1. i \in OwnedSlots(w) /\ i \in Filled(w) /\ Filled(w) # {}
    BY DEF Still
  <2>2. di'[w] = di[w] /\ iovaBase'[w] = iovaBase[w] /\ dmaAddr'[di[w][i].page] = dmaAddr[di[w][i].page]
    BY <2>1 DEF Still
  <2> QED BY <2>1, <2>2 DEF Mapped, AddressKept
<1> QED BY <1>2, <1>3, <1>4 DEF Mapped

\* What a step leaves alone: slots, addresses, and pages that wait nowhere.
LEMMA StillThere ==
  ASSUME NEW w, UNCHANGED <<wqe, di, idx, xdpBits, iovaBase, dmaAddr>>
  PROVE  Still(w)
<1>1. OwnedSlots(w)' = OwnedSlots(w) /\ Filled(w)' = Filled(w)
  BY Zenon DEF OwnedSlots, Filled
<1> QED BY <1>1 DEF Still

LEMMA NothingSharedStays ==
  ASSUME NothingShared, UNCHANGED <<pool, cache, xdp, hdr>>,
         \A w \in Wqe : wqe'[w] # "unwinding" /\ xdpBits'[w] = {}
  PROVE  NothingShared'
BY DEF NothingShared

----------------------------------------------------------------------------
(***************************************************************************)
(* One lemma per action that is possible.                                  *)
(***************************************************************************)
\* What every step lemma starts from.
LEMMA Facts ==
  ASSUME FullInv
  PROVE  /\ RxInv /\ AllOne /\ NothingShared /\ JobIsBatch /\ Ranged /\ Mapped
         /\ BlocksHeld /\ OneHolder /\ AtHome
         /\ AllocTypeOK /\ IommuTypeOK /\ SlotTypeOK /\ PageTypeOK /\ JobTypeOK
         /\ OwnedArePages /\ OneAtATime
         /\ \A w \in Wqe : RqOf[w] \in Rq /\ OwnedSlots(w) \subseteq Filled(w) /\ Filled(w) \subseteq Slots
BY FilledSlots, RxAssumption
   DEF FullInv, FaultFreeInv, Ranged, Mapped, BlocksHeld, RxInv, TypeOK

\* Steps that change neither who holds what nor any mapping.
LEMMA Together ==
  ASSUME NothingShared', JobIsBatch', Ranged', Mapped'
  PROVE  FaultFreeInv'
BY DEF FaultFreeInv, Ranged, Mapped

\* No slot of a descriptor changes hands when only its phase or position moves.
LEMMA PhaseKeeps ==
  ASSUME FullInv, NEW w \in Wqe, wqe[w] # "empty", NEW phase \in Phases \ {"empty", "unwinding"},
         wqe' = [wqe EXCEPT ![w] = phase],
         UNCHANGED <<allocVars, pt, di, iovaBase, pool, cache, xdp, hdr, job>>,
         \A v \in Wqe \ {w} : idx'[v] = idx[v],
         xdpBits'[w] = {}, \A v \in Wqe \ {w} : xdpBits'[v] = xdpBits[v],
         Filled(w)' = Filled(w), OwnedSlots(w)' \subseteq OwnedSlots(w),
         \A v \in Wqe : \A i \in OwnedSlots(v)' :
            i \in OwnedSlots(v) => dmaAddr'[di[v][i].page] = dmaAddr[di[v][i].page]
  PROVE  FaultFreeInv'
<1>0. /\ NothingShared /\ JobIsBatch /\ Ranged /\ Mapped /\ AtHome /\ SlotTypeOK
      /\ \A v \in Wqe : OwnedSlots(v) \subseteq Filled(v)
  BY Facts
<1>1. wqe'[w] = phase /\ \A v \in Wqe \ {w} : wqe'[v] = wqe[v]
  BY <1>0 DEF SlotTypeOK
<1>2. NothingShared'
  BY <1>0, <1>1, NothingSharedStays DEF NothingShared
<1>3. JobIsBatch'
  BY <1>0, <1>1 DEF JobIsBatch, Unmapping
<1>4. Ranged'
  <2>1. \A v \in Wqe : Active(v)' = Active(v)
    BY <1>1 DEF Active
  <2>2. \A r : Unmapping(r)' = Unmapping(r)
    BY DEF Unmapping
  <2> QED BY <1>0, <2>1, <2>2, QuietAlloc, RangedStays DEF SameHolders
<1>5. ASSUME NEW v \in Wqe PROVE Still(v)
  <2>1. CASE v = w
    BY <2>1 DEF Still
  <2>2. CASE v # w
    <3>1. wqe'[v] = wqe[v] /\ idx'[v] = idx[v] /\ xdpBits'[v] = xdpBits[v]
      BY <1>1, <2>2
    <3>2. Filled(v)' = Filled(v) /\ OwnedSlots(v)' = OwnedSlots(v)
      BY <3>1, Zenon DEF Filled, OwnedSlots
    <3> QED BY <3>2 DEF Still
  <2> QED BY <2>1, <2>2
<1>6. Mapped'
  BY <1>0, <1>5, MappedStays
<1> QED BY <1>2, <1>3, <1>4, <1>6, Together

LEMMA KeepPostWqe ==
  ASSUME FullInv, NEW w \in Wqe, PostWqe(w)
  PROVE  FaultFreeInv'
<1>0. SlotTypeOK /\ NothingShared /\ PagesPerWqe \in Nat
  BY Facts, BlockSize DEF Pfn
<1>1. /\ wqe[w] = "filling" /\ idx[w] = PagesPerWqe /\ wqe' = [wqe EXCEPT ![w] = "posted"]
      /\ wqe'[w] = "posted" /\ idx'[w] = idx[w] /\ xdpBits'[w] = {}
      /\ \A v \in Wqe \ {w} : xdpBits'[v] = xdpBits[v] /\ idx'[v] = idx[v]
  BY <1>0 DEF PostWqe, SlotTypeOK
<1>2. Filled(w) = 0 .. (idx[w] - 1) /\ OwnedSlots(w) = 0 .. (idx[w] - 1)
  BY <1>1, Owns, Zenon DEF Filled
<1>3. Filled(w)' = Slots /\ OwnedSlots(w)' = Slots
  BY <1>1, OwnsNext DEF Filled
<1>4. 0 .. (idx[w] - 1) = Slots
  BY <1>1 DEF Slots
<1>5. UNCHANGED <<allocVars, pt, di, iovaBase, pool, cache, xdp, hdr, job, dmaAddr>>
  BY DEF PostWqe, pageVars, iommuVars
<1> QED BY <1>1, <1>2, <1>3, <1>4, <1>5, PhaseKeeps DEF Phases

LEMMA KeepFreeStart ==
  ASSUME FullInv, NEW w \in Wqe, FreeStart(w)
  PROVE  FaultFreeInv'
<1>0. SlotTypeOK /\ NothingShared /\ PagesPerWqe \in Nat
  BY Facts, BlockSize DEF Pfn
<1>1. /\ wqe[w] = "posted" /\ wqe' = [wqe EXCEPT ![w] = "freeing"]
      /\ wqe'[w] = "freeing" /\ idx'[w] = 0 /\ xdpBits'[w] = {} /\ xdpBits[w] = {}
      /\ \A v \in Wqe \ {w} : xdpBits'[v] = xdpBits[v] /\ idx'[v] = idx[v]
  BY <1>0 DEF FreeStart, SlotTypeOK, NothingShared
<1>2. Filled(w) = Slots /\ OwnedSlots(w) = Slots
  BY <1>1, Owns DEF Filled
<1>3. Filled(w)' = Slots /\ OwnedSlots(w)' = 0 .. Last
  BY <1>1, OwnsNext DEF Filled
<1>4. 0 .. Last = Slots
  BY DEF Slots, Last
<1>5. UNCHANGED <<allocVars, pt, di, iovaBase, pool, cache, xdp, hdr, job, dmaAddr>>
  BY DEF FreeStart, pageVars, iommuVars
<1> QED BY <1>1, <1>2, <1>3, <1>4, <1>5, PhaseKeeps DEF Phases

LEMMA KeepFreeSlot ==
  ASSUME FullInv, NEW w \in Wqe, FreeSlot(w)
  PROVE  FaultFreeInv'
<1> DEFINE m == di[w][idx[w]].page
<1>0. SlotTypeOK /\ PageTypeOK /\ NothingShared /\ PagesPerWqe \in Nat /\ OwnedArePages /\ AllOne
      /\ RqOf[w] \in Rq
  BY Facts, BlockSize DEF Pfn
<1>1. /\ wqe[w] = "freeing" /\ wqe' = [wqe EXCEPT ![w] = "freeing"] /\ wqe'[w] = "freeing"
      /\ idx[w] \in Nat /\ idx[w] < Last /\ idx'[w] = idx[w] + 1
      /\ xdpBits'[w] = {} /\ xdpBits[w] = {}
      /\ \A v \in Wqe \ {w} : xdpBits'[v] = xdpBits[v] /\ idx'[v] = idx[v]
      /\ dmaAddr' = [dmaAddr EXCEPT ![m] = 0]
  BY <1>0 DEF FreeSlot, Freeing, SlotTypeOK, NothingShared
<1>2. Filled(w) = Slots /\ OwnedSlots(w) = idx[w] .. Last
  BY <1>1, Owns DEF Filled
<1>3. Filled(w)' = Slots /\ OwnedSlots(w)' = idx'[w] .. Last
  BY <1>1, OwnsNext DEF Filled
<1>4. /\ idx[w] \in OwnedSlots(w) /\ idx[w] \notin OwnedSlots(w)'
      /\ OwnedSlots(w)' \subseteq OwnedSlots(w)
  <2>1. Last \in Int
    BY <1>0 DEF Last
  <2> QED BY <1>1, <1>2, <1>3, <2>1
<1>5. UNCHANGED <<allocVars, pt, di, iovaBase, pool, cache, xdp, hdr, job>>
  BY DEF FreeSlot, iommuVars, GiveTo
<1>6. ASSUME NEW v \in Wqe, NEW i \in OwnedSlots(v)', i \in OwnedSlots(v)
      PROVE  dmaAddr'[di[v][i].page] = dmaAddr[di[v][i].page]
  <2>1. di[v][i].page \in Page /\ (di[v][i].page = m => v = w /\ i = idx[w])
    BY <1>0, <1>4, <1>6, OwnedOnce
  <2>2. di[v][i].page # m
    BY <1>4, <1>6, <2>1
  <2> HIDE DEF m
  <2> QED BY <1>0, <1>1, <2>1, <2>2 DEF PageTypeOK
<1> QED BY <1>1, <1>2, <1>3, <1>4, <1>5, <1>6, PhaseKeeps DEF Phases

\* Steps that leave every descriptor and every mapping as they are.
LEMMA ElseKeeps ==
  ASSUME FullInv, UNCHANGED <<slotVars, pt, dmaAddr, cache, xdp, hdr>>,
         \A r \in Rq : pool'[r] = {},
         AtHome', tree' \ rcache' = tree \ rcache,
         \A r \in Rq :
           /\ Unmapping(r)' = Unmapping(r)
           /\ Unmapping(r) => job'[r].range = job[r].range /\ job'[r].to = job[r].to
  PROVE  FaultFreeInv'
<1>0. /\ NothingShared /\ JobIsBatch /\ Ranged /\ Mapped
      /\ \A v \in Wqe : OwnedSlots(v) \subseteq Filled(v)
  BY Facts
<1>1. UNCHANGED <<wqe, di, idx, xdpBits, iovaBase, dmaAddr>>
  BY DEF slotVars
<1>2. NothingShared'
  BY <1>0, <1>1 DEF NothingShared
<1>3. JobIsBatch'
  BY <1>0, <1>1 DEF JobIsBatch
<1>4. Ranged'
  <2>1. \A v \in Wqe : Active(v)' = Active(v)
    BY <1>1 DEF Active
  <2>2. SameHolders
    BY <1>1, <2>1 DEF SameHolders
  <2> QED BY <1>0, <2>2, RangedStays
<1>5. Mapped'
  BY <1>0, <1>1, StillThere, MappedStays
<1> QED BY <1>2, <1>3, <1>4, <1>5, Together

LEMMA KeepSyncIotlb ==
  ASSUME FullInv, NEW r \in Rq, SyncIotlb(r)
  PROVE  FaultFreeInv'
<1>0. NothingShared /\ JobTypeOK /\ AtHome
  BY Facts
<1>1. /\ UNCHANGED <<allocVars, slotVars, pt, dmaAddr, pool, cache, xdp, hdr>>
      /\ job[r].stage = "sync" /\ job' = [job EXCEPT ![r].stage = "free"]
  BY DEF SyncIotlb, IotlbSync, pageVars
<1>2. ASSUME NEW q \in Rq
      PROVE  /\ Unmapping(q)' = Unmapping(q)
             /\ Unmapping(q) => job'[q].range = job[q].range /\ job'[q].to = job[q].to
  <2>1. CASE q # r
    BY <1>0, <1>1, <2>1 DEF JobTypeOK, Unmapping
  <2>2. CASE q = r
    <3>1. job'[r] = [job[r] EXCEPT !.stage = "free"]
      BY <1>0, <1>1 DEF JobTypeOK
    <3> QED BY <1>0, <1>1, <2>2, <3>1 DEF JobTypeOK, Jobs, Unmapping, NoJob
  <2> QED BY <2>1, <2>2
<1>3. AtHome' /\ tree' \ rcache' = tree \ rcache
  BY <1>0, <1>1, QuietAlloc
<1> QED BY <1>0, <1>1, <1>2, <1>3, ElseKeeps DEF NothingShared

\* The steps of others, and those of a queue that is closed or opened.
LEMMA KeepOthers ==
  ASSUME FullInv,
         \/ \E r \in Rq : CloseRq(r) \/ ReopenRq(r)
         \/ \E a \in Pfn : DeviceAccess(a)
         \/ Spill
         \/ UNCHANGED vars
  PROVE  FaultFreeInv'
<1>0. NothingShared /\ AtHome /\ PageTypeOK
  BY Facts
<1>1. UNCHANGED <<slotVars, pt, dmaAddr, cache, xdp, hdr, job>>
  BY DEF CloseRq, ReopenRq, DeviceAccess, DeviceTranslate, Spill, vars, pageVars, iommuVars
<1>2. \A r \in Rq : pool'[r] = {}
  BY <1>0 DEF CloseRq, ReopenRq, DeviceAccess, Spill, vars, pageVars, NothingShared, PageTypeOK
<1>3. AtHome' /\ tree' \ rcache' = tree \ rcache
  BY <1>0, QuietAlloc, SpillKeepsHomes DEF CloseRq, ReopenRq, DeviceAccess, Spill, vars
<1> QED BY <1>1, <1>2, <1>3, ElseKeeps DEF Unmapping

\* Two homes have two blocks.
LEMMA BlockOfHome == \A x, y : Block(x) = Block(y) => x = y
BY DEF Block

\* A refill that starts takes a home nobody holds.
LEMMA AllocTakes ==
  ASSUME FullInv, NEW w \in Wqe, AllocStart(w)
  PROVE  \E lo \in Homes :
           /\ iovaBase' = [iovaBase EXCEPT ![w] = lo]
           /\ AtHome' /\ ~ Taken(lo)
           /\ \A x : Taken(x)' <=> Taken(x) \/ x = lo
<1>0. JobIsBatch /\ AtHome /\ BlocksHeld
  BY Facts
<1>1. wqe[w] = "empty" /\ NotRunning(RqOf[w]) /\ ~ Active(w)
  BY DEF AllocStart, Idle, Active
<1>2. PICK lo \in Pfn : AllocIova(PagesPerWqe, lo) /\ iovaBase' = [iovaBase EXCEPT ![w] = lo]
  <2>1. ~ AllocIovaFails(PagesPerWqe)
    BY <1>0, <1>1, SpareHome, FreeHomeServes
  <2>2. "iova" \notin Faults
    BY FaultFreeAssumption
  <2> QED BY <2>1, <2>2 DEF AllocStart
<1>3. AtHome' /\ lo \in Homes /\ Block(lo) \notin tree \ rcache
      /\ tree' \ rcache' = (tree \ rcache) \cup {Block(lo)}
  BY <1>0, <1>2, AllocTakesHome
<1> QED BY <1>2, <1>3, BlockOfHome DEF Taken

LEMMA KeepAllocStart ==
  ASSUME FullInv, NEW w \in Wqe, AllocStart(w)
  PROVE  FaultFreeInv'
<1>0. /\ NothingShared /\ JobIsBatch /\ Ranged /\ Mapped /\ AtHome /\ SlotTypeOK
      /\ BlocksHeld /\ OneHolder
      /\ \A v \in Wqe : RqOf[v] \in Rq /\ OwnedSlots(v) \subseteq Filled(v)
  BY Facts
<1>1. /\ wqe[w] = "empty" /\ NotRunning(RqOf[w]) /\ ~ Active(w)
      /\ wqe' = [wqe EXCEPT ![w] = "filling"] /\ idx' = [idx EXCEPT ![w] = 0]
      /\ UNCHANGED <<pt, di, xdpBits, dmaAddr, pool, cache, xdp, hdr, job>>
  BY DEF AllocStart, Idle, Active, iommuVars, pageVars
<1>2. PICK lo \in Homes :
           /\ iovaBase' = [iovaBase EXCEPT ![w] = lo]
           /\ AtHome' /\ ~ Taken(lo)
           /\ \A x : Taken(x)' <=> Taken(x) \/ x = lo
  BY AllocTakes
<1>3. /\ AtHome' /\ lo \in Homes /\ ~ Taken(lo)
      /\ \A x : Taken(x)' <=> Taken(x) \/ x = lo
  BY <1>2
<1>4. /\ wqe'[w] = "filling" /\ idx'[w] = 0 /\ iovaBase'[w] = lo /\ Active(w)'
      /\ \A v \in Wqe \ {w} : /\ wqe'[v] = wqe[v] /\ idx'[v] = idx[v]
                             /\ iovaBase'[v] = iovaBase[v] /\ Active(v)' = Active(v)
  BY <1>0, <1>1, <1>2 DEF SlotTypeOK, Active
<1>5. \A r : Unmapping(r)' = Unmapping(r)
  BY <1>1 DEF Unmapping
<1>6. NothingShared'
  <2>1. \A v \in Wqe : wqe'[v] # "unwinding" /\ xdpBits'[v] = {}
    BY <1>0, <1>1, <1>4 DEF NothingShared
  <2> QED BY <1>0, <1>1, <2>1, NothingSharedStays
<1>7. JobIsBatch'
  <2> SUFFICES ASSUME NEW r \in Rq, Unmapping(r)
               PROVE  /\ job[r].range.n = PagesPerWqe /\ job[r].to = "kernel"
                      /\ \E v \in Wqe : RqOf[v] = r /\ wqe'[v] = "empty"
    BY <1>1, <1>5 DEF JobIsBatch
  <2>1. PICK v \in Wqe : RqOf[v] = r /\ wqe[v] = "empty"
    BY <1>0 DEF JobIsBatch
  <2>2. v # w
    BY <1>1, <2>1 DEF NotRunning, Unmapping
  <2> QED BY <1>0, <1>4, <2>1, <2>2 DEF JobIsBatch
<1>8. Ranged'
  <2>1. BlocksHeld'
    BY <1>0, <1>1, <1>3, <1>4, <1>5 DEF BlocksHeld
  <2>2. OneHolder'
    BY <1>0, <1>1, <1>3, <1>4, <1>5 DEF OneHolder, BlocksHeld
  <2> QED BY <2>1, <2>2 DEF Ranged
<1>9. ASSUME NEW v \in Wqe PROVE Still(v)
  <2>1. CASE v = w
    <3>1. Filled(w) = {} /\ OwnedSlots(w)' = 0 .. (idx'[w] - 1)
      BY <1>1, <1>4, OwnsNext DEF Filled
    <3>2. Filled(w)' = 0 .. (idx'[w] - 1)
      BY <1>4, Zenon DEF Filled
    <3>3. 0 .. (idx'[w] - 1) = {}
      BY <1>4
    <3> QED BY <2>1, <3>1, <3>2, <3>3 DEF Still
  <2>2. CASE v # w
    <3>1. wqe'[v] = wqe[v] /\ idx'[v] = idx[v] /\ xdpBits'[v] = xdpBits[v]
      BY <1>1, <1>4, <2>2
    <3>2. Filled(v)' = Filled(v) /\ OwnedSlots(v)' = OwnedSlots(v)
      BY <3>1, Zenon DEF Filled, OwnedSlots
    <3> QED BY <1>1, <1>4, <2>2, <3>2 DEF Still
  <2> QED BY <2>1, <2>2
<1>10. Mapped'
  BY <1>0, <1>1, <1>9, MappedStays
<1> QED BY <1>6, <1>7, <1>8, <1>10, Together

LEMMA KeepReturnIova ==
  ASSUME FullInv, NEW r \in Rq, ReturnIova(r)
  PROVE  FaultFreeInv'
<1> DEFINE lo == job[r].range.lo
<1>0. /\ NothingShared /\ JobIsBatch /\ Ranged /\ Mapped /\ AtHome /\ JobTypeOK
      /\ BlocksHeld /\ OneHolder
      /\ \A v \in Wqe : OwnedSlots(v) \subseteq Filled(v)
  BY Facts
<1>1. /\ Unmapping(r) /\ job' = [job EXCEPT ![r] = NoJob]
      /\ FreeIova(job[r].range.lo, job[r].range.n) /\ GiveTo(r, job[r].page, job[r].to)
      /\ UNCHANGED <<wqe, di, idx, iovaBase, xdpBits, pt, dmaAddr, cache, xdp, hdr>>
  BY DEF ReturnIova, Unmapping, NoJob, iommuVars, slotVars
<1>2. /\ lo = job[r].range.lo /\ Taken(lo) /\ FreeIova(lo, PagesPerWqe) /\ job[r].to = "kernel"
  BY <1>0, <1>1 DEF BlocksHeld, JobIsBatch
<1>3. /\ ~ Unmapping(r)' /\ \A q \in Rq \ {r} : job'[q] = job[q] /\ Unmapping(q)' = Unmapping(q)
  BY <1>0, <1>1 DEF JobTypeOK, Unmapping
<1>4. \A v : Active(v)' = Active(v)
  BY <1>1 DEF Active
<1> HIDE DEF lo
<1>5. AtHome' /\ \A x : Taken(x)' <=> Taken(x) /\ x # lo
  <2>1. AtHome' /\ tree' \ rcache' = (tree \ rcache) \ {Block(lo)}
    BY <1>0, <1>2, FreeLeavesHome DEF Taken
  <2> QED BY <2>1, BlockOfHome DEF Taken
<1>6. pool' = pool
  BY <1>1, <1>2 DEF GiveTo
<1>7. NothingShared'
  BY <1>0, <1>1, <1>6 DEF NothingShared
<1>8. JobIsBatch'
  BY <1>0, <1>1, <1>3 DEF JobIsBatch
<1>9. Ranged'
  <2>1. BlocksHeld'
    BY <1>0, <1>1, <1>2, <1>3, <1>4, <1>5 DEF BlocksHeld, OneHolder
  <2>2. OneHolder'
    BY <1>0, <1>1, <1>3, <1>4 DEF OneHolder
  <2> QED BY <2>1, <2>2 DEF Ranged
<1>10. Mapped'
  BY <1>0, <1>1, StillThere, MappedStays
<1> QED BY <1>7, <1>8, <1>9, <1>10, Together

\* With an IOVA given, the page is mapped there, over an absent entry.
LEMMA FillMaps ==
  ASSUME FullInv, NEW w \in Wqe, FillFromPool(w)
  PROVE  \E page \in kernel :
           LET addr == iovaBase[w] + idx[w] IN
           /\ idx[w] \in Slots /\ addr \in Pfn /\ Phys(addr) = pt[addr] /\ pt[addr] = NoPage
           /\ UNCHANGED <<allocVars, iotlb>> /\ kernel' = kernel \ {page}
           /\ pool' = pool /\ dmaAddr' = [dmaAddr EXCEPT ![page] = addr]
           /\ pt' = [pt EXCEPT ![addr] = page]
           /\ FillSlot(w, page, addr, TRUE)
<1> DEFINE a == iovaBase[w] + idx[w]
<1>0. /\ NothingShared /\ BlocksHeld /\ OneHolder /\ OnlySlotsMapped /\ SlotTypeOK /\ PageTypeOK
      /\ IommuTypeOK /\ RqOf[w] \in Rq
      /\ \A v \in Wqe : Filled(v) \subseteq Slots
  BY Facts DEF Mapped
<1>1. PICK page \in Page, addr \in Pfn :
        PageAllocPool(RqOf[w], page, SlotIova(w), addr) /\ FillSlot(w, page, addr, TRUE)
  BY DEF FillFromPool
<1>2. wqe[w] = "filling" /\ idx[w] \in Slots /\ Active(w) /\ idx[w] \in Nat
  BY <1>0, BlockSize DEF FillFromPool, Filling, SlotTypeOK, Slots, Active, Pfn
<1>3. Taken(iovaBase[w]) /\ a \in Pfn /\ a # 0 /\ Phys(a) = pt[a]
  BY <1>0, <1>2, TakenRange DEF BlocksHeld
<1>4. addr = a /\ UNCHANGED allocVars /\ MapPage(a, page)
  BY <1>1, <1>3 DEF PageAllocPool, DmaMap, SlotIova
<1>5. page \in kernel /\ pool' = pool /\ kernel' = kernel \ {page}
  <2>1. pool[RqOf[w]] = {}
    BY <1>0 DEF NothingShared
  <2>2. /\ page \in kernel /\ pool' = [pool EXCEPT ![RqOf[w]] = @ \ {page}]
        /\ kernel' = kernel \ {page}
    BY <1>1, <2>1 DEF PageAllocPool, TakePage, Available
  <2> QED BY <1>0, <2>1, <2>2 DEF PageTypeOK
<1>6. pt[a] = NoPage
  <2> SUFFICES ASSUME NEW v \in Wqe, NEW i \in Filled(v), a = iovaBase[v] + i PROVE FALSE
    BY <1>0, <1>3 DEF OnlySlotsMapped
  <2>1. i \in Slots /\ Active(v) /\ Taken(iovaBase[v])
    BY <1>0, FilledSlots DEF BlocksHeld
  <2>2. CASE v = w
    <3>1. Filled(w) = 0 .. (idx[w] - 1)
      BY <1>2, Zenon DEF Filled
    <3>2. iovaBase[w] \in Nat
      BY <1>2, <1>3, TakenRange
    <3> QED BY <1>2, <2>2, <3>1, <3>2
  <2>3. CASE v # w
    <3>1. iovaBase[v] # iovaBase[w]
      BY <1>0, <1>2, <2>1, <2>3 DEF OneHolder
    <3> QED BY <1>2, <1>3, <2>1, <3>1, TakenApart
  <2> QED BY <2>2, <2>3
<1>7. /\ pt' = [pt EXCEPT ![a] = page] /\ dmaAddr' = [dmaAddr EXCEPT ![page] = a]
      /\ iotlb' = iotlb
  BY <1>1, <1>4, <1>6 DEF MapPage, PageAllocPool
<1> QED BY <1>1, <1>2, <1>3, <1>4, <1>5, <1>6, <1>7

LEMMA KeepFillFromPool ==
  ASSUME FullInv, NEW w \in Wqe, FillFromPool(w)
  PROVE  FaultFreeInv'
<1> DEFINE n == idx[w]
           a == iovaBase[w] + n
<1>0. /\ NothingShared /\ JobIsBatch /\ Ranged /\ Mapped /\ AtHome /\ SlotTypeOK /\ PageTypeOK
      /\ IommuTypeOK /\ BlocksHeld /\ OneHolder /\ OwnedArePages /\ AllOne
      /\ \A v \in Wqe : OwnedSlots(v) \subseteq Filled(v) /\ Filled(v) \subseteq Slots
  BY Facts
<1>1. PICK page \in kernel :
           /\ n \in Slots /\ a \in Pfn /\ Phys(a) = pt[a] /\ pt[a] = NoPage
           /\ UNCHANGED <<allocVars, iotlb>> /\ kernel' = kernel \ {page}
           /\ pool' = pool /\ dmaAddr' = [dmaAddr EXCEPT ![page] = a]
           /\ pt' = [pt EXCEPT ![a] = page]
           /\ FillSlot(w, page, a, TRUE)
  BY FillMaps
<1>2. /\ wqe[w] = "filling" /\ n \in Nat /\ Active(w)
      /\ UNCHANGED <<wqe, iovaBase, xdpBits, cache, xdp, hdr, job>>
  BY <1>1, BlockSize DEF FillFromPool, Filling, Active, Slots
<1>3. /\ \A v \in Wqe \ {w} : di'[v] = di[v] /\ idx'[v] = idx[v]
      /\ idx'[w] = n + 1
      /\ di'[w][n] = [page |-> page, addr |-> a, batch |-> TRUE]
      /\ \A i \in Slots \ {n} : di'[w][i] = di[w][i]
  BY <1>0, <1>1 DEF FillSlot, SlotTypeOK
<1>4. page \in Page /\ page # NoPage
  BY <1>0, PageAssumption DEF PageTypeOK
<1>5. /\ Filled(w) = 0 .. (n - 1) /\ OwnedSlots(w) = 0 .. (n - 1)
  BY <1>2, Owns, Zenon DEF Filled
<1>6. /\ Filled(w)' = 0 .. (idx'[w] - 1) /\ OwnedSlots(w)' = 0 .. (idx'[w] - 1)
  <2>1. wqe'[w] = "filling"
    BY <1>2
  <2> QED BY <2>1, OwnsNext, Zenon DEF Filled
<1>7. 0 .. (idx'[w] - 1) = (0 .. (n - 1)) \cup {n} /\ n \notin 0 .. (n - 1)
  BY <1>2, <1>3
<1>8. ASSUME NEW v \in Wqe \ {w} PROVE Filled(v)' = Filled(v) /\ OwnedSlots(v)' = OwnedSlots(v)
  <2>1. wqe'[v] = wqe[v] /\ idx'[v] = idx[v] /\ xdpBits'[v] = xdpBits[v]
    BY <1>2, <1>3
  <2> QED BY <2>1, Zenon DEF Filled, OwnedSlots
\* A slot is mapped after the step: it was before, or it is the new one.
<1>9. ASSUME NEW v \in Wqe, NEW i \in Filled(v)'
      PROVE  \/ i \in Filled(v) /\ di'[v][i] = di[v][i]
             \/ v = w /\ i = n
  BY <1>0, <1>3, <1>5, <1>6, <1>7, <1>8, <1>9
<1>10. ASSUME NEW v \in Wqe, NEW i \in OwnedSlots(v)'
      PROVE  \/ i \in OwnedSlots(v) /\ di'[v][i] = di[v][i]
             \/ v = w /\ i = n
  BY <1>0, <1>3, <1>5, <1>6, <1>7, <1>8, <1>10
<1>11. pt'[a] = page /\ \A b \in Pfn \ {a} : pt'[b] = pt[b]
  BY <1>0, <1>1 DEF IommuTypeOK
<1>12. dmaAddr'[page] = a /\ \A p \in Page \ {page} : dmaAddr'[p] = dmaAddr[p]
  BY <1>0, <1>1, <1>4 DEF PageTypeOK
<1> HIDE DEF a
<1>13. SlotsMapped'
  <2> SUFFICES ASSUME NEW v \in Wqe, NEW i \in Filled(v)'
               PROVE  /\ di'[v][i].page \in Page /\ di'[v][i].addr = iovaBase[v] + i
                      /\ Phys(iovaBase[v] + i)' = di'[v][i].page
    BY <1>2 DEF SlotsMapped, Phys
  <2>1. CASE i \in Filled(v) /\ di'[v][i] = di[v][i]
    <3>1. /\ di[v][i].page \in Page /\ di[v][i].addr = iovaBase[v] + i
          /\ Phys(iovaBase[v] + i) = di[v][i].page
      BY <1>0, <2>1 DEF Mapped, SlotsMapped
    <3>2. di[v][i].page # NoPage
      BY <3>1, PageAssumption
    <3>3. iovaBase[v] + i \in Pfn /\ iovaBase[v] + i # a
      BY <1>1, <3>1, <3>2 DEF Phys
    <3>4. Phys(iovaBase[v] + i)' = Phys(iovaBase[v] + i)
      BY <1>2, <1>11, <3>3 DEF Phys
    <3> QED BY <2>1, <3>1, <3>4
  <2>2. CASE v = w /\ i = n
    <3>1. iovaBase[v] + i = a
      BY <2>2 DEF a
    <3>2. Phys(iovaBase[v] + i)' = page
      BY <1>1, <1>2, <1>11, <3>1 DEF Phys
    <3> QED BY <1>3, <1>4, <2>2, <3>1, <3>2
  <2> QED BY <1>9, <2>1, <2>2
<1>14. OnlySlotsMapped'
  <2> SUFFICES ASSUME NEW b \in Pfn, pt'[b] # NoPage
               PROVE  \E v \in Wqe : \E i \in Filled(v)' : b = iovaBase[v] + i
    BY <1>2 DEF OnlySlotsMapped
  <2>1. CASE b = a
    <3>1. n \in Filled(w)' /\ b = iovaBase[w] + n
      BY <1>6, <1>7, <2>1 DEF a
    <3> QED BY <3>1
  <2>2. CASE b # a
    <3>1. PICK v \in Wqe : \E i \in Filled(v) : b = iovaBase[v] + i
      BY <1>0, <1>11, <2>2 DEF Mapped, OnlySlotsMapped
    <3>2. Filled(v) \subseteq Filled(v)'
      BY <1>5, <1>6, <1>7, <1>8
    <3> QED BY <3>1, <3>2
  <2> QED BY <2>1, <2>2
<1>15. AddressKept'
  <2> SUFFICES ASSUME NEW v \in Wqe, NEW i \in OwnedSlots(v)'
               PROVE  dmaAddr'[di'[v][i].page] = iovaBase[v] + i
    BY <1>2 DEF AddressKept
  <2>1. CASE i \in OwnedSlots(v) /\ di'[v][i] = di[v][i]
    <3>1. di[v][i].page \in Page /\ di[v][i].page # page
      BY <1>0, <1>1, <2>1, OwnedOnce
    <3>2. dmaAddr[di[v][i].page] = iovaBase[v] + i
      BY <1>0, <2>1 DEF Mapped, AddressKept
    <3> QED BY <1>12, <2>1, <3>1, <3>2
  <2>2. CASE v = w /\ i = n
    BY <1>3, <1>12, <2>2 DEF a
  <2> QED BY <1>10, <2>1, <2>2
<1>16. NothingShared'
  <2>1. \A v \in Wqe : wqe'[v] # "unwinding" /\ xdpBits'[v] = {}
    BY <1>0, <1>2 DEF NothingShared
  <2> QED BY <1>0, <1>1, <1>2, <2>1, NothingSharedStays
<1>17. JobIsBatch'
  BY <1>0, <1>2 DEF JobIsBatch, Unmapping
<1>18. Ranged'
  <2>1. AtHome' /\ tree' \ rcache' = tree \ rcache
    BY <1>0, <1>1, QuietAlloc
  <2>2. (\A v : Active(v)' = Active(v)) /\ (\A r : Unmapping(r)' = Unmapping(r))
    BY <1>2 DEF Active, Unmapping
  <2> QED BY <1>0, <1>2, <2>1, <2>2, RangedStays DEF SameHolders
<1> QED BY <1>13, <1>14, <1>15, <1>16, <1>17, <1>18, Together DEF Mapped

\* The last slot: the queue takes over the descriptor's range, unmapped.
LEMMA LastUnmaps ==
  ASSUME FullInv, NEW w \in Wqe, FreeLast(w)
  PROVE  LET r == RqOf[w]
             range == [lo |-> iovaBase[w], n |-> PagesPerWqe]
         IN /\ AboutToUnmap(w) /\ Active(w) /\ ~ Unmapping(r) /\ Taken(iovaBase[w])
            /\ pt' = [a \in Pfn |-> IF a \in Span(range) THEN NoPage ELSE pt[a]]
            /\ dmaAddr' = [dmaAddr EXCEPT ![di[w][Last].page] = 0]
            /\ job'[r].range = range /\ job'[r].to = "kernel" /\ Unmapping(r)'
            /\ \A q \in Rq \ {r} : job'[q] = job[q]
            /\ UNCHANGED <<allocVars, iotlb, kernel, pool, cache, xdp, hdr>>
            /\ Retire(w)
<1> DEFINE r == RqOf[w]
<1>0. /\ JobTypeOK /\ OneAtATime /\ r \in Rq /\ NothingShared
  BY Facts
<1>1. AboutToUnmap(w) /\ wqe[w] = "freeing"
  BY DEF FreeLast, AboutToUnmap, Freeing
<1>2. /\ BatchRange(w) = [lo |-> iovaBase[w], n |-> PagesPerWqe]
      /\ Active(w) /\ Taken(iovaBase[w]) /\ Phys(iovaBase[w]) # NoPage
  BY <1>1, BatchBase
<1>3. ~ Unmapping(r)
  BY <1>0, <1>1 DEF OneAtATime, Unmapping
<1>4. StartUnmap(r, di[w][Last].page, BatchRange(w), "kernel") /\ Retire(w)
      /\ UNCHANGED <<allocVars, cache, xdp, hdr>>
  BY DEF FreeLast
<1> DEFINE range == [lo |-> iovaBase[w], n |-> PagesPerWqe]
<1>5. Phys(range.lo) # NoPage /\ BatchRange(w) = range
  BY <1>2
<1>6. /\ dmaAddr' = [dmaAddr EXCEPT ![di[w][Last].page] = 0]
      /\ UnmapFast(range)
      /\ job' = [job EXCEPT ![r] =
                   [stage |-> "sync", range |-> range, page |-> di[w][Last].page, to |-> "kernel"]]
      /\ UNCHANGED <<kernel, pool>>
  BY <1>4, <1>5 DEF StartUnmap
<1>7. /\ job'[r].stage = "sync" /\ job'[r].range = range /\ job'[r].to = "kernel"
      /\ \A q \in Rq \ {r} : job'[q] = job[q]
  BY <1>0, <1>6 DEF JobTypeOK
<1>8. Unmapping(r)'
  BY <1>7 DEF Unmapping, NoJob
<1>9. pt' = [a \in Pfn |-> IF a \in Span(range) THEN NoPage ELSE pt[a]] /\ iotlb' = iotlb
  BY <1>6 DEF UnmapFast
<1> QED BY <1>1, <1>2, <1>3, <1>4, <1>6, <1>7, <1>8, <1>9

LEMMA KeepFreeLast ==
  ASSUME FullInv, NEW w \in Wqe, FreeLast(w)
  PROVE  FaultFreeInv'
<1> DEFINE r == RqOf[w]
           range == [lo |-> iovaBase[w], n |-> PagesPerWqe]
           m == di[w][Last].page
<1>0. /\ NothingShared /\ JobIsBatch /\ Ranged /\ Mapped /\ AtHome /\ SlotTypeOK /\ PageTypeOK
      /\ IommuTypeOK /\ BlocksHeld /\ OneHolder /\ OwnedArePages /\ AllOne /\ r \in Rq
      /\ \A v \in Wqe : OwnedSlots(v) \subseteq Filled(v) /\ Filled(v) \subseteq Slots
  BY Facts
<1>1. /\ AboutToUnmap(w) /\ Active(w) /\ ~ Unmapping(r) /\ Taken(iovaBase[w])
      /\ pt' = [a \in Pfn |-> IF a \in Span(range) THEN NoPage ELSE pt[a]]
      /\ dmaAddr' = [dmaAddr EXCEPT ![m] = 0]
      /\ job'[r].range = range /\ job'[r].to = "kernel" /\ Unmapping(r)'
      /\ \A q \in Rq \ {r} : job'[q] = job[q]
      /\ UNCHANGED <<allocVars, pool, cache, xdp, hdr>>
      /\ Retire(w)
  BY LastUnmaps
<1>2. /\ wqe'[w] = "empty" /\ xdpBits'[w] = {}
      /\ \A v \in Wqe \ {w} : /\ wqe'[v] = wqe[v] /\ di'[v] = di[v] /\ idx'[v] = idx[v]
                             /\ iovaBase'[v] = iovaBase[v] /\ xdpBits'[v] = xdpBits[v]
  BY <1>0, <1>1 DEF Retire, SlotTypeOK
<1>3. ~ Active(w)' /\ \A v \in Wqe \ {w} : Active(v)' = Active(v)
  BY <1>2 DEF Active
<1>4. \A q \in Rq \ {r} : Unmapping(q)' = Unmapping(q)
  BY <1>1 DEF Unmapping
<1>5. Filled(w)' = {} /\ OwnedSlots(w)' = {}
  BY <1>2, OwnsNext DEF Filled
<1>6. ASSUME NEW v \in Wqe \ {w} PROVE Filled(v)' = Filled(v) /\ OwnedSlots(v)' = OwnedSlots(v)
  <2>1. wqe'[v] = wqe[v] /\ idx'[v] = idx[v] /\ xdpBits'[v] = xdpBits[v]
    BY <1>2
  <2> QED BY <2>1, Zenon DEF Filled, OwnedSlots
\* The other descriptors' addresses lie outside the range that is unmapped.
<1>7. ASSUME NEW v \in Wqe \ {w}, NEW i \in Filled(v)
      PROVE  iovaBase[v] + i \in Pfn /\ iovaBase[v] + i \notin Span(range)
  <2>1. i \in Slots /\ Active(v) /\ Taken(iovaBase[v]) /\ iovaBase[v] + i \in Pfn
    BY SlotSeen
  <2>2. iovaBase[v] # iovaBase[w]
    BY <1>0, <1>1, <2>1 DEF OneHolder
  <2> QED BY <1>1, <2>1, <2>2, TakenApart
<1> HIDE DEF r, m
<1>8. NothingShared'
  <2>1. \A v \in Wqe : wqe'[v] # "unwinding" /\ xdpBits'[v] = {}
    BY <1>0, <1>2 DEF NothingShared
  <2> QED BY <1>0, <1>1, <2>1, NothingSharedStays
<1>9. JobIsBatch'
  <2> SUFFICES ASSUME NEW q \in Rq, Unmapping(q)'
               PROVE  /\ job'[q].range.n = PagesPerWqe /\ job'[q].to = "kernel"
                      /\ \E v \in Wqe : RqOf[v] = q /\ wqe'[v] = "empty"
    BY DEF JobIsBatch
  <2>1. CASE q = r
    BY <1>1, <1>2, <2>1 DEF r
  <2>2. CASE q # r
    <3>1. job[q].range.n = PagesPerWqe /\ job[q].to = "kernel"
          /\ \E v \in Wqe : RqOf[v] = q /\ wqe[v] = "empty"
      BY <1>0, <1>4, <2>2 DEF JobIsBatch
    <3> QED BY <1>1, <1>2, <2>2, <3>1
  <2> QED BY <2>1, <2>2
<1>10. Ranged'
  <2>1. AtHome' /\ \A x : Taken(x)' = Taken(x)
    BY <1>0, <1>1, QuietAlloc DEF Taken
  <2>2. job'[r].range.lo = iovaBase[w]
    BY <1>1
  <2>3. BlocksHeld'
    BY <1>0, <1>1, <1>2, <1>3, <1>4, <2>1, <2>2 DEF BlocksHeld
  <2>4. OneHolder'
    BY <1>0, <1>1, <1>2, <1>3, <1>4, <2>2 DEF OneHolder
  <2> QED BY <2>3, <2>4 DEF Ranged
<1> HIDE DEF range
<1>11. \A a \in Pfn : pt'[a] = IF a \in Span(range) THEN NoPage ELSE pt[a]
  BY <1>1
<1>12. SlotsMapped'
  <2> SUFFICES ASSUME NEW v \in Wqe \ {w}, NEW i \in Filled(v)
               PROVE  /\ di[v][i].page \in Page /\ di[v][i].addr = iovaBase[v] + i
                      /\ Phys(iovaBase[v] + i)' = di[v][i].page
    BY <1>2, <1>5, <1>6 DEF SlotsMapped, Phys
  <2>1. /\ di[v][i].page \in Page /\ di[v][i].addr = iovaBase[v] + i
        /\ Phys(iovaBase[v] + i) = di[v][i].page
    BY <1>0 DEF Mapped, SlotsMapped
  <2>2. Phys(iovaBase[v] + i)' = Phys(iovaBase[v] + i)
    BY <1>2, <1>7, <1>11 DEF Phys
  <2> QED BY <2>1, <2>2
<1>13. OnlySlotsMapped'
  <2> SUFFICES ASSUME NEW b \in Pfn, pt'[b] # NoPage
               PROVE  \E v \in Wqe : \E i \in Filled(v)' : b = iovaBase'[v] + i
    BY DEF OnlySlotsMapped
  <2>1. b \notin Span(range) /\ pt[b] # NoPage
    BY <1>11
  <2>2. PICK v \in Wqe : \E i \in Filled(v) : b = iovaBase[v] + i
    BY <1>0, <2>1 DEF Mapped, OnlySlotsMapped
  <2>3. v # w
    <3>1. \A i \in Filled(w) : iovaBase[w] + i \in Span(range)
      BY <1>0, <1>1, TakenRange DEF range
    <3> QED BY <2>1, <2>2, <3>1
  <2> QED BY <1>2, <1>6, <2>2, <2>3
<1>14. AddressKept'
  <2> SUFFICES ASSUME NEW v \in Wqe \ {w}, NEW i \in OwnedSlots(v)
               PROVE  dmaAddr'[di[v][i].page] = iovaBase[v] + i
    BY <1>2, <1>5, <1>6 DEF AddressKept
  <2>1. Last \in OwnedSlots(w)
    <3>1. OwnedSlots(w) = (idx[w] .. Last) \ xdpBits[w] /\ idx[w] = Last /\ Last \notin xdpBits[w]
      BY <1>1, Owns DEF AboutToUnmap, Freeing
    <3> QED BY <3>1, BlockSize DEF Last, Pfn
  <2>2. di[v][i].page \in Page /\ di[v][i].page # m
    BY <1>0, <2>1, OwnedOnce DEF m
  <2>3. dmaAddr[di[v][i].page] = iovaBase[v] + i
    BY <1>0 DEF Mapped, AddressKept
  <2> QED BY <1>0, <1>1, <2>2, <2>3 DEF PageTypeOK
<1> QED BY <1>8, <1>9, <1>10, <1>12, <1>13, <1>14, Together DEF Mapped

----------------------------------------------------------------------------
(***************************************************************************)
(* The steps that never happen, and the theorems.                          *)
(***************************************************************************)
\* No queue meets a fault, an XDP verdict, a header page or a cached page.
LEMMA NeverFills ==
  ASSUME FullInv, NEW w \in Wqe
  PROVE  ~ FillFromCache(w) /\ ~ FillNoPage(w) /\ ~ FillMapFails(w)
<1>0. /\ NothingShared /\ JobIsBatch /\ BlocksHeld /\ SlotTypeOK /\ AllOne /\ RqOf[w] \in Rq
  BY Facts
<1>1. cache[RqOf[w]] = <<>> /\ pool[RqOf[w]] = {}
  BY <1>0 DEF NothingShared
<1>2. ~ FillFromCache(w)
  BY <1>1 DEF FillFromCache, CacheGet
<1>3. ~ FillNoPage(w)
  <2> SUFFICES ASSUME Filling(w) PROVE ~ NoPageAvailable(RqOf[w])
    BY DEF FillNoPage
  <2>1. kernel # {}
    BY <1>0, SparePage
  <2> QED BY <1>1, <2>1, FaultFreeAssumption DEF NoPageAvailable, Available
<1>4. ~ FillMapFails(w)
  <2> SUFFICES ASSUME Filling(w) PROVE ~ DmaMapFails(SlotIova(w))
    BY DEF FillMapFails, PageAllocPoolFails
  <2>1. idx[w] \in Slots /\ Active(w)
    BY <1>0, BlockSize DEF Filling, SlotTypeOK, Slots, Active, Pfn
  <2>2. SlotIova(w) # 0
    BY <1>0, <2>1, TakenRange DEF BlocksHeld, SlotIova
  <2> QED BY <2>2, FaultFreeAssumption DEF DmaMapFails
<1> QED BY <1>2, <1>3, <1>4

LEMMA NeverShares ==
  ASSUME FullInv
  PROVE  /\ \A w \in Wqe : /\ ~ UnwindSlot(w) /\ ~ UnwindDone(w) /\ ~ FreeSkip(w) /\ ~ FreeSkipLast(w)
                         /\ \A i \in Slots : ~ XdpTx(w, i) /\ ~ XdpRedirect(w, i)
         /\ \A r \in Rq : /\ \A recycle \in BOOLEAN : ~ XdpComplete(r, recycle) /\ ~ HdrRelease(r, recycle)
                        /\ ~ HdrAlloc(r) /\ ~ HdrAllocFails(r) /\ ~ DrainCache(r)
<1>0. NothingShared
  BY Facts
<1>1. \A w \in Wqe : ~ UnwindSlot(w) /\ ~ UnwindDone(w) /\ ~ FreeSkip(w) /\ ~ FreeSkipLast(w)
  BY <1>0 DEF NothingShared, UnwindSlot, UnwindDone, FreeSkip, FreeSkipLast
<1>2. \A w \in Wqe : \A i \in Slots : ~ XdpTx(w, i) /\ ~ XdpRedirect(w, i)
  BY FaultFreeAssumption DEF XdpTx, XdpRedirect, XdpVerdict
<1>3. ASSUME NEW r \in Rq
      PROVE  /\ \A recycle \in BOOLEAN : ~ XdpComplete(r, recycle) /\ ~ HdrRelease(r, recycle)
             /\ ~ HdrAlloc(r) /\ ~ HdrAllocFails(r) /\ ~ DrainCache(r)
  BY <1>0, FaultFreeAssumption
     DEF NothingShared, XdpComplete, HdrRelease, HdrAlloc, HdrAllocFails, DrainCache
<1> QED BY <1>1, <1>2, <1>3

LEMMA FaultFreeInit == Init => FaultFreeInv
<1> SUFFICES ASSUME Init PROVE FaultFreeInv
  OBVIOUS
<1>1. /\ \A w \in Wqe : wqe[w] = "empty" /\ xdpBits[w] = {}
      /\ \A r \in Rq : job[r] = NoJob /\ pool[r] = {} /\ cache[r] = <<>> /\ xdp[r] = <<>> /\ hdr[r] = NoPage
      /\ \A a \in Pfn : pt[a] = NoPage
      /\ tree = {} /\ rcache = {}
  BY DEF Init, IommuInit, IovaInit
<1>2. \A w \in Wqe : Filled(w) = {} /\ OwnedSlots(w) = {}
  BY <1>1, Owns DEF Filled
<1>3. NothingShared /\ JobIsBatch
  BY <1>1 DEF NothingShared, JobIsBatch, Unmapping
<1>4. BlocksHeld /\ OneHolder
  BY <1>1 DEF BlocksHeld, OneHolder, AtHome, Taken, Active, Unmapping
<1>5. SlotsMapped /\ OnlySlotsMapped /\ AddressKept
  BY <1>1, <1>2 DEF SlotsMapped, OnlySlotsMapped, AddressKept
<1> QED BY <1>3, <1>4, <1>5 DEF FaultFreeInv

LEMMA FaultFreeNext == FullInv /\ [Next]_vars => FaultFreeInv'
<1> SUFFICES ASSUME FullInv, [Next]_vars PROVE FaultFreeInv'
  OBVIOUS
<1>1. ASSUME NEW r \in Rq, Continue(r) PROVE FaultFreeInv'
  <2>1. CASE SyncIotlb(r) \/ ReturnIova(r)
    BY <2>1, KeepSyncIotlb, KeepReturnIova
  <2>2. ASSUME NEW w \in Wqe,
               \/ FillFromCache(w) \/ FillFromPool(w) \/ FillNoPage(w) \/ FillMapFails(w)
               \/ PostWqe(w) \/ UnwindSlot(w) \/ UnwindDone(w)
               \/ FreeSlot(w) \/ FreeSkip(w) \/ FreeLast(w) \/ FreeSkipLast(w)
        PROVE  FaultFreeInv'
    BY <2>2, NeverFills, NeverShares, KeepFillFromPool, KeepPostWqe, KeepFreeSlot, KeepFreeLast
  <2> QED BY <1>1, <2>1, <2>2 DEF Continue
<1>2. ASSUME NEW r \in Rq, Begin(r) PROVE FaultFreeInv'
  <2>1. ASSUME NEW w \in Wqe,
               AllocStart(w) \/ FreeStart(w) \/ \E i \in Slots : XdpTx(w, i) \/ XdpRedirect(w, i)
        PROVE  FaultFreeInv'
    BY <2>1, NeverShares, KeepAllocStart, KeepFreeStart
  <2>2. CASE CloseRq(r) \/ ReopenRq(r)
    BY <2>2, KeepOthers
  <2> QED BY <1>2, <2>1, <2>2, NeverShares DEF Begin
<1>3. CASE (\E a \in Pfn : DeviceAccess(a)) \/ Spill \/ UNCHANGED vars
  BY <1>3, KeepOthers
<1> QED BY <1>1, <1>2, <1>3 DEF Next

LEMMA FullInvariant == Spec => []FullInv
<1>1. Init => FullInv
  BY RxInvInit, OneInit, FaultFreeInit DEF FullInv
<1>2. FullInv /\ [Next]_vars => FullInv'
  BY RxInvNext, OneNext, FaultFreeNext DEF FullInv
<1> QED BY <1>1, <1>2, PTL DEF Spec

\* The inductive invariant: when nothing fails, no descriptor is ever given up,
\* the blocks in use are exactly those of the descriptors and of the unmaps
\* under way, and the page table holds exactly the filled slots.
THEOREM RxFaultFree == Spec => []FaultFreeInv
<1>1. FullInv => FaultFreeInv
  BY DEF FullInv
<1> QED BY <1>1, FullInvariant, PTL

\* A page of a posted descriptor stays mapped at the address the device was
\* given: no batch unmap of another descriptor ever takes it away.
THEOREM RxPostedMapped == Spec => []PostedMapped
<1> QED BY ImpliesPostedMapped, FullInvariant, PTL

\* Whatever the device can translate lies in a block that is still allocated,
\* up to the completion of the invalidation: an IOVA is handed out again only
\* when nothing is left behind it, although pages are freed without unmapping.
THEOREM RxMappedIsAllocated == Spec => []MappedIsAllocated
<1> QED BY ImpliesMappedIsAllocated, FullInvariant, PTL

\* Strict protection at the granularity of a descriptor: the device reaches a
\* page the kernel has back only while the descriptor it was part of is being
\* freed or its invalidation is awaited.
THEOREM RxProtectedAtRest == Spec => []ProtectedAtRest
<1> QED BY ImpliesProtectedAtRest, FullInvariant, PTL

\* Every block in use has an owner that will free it.
THEOREM RxNoIovaLeak == Spec => []NoIovaLeak
<1> QED BY ImpliesNoIovaLeak, FullInvariant, PTL

\* The range computed back from the last page's address holds exactly the
\* descriptor's pages.
THEOREM RxUnmapsOwnRange == Spec => []UnmapsOwnRange
<1> QED BY ImpliesUnmapsOwnRange, FullInvariant, PTL

\* The comment at free_iova ("automatically subtract to get the beginning") and
\* the WARN_ON(!phys) are right when nothing fails; rx_header and rx_unwind show
\* that they are not when a header page or an error path gets in between.
THEOREM RxSubtractsToBeginning == Spec => [](SubtractsToBeginning /\ BatchIsMapped)
<1> QED BY ImpliesSubtracts, FullInvariant, PTL

----------------------------------------------------------------------------
(***************************************************************************)
(* What the driver and the device see: the state of StrictDma.             *)
(***************************************************************************)
\* StrictDma speaks of the same addresses.
LEMMA SameSpace ==
  /\ Strict!Pfn = Pfn /\ Strict!Ranges = Ranges
  /\ \A x : Strict!Span(x) = Span(x)
  /\ \A x, y : Strict!Apart(x, y) <=> Apart(x, y)
  /\ \A lo : Strict!Batch(lo) = [lo |-> lo, n |-> PagesPerWqe]
BY DEF Strict!Pfn, Strict!Ranges, Strict!Span, Strict!Apart, Strict!Batch, Pfn, Ranges, Span, Apart

\* A batch is a taken range.
LEMMA HeldTaken ==
  ASSUME BlocksHeld, NEW lo \in Strict!Held
  PROVE  Taken(lo) /\ lo \in Pfn
<1>1. ASSUME NEW phase, phase # "empty", lo \in BasesIn(phase) PROVE Taken(lo)
  <2>1. PICK w \in Wqe : wqe[w] = phase /\ lo = iovaBase[w]
    BY <1>1 DEF BasesIn
  <2> QED BY <1>1, <2>1 DEF BlocksHeld, Active
<1>2. lo \in {job[r].range.lo : r \in {q \in Rq : Unmapping(q)}} => Taken(lo)
  BY DEF BlocksHeld
<1>3. Taken(lo)
  BY <1>1, <1>2 DEF Strict!Held, Closing
<1> QED BY <1>3, HomeBounds DEF Taken

\* No descriptor enters a phase, leaves it, or moves.
LEMMA BasesStay ==
  ASSUME NEW phase,
         \A w \in Wqe : wqe'[w] = phase <=> wqe[w] = phase,
         \A w \in Wqe : wqe[w] = phase => iovaBase'[w] = iovaBase[w]
  PROVE  BasesIn(phase)' = BasesIn(phase)
<1> DEFINE S == {v \in Wqe : wqe[v] = phase}
<1>1. {v \in Wqe : wqe'[v] = phase} = S
  OBVIOUS
<1>2. \A w \in S : iovaBase'[w] = iovaBase[w]
  OBVIOUS
<1> HIDE DEF S
<1>3. {iovaBase'[w] : w \in S} = {iovaBase[w] : w \in S}
  BY <1>2
<1> QED BY <1>1, <1>3 DEF BasesIn, S

\* A descriptor moves from a phase to another: its batch goes with it.
LEMMA BasesMove ==
  ASSUME OneHolder, NEW w \in Wqe, NEW from, NEW to, from # "empty", from # to,
         wqe[w] = from, wqe'[w] = to, \A v \in Wqe \ {w} : wqe'[v] = wqe[v],
         iovaBase' = iovaBase
  PROVE  /\ BasesIn(from)' = BasesIn(from) \ {iovaBase[w]}
         /\ BasesIn(to)' = BasesIn(to) \cup {iovaBase[w]}
         /\ \A phase : phase # from /\ phase # to => BasesIn(phase)' = BasesIn(phase)
<1>1. \A v \in Wqe : wqe[v] = from /\ iovaBase[v] = iovaBase[w] => v = w
  BY DEF OneHolder, Active
<1>2. \A x : x \in BasesIn(from)' <=> x \in BasesIn(from) \ {iovaBase[w]}
  BY <1>1 DEF BasesIn
<1>3. \A x : x \in BasesIn(to)' <=> x \in BasesIn(to) \cup {iovaBase[w]}
  BY DEF BasesIn
<1>4. ASSUME NEW phase, phase # from, phase # to PROVE BasesIn(phase)' = BasesIn(phase)
  BY <1>4, BasesStay
<1> QED BY <1>2, <1>3, <1>4

\* No unmap begins or ends, and no batch begins or ends to be freed.
LEMMA ClosingStays ==
  ASSUME BasesIn("freeing")' = BasesIn("freeing"),
         \A r \in Rq : Unmapping(r)' = Unmapping(r),
         \A r \in Rq : Unmapping(r) => job'[r].range = job[r].range
  PROVE  Closing' = Closing
<1> DEFINE S == {q \in Rq : Unmapping(q)}
<1>1. {q \in Rq : Unmapping(q)'} = S
  OBVIOUS
<1>2. \A r \in S : job'[r].range.lo = job[r].range.lo
  OBVIOUS
<1> HIDE DEF S
<1>3. {job'[r].range.lo : r \in S} = {job[r].range.lo : r \in S}
  BY <1>2
<1> QED BY <1>1, <1>3 DEF Closing, S

\* Descriptors and unmaps stay as they are.
LEMMA HoldersStay ==
  ASSUME UNCHANGED <<wqe, iovaBase>>, \A r \in Rq : Unmapping(r)' = Unmapping(r),
         \A r \in Rq : Unmapping(r) => job'[r].range = job[r].range
  PROVE  /\ BasesIn("filling")' = BasesIn("filling") /\ BasesIn("posted")' = BasesIn("posted")
         /\ Closing' = Closing
<1>1. \A phase : BasesIn(phase)' = BasesIn(phase)
  BY BasesStay
<1> QED BY <1>1, ClosingStays

\* An address of a queue's unmap is in no page table any more.
LEMMA JobSpan ==
  ASSUME FullInv, NEW r \in Rq, Unmapping(r), NEW a \in Pfn, a \in Span(job[r].range)
  PROVE  /\ pt[a] = NoPage
         /\ \A q \in Rq \ {r} : Unmapping(q) => a \notin Span(job[q].range)
<1> DEFINE lo == job[r].range.lo
<1>0. /\ OnlySlotsMapped /\ BlocksHeld /\ OneHolder
      /\ \A w \in Wqe : Filled(w) \subseteq Slots
  BY Facts DEF Mapped
<1>1. Taken(lo) /\ job[r].range = [lo |-> lo, n |-> PagesPerWqe]
  BY <1>0, JobRange DEF FullInv, RxInv, TypeOK, FaultFreeInv, BlocksHeld
<1>2. lo \in Nat /\ PagesPerWqe \in Nat /\ a \in Nat
  BY <1>1, HomeBounds, BlockSize, MaxPfnAssumption DEF Taken, Pfn
<1> HIDE DEF lo
<1>3. a - lo \in Slots /\ lo + (a - lo) = a
  BY <1>1, <1>2 DEF Span, Slots
<1>4. ASSUME NEW w \in Wqe, NEW i \in Filled(w) PROVE a # iovaBase[w] + i
  <2>1. i \in Slots /\ Active(w) /\ Taken(iovaBase[w]) /\ iovaBase[w] # lo
    BY <1>0, SlotSeen DEF OneHolder, lo
  <2> QED BY <1>1, <1>3, <2>1, TakenApart
<1>5. ASSUME NEW q \in Rq \ {r}, Unmapping(q) PROVE a \notin Span(job[q].range)
  <2>1. Taken(job[q].range.lo) /\ job[q].range.lo # lo
        /\ job[q].range = [lo |-> job[q].range.lo, n |-> PagesPerWqe]
    BY <1>0, <1>5, JobRange DEF FullInv, RxInv, TypeOK, FaultFreeInv, BlocksHeld, OneHolder, lo
  <2> QED BY <1>1, <1>3, <2>1, TakenApart
<1> QED BY <1>0, <1>4, <1>5 DEF OnlySlotsMapped

\* What the device sees at an address comes from a filled slot or from an unmap.
LEMMA SeenFrom ==
  ASSUME FullInv, NEW a \in Pfn, Seen(a) # NoPage
  PROVE  \/ \E w \in Wqe : \E i \in Filled(w) : a = iovaBase[w] + i /\ Seen(a) = di[w][i].page
         \/ \E r \in Rq : Unmapping(r) /\ job[r].stage = "sync" /\ a \in Span(job[r].range)
<1>1. pt[a] # NoPage \/ iotlb[a] # NoPage
  BY DEF Seen
<1>2. ASSUME NEW w \in Wqe, NEW i \in Filled(w), a = iovaBase[w] + i PROVE Seen(a) = di[w][i].page
  BY <1>2, SlotSeen DEF Seen
<1> QED BY <1>1, <1>2, ReachedFrom

\* A filled slot's address is in its descriptor's batch.
LEMMA SeenInBatch ==
  ASSUME FullInv, NEW w \in Wqe, NEW i \in Filled(w)
  PROVE  /\ iovaBase[w] + i \in Pfn
         /\ iovaBase[w] + i \in Span(Strict!Batch(iovaBase[w]))
         /\ Seen(iovaBase[w] + i) = di[w][i].page
BY SlotSeen, TakenRange, SameSpace DEF Seen

\* A page that the device sees and that no slot owes is of a batch being closed.
LEMMA SeenClosing ==
  ASSUME FullInv, NEW a \in Pfn, Seen(a) # NoPage,
         \A w \in Wqe : ~ Freeing(w) => \A i \in OwnedSlots(w) : di[w][i].page # Seen(a)
  PROVE  Strict!InClosing(a)
<1>1. ASSUME NEW w \in Wqe, NEW i \in Filled(w), a = iovaBase[w] + i, Seen(a) = di[w][i].page
      PROVE  Strict!InClosing(a)
  <2>1. Freeing(w)
    <3>1. ~ Freeing(w) => i \in OwnedSlots(w)
      BY FilledSlots DEF FullInv, RxInv, TypeOK, FaultFreeInv
    <3> QED BY <1>1, <3>1
  <2>2. iovaBase[w] \in Closing
    BY <2>1 DEF Closing, BasesIn, Freeing
  <2> QED BY <1>1, <2>2, SeenInBatch, SameSpace DEF Strict!InClosing
<1>2. ASSUME NEW r \in Rq, Unmapping(r), a \in Span(job[r].range) PROVE Strict!InClosing(a)
  <2>1. job[r].range.lo \in Closing
    BY <1>2 DEF Closing
  <2>2. job[r].range = Strict!Batch(job[r].range.lo)
    BY <1>2, JobRange, SameSpace DEF FullInv, RxInv, TypeOK, FaultFreeInv
  <2> QED BY <1>2, <2>1, <2>2, SameSpace DEF Strict!InClosing
<1> QED BY <1>1, <1>2, SeenFrom


----------------------------------------------------------------------------
(***************************************************************************)
(* Each step of the driver is one of StrictDma's.                          *)
(***************************************************************************)
\* What the step lemmas start from.
LEMMA StrictFacts ==
  ASSUME FullInv
  PROVE  /\ BlocksHeld /\ OneHolder /\ SlotTypeOK /\ PageTypeOK /\ JobTypeOK /\ IommuTypeOK
         /\ OwnedArePages /\ AllOne /\ NothingShared /\ JobIsBatch
         /\ PagesPerWqe \in Nat /\ PagesPerWqe > 0
         /\ \A w \in Wqe : RqOf[w] \in Rq /\ OwnedSlots(w) \subseteq Filled(w) /\ Filled(w) \subseteq Slots
BY Facts, BlockSize DEF Pfn

\* The device sees what it saw when neither table nor IOTLB changes.
LEMMA SeenStays ==
  ASSUME UNCHANGED <<pt, iotlb>>
  PROVE  [a \in Pfn |-> Seen(a)]' = [a \in Pfn |-> Seen(a)]
BY DEF Seen

\* The range a descriptor takes is apart from every batch.
LEMMA AllocOpens ==
  ASSUME FullInv, NEW w \in Wqe, AllocStart(w)
  PROVE  \E lo \in Pfn : Strict!Open(lo)
<1>0. BlocksHeld /\ SlotTypeOK
  BY StrictFacts
<1>1. /\ wqe[w] = "empty" /\ wqe' = [wqe EXCEPT ![w] = "filling"]
      /\ UNCHANGED <<pt, iotlb, kernel, job>>
  BY DEF AllocStart, iommuVars, pageVars
<1>2. PICK lo \in Homes : iovaBase' = [iovaBase EXCEPT ![w] = lo] /\ ~ Taken(lo)
  BY AllocTakes
<1>3. /\ wqe'[w] = "filling" /\ iovaBase'[w] = lo
      /\ \A v \in Wqe \ {w} : wqe'[v] = wqe[v] /\ iovaBase'[v] = iovaBase[v]
  BY <1>0, <1>1, <1>2 DEF SlotTypeOK
<1>4. lo \in Pfn /\ Strict!Batch(lo) \in Strict!Ranges
  <2>1. /\ PagesPerWqe \in Pfn /\ PagesPerWqe \in Nat /\ AllocSize(PagesPerWqe) \in Nat
        /\ PagesPerWqe <= AllocSize(PagesPerWqe) /\ MaxPfn \in Nat
    BY BlockSize, MaxPfnAssumption DEF Pfn
  <2>2. lo \in Pfn /\ lo \in Nat /\ lo + AllocSize(PagesPerWqe) <= MaxPfn + 1
    BY HomeBounds
  <2>3. lo + PagesPerWqe <= MaxPfn + 1
    BY <2>1, <2>2
  <2> QED BY <2>1, <2>2, <2>3, SameSpace DEF Ranges
<1>5. ASSUME NEW h \in Strict!Held PROVE Strict!Apart(Strict!Batch(lo), Strict!Batch(h))
  <2>1. h \in Homes /\ h # lo
    BY <1>0, <1>2, HeldTaken DEF Taken
  <2>2. lo + AllocSize(PagesPerWqe) <= h \/ h + AllocSize(PagesPerWqe) <= lo
    BY <2>1, HomesApart
  <2>3. lo \in Nat /\ h \in Nat
    BY <2>1, HomeBounds
  <2>4. PagesPerWqe \in Nat /\ AllocSize(PagesPerWqe) \in Nat /\ PagesPerWqe <= AllocSize(PagesPerWqe)
    BY BlockSize DEF Pfn
  <2>5. lo + PagesPerWqe <= h \/ h + PagesPerWqe <= lo
    BY <2>2, <2>3, <2>4
  <2> QED BY <2>5, SameSpace DEF Apart
<1>6. BasesIn("filling")' = BasesIn("filling") \cup {lo}
  <2>1. \A x : x \in BasesIn("filling")' <=> x \in BasesIn("filling") \cup {lo}
    BY <1>1, <1>3 DEF BasesIn
  <2> QED BY <2>1
<1>7. BasesIn("posted")' = BasesIn("posted") /\ BasesIn("freeing")' = BasesIn("freeing")
  BY <1>1, <1>3, BasesStay
<1>8. Closing' = Closing
  BY <1>1, <1>7, ClosingStays DEF Unmapping
<1>9. [a \in Pfn |-> Seen(a)]' = [a \in Pfn |-> Seen(a)]
  BY <1>1, SeenStays
<1>10. Strict!Open(lo)
  BY <1>1, <1>4, <1>5, <1>6, <1>7, <1>8, <1>9 DEF Strict!Open
<1> QED BY <1>4, <1>10

\* A slot's address is unreachable until the slot is mapped, through the IOTLB
\* as well: whoever had the range before waited for its invalidation.
LEMMA FillMapsStrictly ==
  ASSUME FullInv, NEW w \in Wqe, FillFromPool(w)
  PROVE  \E lo \in Pfn, a \in Pfn, page \in Page : Strict!Map(lo, a, page)
<1> DEFINE lo == iovaBase[w]
           a == lo + idx[w]
<1>0. BlocksHeld /\ OneHolder /\ PageTypeOK /\ IommuTypeOK /\ \A v \in Wqe : Filled(v) \subseteq Slots
  BY StrictFacts
<1>1. PICK page \in kernel :
           /\ idx[w] \in Slots /\ a \in Pfn /\ pt[a] = NoPage
           /\ iotlb' = iotlb /\ kernel' = kernel \ {page}
           /\ pt' = [pt EXCEPT ![a] = page]
  BY FillMaps
<1>2. wqe[w] = "filling" /\ Active(w) /\ UNCHANGED <<wqe, iovaBase, job>>
  BY DEF FillFromPool, Filling, Active
<1>3. Taken(lo) /\ lo \in Pfn /\ a \in Span(Strict!Batch(lo)) /\ lo \in BasesIn("filling")
  BY <1>0, <1>1, <1>2, TakenRange, HomeBounds, SameSpace DEF BlocksHeld, BasesIn
<1>4. iotlb[a] = NoPage
  <2>1. ASSUME NEW r \in Rq, Unmapping(r) PROVE a \notin Span(job[r].range)
    <3>1. Taken(job[r].range.lo) /\ lo # job[r].range.lo
      BY <1>0, <1>2, <2>1 DEF BlocksHeld, OneHolder
    <3>2. job[r].range = [lo |-> job[r].range.lo, n |-> PagesPerWqe]
      BY <2>1, StrictFacts, JobRange
    <3> QED BY <1>1, <1>3, <3>1, <3>2, TakenApart
  <2> HIDE DEF a
  <2> QED BY <1>1, <2>1, ReachedFrom
<1> HIDE DEF lo, a
<1>5. /\ BasesIn("filling")' = BasesIn("filling") /\ BasesIn("posted")' = BasesIn("posted")
      /\ Closing' = Closing
  BY <1>2, HoldersStay DEF Unmapping
<1>6. [b \in Pfn |-> Seen(b)][a] = NoPage
  BY <1>1, <1>4 DEF Seen
<1>7. [b \in Pfn |-> Seen(b)]' = [[b \in Pfn |-> Seen(b)] EXCEPT ![a] = page]
  <2>1. \A b \in Pfn : Seen(b)' = IF b = a THEN page ELSE Seen(b)
    BY <1>0, <1>1, <1>4 DEF Seen, IommuTypeOK
  <2> QED BY <1>1, <2>1
<1>8. page \in Page /\ page \in Page \ (Page \ kernel) /\ (Page \ kernel)' = (Page \ kernel) \cup {page}
  BY <1>0, <1>1 DEF PageTypeOK
<1>9. Strict!Map(lo, a, page)
  BY <1>3, <1>5, <1>6, <1>7, <1>8, SameSpace DEF Strict!Map
<1> QED BY <1>1, <1>3, <1>8, <1>9

\* Every slot of a descriptor about to be posted shows a page of the driver.
LEMMA PostPosts ==
  ASSUME FullInv, NEW w \in Wqe, PostWqe(w)
  PROVE  \E lo \in Pfn : Strict!Post(lo)
<1> DEFINE lo == iovaBase[w]
<1>0. BlocksHeld /\ OneHolder /\ SlotTypeOK /\ OwnedArePages /\ AllOne /\ PagesPerWqe \in Nat
  BY StrictFacts
<1>1. /\ wqe[w] = "filling" /\ idx[w] = PagesPerWqe /\ wqe' = [wqe EXCEPT ![w] = "posted"]
      /\ wqe'[w] = "posted" /\ \A v \in Wqe \ {w} : wqe'[v] = wqe[v]
      /\ UNCHANGED <<pt, iotlb, kernel, job, iovaBase>> /\ Active(w)
  BY <1>0 DEF PostWqe, iommuVars, pageVars, Active, SlotTypeOK
<1>2. Filled(w) = Slots /\ OwnedSlots(w) = Slots
  <2>1. Filled(w) = 0 .. (idx[w] - 1) /\ OwnedSlots(w) = 0 .. (idx[w] - 1)
    BY <1>1, Owns, Zenon DEF Filled
  <2> QED BY <1>1, <2>1 DEF Slots
<1>3. Taken(lo) /\ lo \in Pfn /\ lo \in Nat /\ lo \in BasesIn("filling")
  BY <1>0, <1>1, HomeBounds DEF BlocksHeld, BasesIn, Taken
<1>4. ASSUME NEW a \in Span(Strict!Batch(lo)) PROVE [b \in Pfn |-> Seen(b)][a] \in Page \ kernel
  <2>1. a - lo \in Slots /\ lo + (a - lo) = a
    BY <1>0, <1>3, SameSpace DEF Span, Slots
  <2>2. a \in Pfn /\ Seen(a) = di[w][a - lo].page
    BY <1>2, <2>1, SeenInBatch
  <2>3. di[w][a - lo].page \in Page /\ di[w][a - lo].page \notin kernel
    BY <1>0, <1>2, <2>1, OwnedOnce
  <2> QED BY <2>2, <2>3
<1>5. /\ BasesIn("filling")' = BasesIn("filling") \ {lo}
      /\ BasesIn("posted")' = BasesIn("posted") \cup {lo}
      /\ BasesIn("freeing")' = BasesIn("freeing")
  BY <1>0, <1>1, BasesMove
<1>6. Closing' = Closing
  BY <1>1, <1>5, ClosingStays DEF Unmapping
<1>7. [a \in Pfn |-> Seen(a)]' = [a \in Pfn |-> Seen(a)]
  BY <1>1, SeenStays
<1> HIDE DEF lo
<1>8. Strict!Post(lo)
  BY <1>1, <1>3, <1>4, <1>5, <1>6, <1>7, SameSpace DEF Strict!Post
<1> QED BY <1>3, <1>8

\* With the first page to be given back, the batch is being closed.
LEMMA FreeCloses ==
  ASSUME FullInv, NEW w \in Wqe, FreeStart(w)
  PROVE  \E lo \in Pfn : Strict!Close(lo)
<1> DEFINE lo == iovaBase[w]
<1>0. BlocksHeld /\ OneHolder /\ SlotTypeOK
  BY StrictFacts
<1>1. /\ wqe[w] = "posted" /\ wqe' = [wqe EXCEPT ![w] = "freeing"]
      /\ wqe'[w] = "freeing" /\ \A v \in Wqe \ {w} : wqe'[v] = wqe[v]
      /\ UNCHANGED <<pt, iotlb, kernel, job, iovaBase>> /\ Active(w)
  BY <1>0 DEF FreeStart, iommuVars, pageVars, Active, SlotTypeOK
<1>2. lo \in Pfn /\ lo \in BasesIn("posted")
  BY <1>0, <1>1, HomeBounds DEF BlocksHeld, BasesIn, Taken
<1>3. /\ BasesIn("posted")' = BasesIn("posted") \ {lo}
      /\ BasesIn("freeing")' = BasesIn("freeing") \cup {lo}
      /\ BasesIn("filling")' = BasesIn("filling")
  BY <1>0, <1>1, BasesMove
<1>4. Closing' = Closing \cup {lo}
  BY <1>1, <1>3 DEF Closing, Unmapping
<1>5. [a \in Pfn |-> Seen(a)]' = [a \in Pfn |-> Seen(a)]
  BY <1>1, SeenStays
<1> HIDE DEF lo
<1>6. Strict!Close(lo)
  BY <1>1, <1>2, <1>3, <1>4, <1>5 DEF Strict!Close
<1> QED BY <1>2, <1>6

\* A page other than the last goes back while its batch is still mapped.
LEMMA FreeReturns ==
  ASSUME FullInv, NEW w \in Wqe, FreeSlot(w)
  PROVE  \E page \in Page : Strict!ReturnPage(page)
<1> DEFINE i == idx[w]
           m == di[w][i].page
<1>0. SlotTypeOK /\ OwnedArePages /\ AllOne /\ PagesPerWqe \in Nat /\ NothingShared
  BY StrictFacts
<1>1. /\ Freeing(w) /\ i \in Nat /\ i < Last /\ kernel' = kernel \cup {m}
      /\ UNCHANGED <<pt, iotlb, job, wqe, iovaBase>>
  BY <1>0 DEF FreeSlot, GiveTo, iommuVars, SlotTypeOK
<1>2. i \in OwnedSlots(w)
  <2>1. wqe[w] = "freeing" /\ xdpBits[w] = {} /\ Last \in Int
    BY <1>0, <1>1 DEF Freeing, Last, NothingShared
  <2>2. OwnedSlots(w) = i .. Last
    BY <2>1, Owns
  <2> QED BY <1>1, <2>1, <2>2
<1>3. /\ m \in Page /\ m \notin kernel
      /\ \A v \in Wqe : \A j \in OwnedSlots(v) : di[v][j].page = m => v = w
  BY <1>0, <1>2, OwnedOnce
<1> HIDE DEF m, i
<1>4. ASSUME NEW a \in Pfn, Seen(a) = m PROVE Strict!InClosing(a)
  <2>1. Seen(a) # NoPage
    BY <1>3, <1>4, PageAssumption
  <2> QED BY <1>1, <1>3, <1>4, <2>1, SeenClosing
<1>5. \A a \in Strict!Pfn : [b \in Pfn |-> Seen(b)][a] = m => Strict!InClosing(a)
  BY <1>4, SameSpace
<1>6. /\ BasesIn("filling")' = BasesIn("filling") /\ BasesIn("posted")' = BasesIn("posted")
      /\ Closing' = Closing
  BY <1>1, HoldersStay DEF Unmapping
<1>7. [a \in Pfn |-> Seen(a)]' = [a \in Pfn |-> Seen(a)]
  BY <1>1, SeenStays
<1>8. m \in Page \ kernel /\ (Page \ kernel)' = (Page \ kernel) \ {m}
  BY <1>1, <1>3
<1>9. Strict!ReturnPage(m)
  BY <1>5, <1>6, <1>7, <1>8 DEF Strict!ReturnPage, Strict!GoesBack
<1> QED BY <1>3, <1>9

\* The device loses some of a batch that is being closed.
LEMMA Revokes ==
  ASSUME IommuTypeOK, NEW lo \in Closing, NEW S,
         \A a \in Pfn : Seen(a)' = IF a \in S THEN NoPage ELSE Seen(a),
         \A a \in S : a \in Span([lo |-> lo, n |-> PagesPerWqe]),
         BasesIn("filling")' = BasesIn("filling"), BasesIn("posted")' = BasesIn("posted"),
         Closing' = Closing, kernel' = kernel
  PROVE  Strict!Revoke(lo)
<1> DEFINE R == [a \in Pfn |-> Seen(a)]
<1>1. \A a \in Pfn : Seen(a) \in Page \cup {NoPage}
  BY DEF Seen, IommuTypeOK
<1>2. R' \in [Pfn -> Page \cup {NoPage}]
  BY <1>1
<1>3. \A a \in Pfn : \/ R'[a] = R[a]
                     \/ a \in Span([lo |-> lo, n |-> PagesPerWqe]) /\ R'[a] = NoPage
  OBVIOUS
<1> HIDE DEF R
<1>4. /\ R' \in [Strict!Pfn -> Page \cup {NoPage}]
      /\ \A a \in Strict!Pfn : R'[a] = R[a] \/ (a \in Strict!Span(Strict!Batch(lo)) /\ R'[a] = NoPage)
  BY <1>2, <1>3, SameSpace
<1> QED BY <1>4 DEF Strict!Revoke, R

\* The unmap empties the table but not the IOTLB; the queue's job takes the
\* batch over from the descriptor.
LEMMA LastRevokes ==
  ASSUME FullInv, NEW w \in Wqe, FreeLast(w)
  PROVE  \E lo \in Pfn : Strict!Revoke(lo)
<1> DEFINE lo == iovaBase[w]
           r == RqOf[w]
           range == [lo |-> lo, n |-> PagesPerWqe]
<1>0. IommuTypeOK /\ SlotTypeOK /\ OneHolder /\ r \in Rq
  BY StrictFacts
<1>1. /\ AboutToUnmap(w) /\ Active(w) /\ ~ Unmapping(r) /\ Taken(lo)
      /\ pt' = [a \in Pfn |-> IF a \in Span(range) THEN NoPage ELSE pt[a]]
      /\ job'[r].range = range /\ Unmapping(r)' /\ \A q \in Rq \ {r} : job'[q] = job[q]
      /\ UNCHANGED <<iotlb, kernel>> /\ Retire(w)
  BY LastUnmaps
<1>2. /\ wqe[w] = "freeing" /\ wqe'[w] = "empty"
      /\ \A v \in Wqe \ {w} : wqe'[v] = wqe[v] /\ iovaBase'[v] = iovaBase[v]
  BY <1>0, <1>1 DEF AboutToUnmap, Freeing, Retire, SlotTypeOK
<1>3. BasesIn("filling")' = BasesIn("filling") /\ BasesIn("posted")' = BasesIn("posted")
  BY <1>2, BasesStay
<1>4. Closing' = Closing
  <2>1. \A v \in Wqe : wqe[v] = "freeing" /\ v # w => wqe'[v] = "freeing" /\ iovaBase'[v] = iovaBase[v]
    BY <1>2
  <2>2. \A v \in Wqe : wqe'[v] = "freeing" => v # w /\ wqe[v] = "freeing" /\ iovaBase'[v] = iovaBase[v]
    BY <1>2
  <2>3. \A q \in Rq : Unmapping(q) => Unmapping(q)' /\ job'[q].range.lo = job[q].range.lo
    BY <1>1 DEF Unmapping
  <2>4. \A q \in Rq : Unmapping(q)' => \/ q = r /\ job'[q].range.lo = lo
                                       \/ Unmapping(q) /\ job'[q].range.lo = job[q].range.lo
    BY <1>1 DEF Unmapping
  <2> DEFINE F == {v \in Wqe : wqe[v] = "freeing"}
             U == {q \in Rq : Unmapping(q)}
  <2>5. F' = F \ {w} /\ w \in F /\ \A v \in F' : iovaBase'[v] = iovaBase[v]
    BY <1>2, <2>1, <2>2
  <2>6. U' = U \cup {r} /\ job'[r].range.lo = lo /\ \A q \in U : job'[q].range.lo = job[q].range.lo
    BY <1>0, <1>1, <2>3, <2>4
  <2>7. Closing = {iovaBase[v] : v \in F} \cup {job[q].range.lo : q \in U}
    BY DEF Closing, BasesIn
  <2>8. Closing' = {iovaBase'[v] : v \in F'} \cup {job'[q].range.lo : q \in U'}
    BY DEF Closing, BasesIn
  <2> HIDE DEF F, U, r, range
  <2>9. \A x : x \in Closing' <=> x \in Closing
    BY <2>5, <2>6, <2>7, <2>8
  <2> QED BY <2>9
<1>5. lo \in Closing /\ lo \in Pfn
  BY <1>1, <1>2, HomeBounds DEF Closing, BasesIn, Taken
<1> HIDE DEF lo
<1>6. \A a \in Pfn : Seen(a)' = IF a \in Span(range) /\ iotlb[a] = NoPage THEN NoPage ELSE Seen(a)
  BY <1>1 DEF Seen
<1> DEFINE S == {a \in Span(range) : iotlb[a] = NoPage}
<1>7. (\A a \in Pfn : Seen(a)' = IF a \in S THEN NoPage ELSE Seen(a)) /\ \A a \in S : a \in Span(range)
  BY <1>6
<1> HIDE DEF S
<1>8. Strict!Revoke(lo)
  BY <1>0, <1>1, <1>3, <1>4, <1>5, <1>7, Revokes
<1> QED BY <1>5, <1>8

\* The invalidation empties the IOTLB, and the table has nothing left to show.
LEMMA SyncRevokes ==
  ASSUME FullInv, NEW r \in Rq, SyncIotlb(r)
  PROVE  \E lo \in Pfn : Strict!Revoke(lo)
<1> DEFINE lo == job[r].range.lo
           range == [lo |-> lo, n |-> PagesPerWqe]
<1>0. IommuTypeOK /\ JobTypeOK /\ BlocksHeld /\ JobIsBatch
  BY StrictFacts
<1>1. /\ job[r].stage = "sync" /\ job' = [job EXCEPT ![r].stage = "free"]
      /\ UNCHANGED <<wqe, iovaBase, kernel, pt>>
      /\ iotlb' = [a \in Pfn |-> IF a \in Span(job[r].range) THEN NoPage ELSE iotlb[a]]
  BY DEF SyncIotlb, IotlbSync, slotVars, pageVars
<1>2. Unmapping(r)
  BY <1>1 DEF Unmapping, NoJob
<1>3. job[r].range = range /\ Taken(lo) /\ lo \in Pfn /\ lo \in Closing
  BY <1>0, <1>2, JobRange, HomeBounds DEF BlocksHeld, Taken, Closing
<1>4. ASSUME NEW q \in Rq
      PROVE  Unmapping(q)' = Unmapping(q) /\ (Unmapping(q) => job'[q].range = job[q].range)
  <2>1. CASE q # r
    BY <1>0, <1>1, <2>1 DEF JobTypeOK, Unmapping
  <2>2. CASE q = r
    <3>1. job'[r] = [job[r] EXCEPT !.stage = "free"]
      BY <1>0, <1>1 DEF JobTypeOK
    <3> QED BY <1>0, <1>1, <2>2, <3>1 DEF JobTypeOK, Jobs, Unmapping, NoJob
  <2> QED BY <2>1, <2>2
<1>5. /\ BasesIn("filling")' = BasesIn("filling") /\ BasesIn("posted")' = BasesIn("posted")
      /\ Closing' = Closing
  BY <1>1, <1>4, HoldersStay
<1> HIDE DEF lo
<1>6. \A a \in Pfn : Seen(a)' = IF a \in Span(range) THEN NoPage ELSE Seen(a)
  <2>1. \A a \in Pfn : a \in Span(job[r].range) => pt[a] = NoPage
    BY <1>2, JobSpan
  <2>2. \A a \in Pfn : a \in Span(range) => pt[a] = NoPage
    BY <1>3, <2>1
  <2>3. \A a \in Pfn : pt'[a] = pt[a] /\ iotlb'[a] = IF a \in Span(range) THEN NoPage ELSE iotlb[a]
    BY <1>1, <1>3
  <2> QED BY <2>2, <2>3 DEF Seen
<1>7. Strict!Revoke(lo)
  BY <1>0, <1>1, <1>3, <1>5, <1>6, Revokes
<1> QED BY <1>3, <1>7

\* Nothing is left of a range whose invalidation has completed.
LEMMA ReturnReleases ==
  ASSUME FullInv, NEW r \in Rq, ReturnIova(r)
  PROVE  \E lo \in Pfn, page \in Page : Strict!Release(lo, page)
<1> DEFINE lo == job[r].range.lo
           m == job[r].page
<1>0. JobTypeOK /\ BlocksHeld /\ OneHolder /\ JobIsBatch /\ AllOne /\ OwnedArePages
  BY StrictFacts
<1>1. /\ job[r].stage = "free" /\ Unmapping(r) /\ job' = [job EXCEPT ![r] = NoJob]
      /\ GiveTo(r, job[r].page, job[r].to)
      /\ UNCHANGED <<wqe, iovaBase, pt, iotlb>>
  BY DEF ReturnIova, Unmapping, NoJob, iommuVars, slotVars
<1>2. /\ job[r].range = [lo |-> lo, n |-> PagesPerWqe] /\ Taken(lo) /\ lo \in Pfn /\ lo \in Closing
      /\ m \in Page /\ kernel' = kernel \cup {m}
  BY <1>0, <1>1, JobRange, HomeBounds DEF BlocksHeld, Taken, Closing, GiveTo
<1>3. ~ Unmapping(r)' /\ \A q \in Rq \ {r} : job'[q] = job[q] /\ Unmapping(q)' = Unmapping(q)
  BY <1>0, <1>1 DEF JobTypeOK, Unmapping
<1>4. m \notin kernel /\ \A v \in Wqe : \A j \in OwnedSlots(v) : di[v][j].page # m
  <2>1. At(m, "job", r, 0) /\ One(m)
    BY <1>0, <1>1, <1>2 DEF At, AllOne, Unmapping
  <2>2. m \in kernel => At(m, "kernel", 0, 0)
    BY DEF At
  <2>3. \A v \in Wqe : \A j \in OwnedSlots(v) : di[v][j].page = m => At(m, "slot", v, j)
    BY DEF At
  <2>4. "job" \in Kind /\ "kernel" \in Kind /\ "slot" \in Kind /\ "job" # "kernel" /\ "job" # "slot"
    BY DEF Kind
  <2> HIDE DEF m
  <2> QED BY <2>1, <2>2, <2>3, <2>4, TwoPlaces
<1>5. /\ BasesIn("filling")' = BasesIn("filling") /\ BasesIn("posted")' = BasesIn("posted")
      /\ BasesIn("freeing")' = BasesIn("freeing")
  BY <1>1, BasesStay
<1>6. Closing' = Closing \ {lo}
  <2>1. \A w \in Wqe : wqe[w] = "freeing" => iovaBase[w] # lo
    BY <1>0, <1>1 DEF OneHolder, Active
  <2>2. \A q \in Rq : Unmapping(q) /\ q # r => job[q].range.lo # lo
    BY <1>0, <1>1 DEF OneHolder
  <2> DEFINE U == {q \in Rq : Unmapping(q)}
  <2>3. U' = U \ {r} /\ \A q \in U' : job'[q].range.lo = job[q].range.lo
    BY <1>3
  <2>4. Closing = BasesIn("freeing") \cup {job[q].range.lo : q \in U}
    BY DEF Closing
  <2>5. Closing' = BasesIn("freeing") \cup {job'[q].range.lo : q \in U'}
    BY <1>5 DEF Closing
  <2>6. lo \notin BasesIn("freeing") /\ \A q \in U : q # r => job[q].range.lo # lo
    BY <2>1, <2>2 DEF BasesIn
  <2> HIDE DEF U
  <2>7. \A x : x \in Closing' <=> x \in Closing /\ x # lo
    BY <2>3, <2>4, <2>5, <2>6
  <2> QED BY <2>7
<1> HIDE DEF lo, m
<1>7. ASSUME NEW a \in Span(Strict!Batch(lo)) PROVE [b \in Pfn |-> Seen(b)][a] = NoPage
  <2>1. a \in Span(job[r].range) /\ a \in Pfn
    <3>1. a - lo \in Slots /\ lo + (a - lo) = a
      BY <1>2, <1>7, SameSpace, StrictFacts, MaxPfnAssumption DEF Span, Slots, Pfn
    <3> QED BY <1>2, <1>7, <3>1, TakenRange, SameSpace
  <2>2. /\ pt[a] = NoPage /\ \A q \in Rq \ {r} : Unmapping(q) => a \notin Span(job[q].range)
    BY <1>1, <2>1, JobSpan
  <2>3. iotlb[a] = NoPage
    BY <1>1, <2>1, <2>2, ReachedFrom
  <2> QED BY <2>1, <2>2, <2>3 DEF Seen
<1>8. \A a \in Strict!Pfn : [b \in Pfn |-> Seen(b)][a] = m => Strict!InClosing(a)
  BY <1>2, <1>4, PageAssumption, SeenClosing, SameSpace
<1>9. m \in Page \ kernel /\ (Page \ kernel)' = (Page \ kernel) \ {m}
  BY <1>2, <1>4
<1>10. [a \in Pfn |-> Seen(a)]' = [a \in Pfn |-> Seen(a)]
  BY <1>1, SeenStays
<1>11. Strict!Release(lo, m)
  BY <1>2, <1>5, <1>6, <1>7, <1>8, <1>9, <1>10, SameSpace DEF Strict!Release, Strict!GoesBack
<1> QED BY <1>2, <1>11

\* A step that moves no page, no batch and nothing the device sees is not seen.
LEMMA Unseen ==
  ASSUME UNCHANGED <<wqe, iovaBase, job, kernel>>, \A a \in Pfn : Seen(a)' = Seen(a)
  PROVE  UNCHANGED Strict!dmaVars
<1>1. /\ BasesIn("filling")' = BasesIn("filling") /\ BasesIn("posted")' = BasesIn("posted")
      /\ Closing' = Closing
  BY HoldersStay DEF Unmapping
<1>2. [a \in Pfn |-> Seen(a)]' = [a \in Pfn |-> Seen(a)]
  OBVIOUS
<1> QED BY <1>1, <1>2 DEF Strict!dmaVars

\* Such are the device's accesses, a queue's closing and opening, and the
\* allocator's own steps.
LEMMA OthersUnseen ==
  ASSUME FullInv,
         \/ \E r \in Rq : CloseRq(r) \/ ReopenRq(r)
         \/ \E a \in Pfn : DeviceAccess(a)
         \/ Spill
         \/ UNCHANGED vars
  PROVE  UNCHANGED Strict!dmaVars
<1>0. NothingShared /\ IommuTypeOK
  BY StrictFacts
<1>1. UNCHANGED <<wqe, iovaBase, job, pt>>
  BY DEF CloseRq, ReopenRq, DeviceAccess, DeviceTranslate, Spill, vars, slotVars, iommuVars
<1>2. kernel' = kernel
  BY <1>0 DEF CloseRq, ReopenRq, DeviceAccess, Spill, vars, pageVars, NothingShared
<1>3. iotlb' = iotlb \/ \E a \in Pfn : iotlb[a] = NoPage /\ iotlb' = [iotlb EXCEPT ![a] = pt[a]]
  BY DEF CloseRq, ReopenRq, DeviceAccess, DeviceTranslate, Spill, vars, iommuVars
<1>4. \A a \in Pfn : Seen(a)' = Seen(a)
  BY <1>0, <1>1, <1>3 DEF Seen, IommuTypeOK
<1> QED BY <1>1, <1>2, <1>4, Unseen

\* Every step is one of StrictDma's or changes nothing of its state.
LEMMA StrictStep == FullInv /\ [Next]_vars => [Strict!DmaNext]_Strict!dmaVars
<1> SUFFICES ASSUME FullInv, [Next]_vars PROVE Strict!DmaNext \/ UNCHANGED Strict!dmaVars
  OBVIOUS
<1>0. Strict!Pfn = Pfn
  BY SameSpace
<1>1. ASSUME NEW r \in Rq, Continue(r) PROVE Strict!DmaNext
  <2>1. CASE SyncIotlb(r)
    BY <1>0, <2>1, SyncRevokes DEF Strict!DmaNext
  <2>2. CASE ReturnIova(r)
    BY <1>0, <2>2, ReturnReleases DEF Strict!DmaNext
  <2>3. ASSUME NEW w \in Wqe, FillFromPool(w) PROVE Strict!DmaNext
    BY <1>0, <2>3, FillMapsStrictly DEF Strict!DmaNext
  <2>4. ASSUME NEW w \in Wqe, PostWqe(w) PROVE Strict!DmaNext
    BY <1>0, <2>4, PostPosts DEF Strict!DmaNext
  <2>5. ASSUME NEW w \in Wqe, FreeSlot(w) PROVE Strict!DmaNext
    BY <2>5, FreeReturns DEF Strict!DmaNext
  <2>6. ASSUME NEW w \in Wqe, FreeLast(w) PROVE Strict!DmaNext
    BY <1>0, <2>6, LastRevokes DEF Strict!DmaNext
  <2>7. ASSUME NEW w \in Wqe,
               \/ FillFromCache(w) \/ FillFromPool(w) \/ FillNoPage(w) \/ FillMapFails(w)
               \/ PostWqe(w) \/ UnwindSlot(w) \/ UnwindDone(w)
               \/ FreeSlot(w) \/ FreeSkip(w) \/ FreeLast(w) \/ FreeSkipLast(w)
        PROVE  Strict!DmaNext
    BY <2>3, <2>4, <2>5, <2>6, <2>7, NeverFills, NeverShares
  <2> QED BY <1>1, <2>1, <2>2, <2>7 DEF Continue
<1>2. ASSUME NEW r \in Rq, Begin(r) PROVE Strict!DmaNext \/ UNCHANGED Strict!dmaVars
  <2>1. ASSUME NEW w \in Wqe, AllocStart(w) PROVE Strict!DmaNext
    BY <1>0, <2>1, AllocOpens DEF Strict!DmaNext
  <2>2. ASSUME NEW w \in Wqe, FreeStart(w) PROVE Strict!DmaNext
    BY <1>0, <2>2, FreeCloses DEF Strict!DmaNext
  <2>3. CASE CloseRq(r) \/ ReopenRq(r)
    BY <2>3, OthersUnseen
  <2>4. \/ \E w \in Wqe : AllocStart(w) \/ FreeStart(w)
        \/ CloseRq(r) \/ ReopenRq(r)
    BY <1>2, NeverShares DEF Begin
  <2> QED BY <2>1, <2>2, <2>3, <2>4
<1>3. CASE (\E a \in Pfn : DeviceAccess(a)) \/ Spill \/ UNCHANGED vars
  BY <1>3, OthersUnseen
<1> QED BY <1>1, <1>2, <1>3 DEF Next

\* A driver that has just started holds nothing.
LEMMA StrictInit == Init => Strict!DmaInit
<1> SUFFICES ASSUME Init PROVE Strict!DmaInit
  OBVIOUS
<1>1. /\ \A w \in Wqe : wqe[w] = "empty"
      /\ \A r \in Rq : ~ Unmapping(r)
      /\ \A a \in Pfn : Seen(a) = NoPage
      /\ kernel = Page
  BY DEF Init, IommuInit, Unmapping, Seen
<1>2. BasesIn("filling") = {} /\ BasesIn("posted") = {} /\ BasesIn("freeing") = {}
  BY <1>1 DEF BasesIn
<1>3. Closing = {}
  BY <1>1, <1>2 DEF Closing
<1> QED BY <1>1, <1>2, <1>3, SameSpace DEF Strict!DmaInit

\* The receive path implements batched strict protection, whatever the numbers
\* of queues, descriptors, pages of a descriptor and IOVAs.
THEOREM RxKeepsStrictPromise == Spec => KeepsStrictPromise
<1> QED BY StrictInit, StrictStep, FullInvariant, PTL DEF Spec, KeepsStrictPromise, Strict!DmaSpec

----------------------------------------------------------------------------
(***************************************************************************)
(* What StrictDma promises holds in all its behaviours, whoever implements *)
(* it.  The argument needs besides that no batch is in two phases and that *)
(* every batch lies in the address space.                                  *)
(***************************************************************************)
BatchAt(lo) == [lo |-> lo, n |-> PagesPerWqe]
InBatch(a, lo) == a \in Span(BatchAt(lo))

\* B are the batches being built, P those posted and C those being closed ...
BatchesOK(B, P, C) ==
  /\ \A lo \in B \cup P \cup C : lo \in Pfn /\ BatchAt(lo) \in Ranges
  /\ \A lo, h \in B \cup P \cup C : lo # h => Apart(BatchAt(lo), BatchAt(h))
  /\ B \cap P = {} /\ B \cap C = {} /\ P \cap C = {}

\* ... R is what the device reaches and D what the driver has.
ReachOK(B, P, C, R, D) ==
  /\ \A a \in Pfn : R[a] # NoPage => \E lo \in B \cup P \cup C : InBatch(a, lo)
  /\ \A lo \in P : \A a \in Span(BatchAt(lo)) : R[a] \in D
  /\ \A a \in Pfn : R[a] \in Page \ D => \E lo \in C : InBatch(a, lo)

DmaInv ==
  /\ BatchesOK(BasesIn("filling"), BasesIn("posted"), Closing)
  /\ ReachOK(BasesIn("filling"), BasesIn("posted"), Closing, [a \in Pfn |-> Seen(a)], Page \ kernel)

\* It says what StrictDma calls Protected.
LEMMA DmaInvProtects == DmaInv => Strict!Protected
<1> SUFFICES ASSUME DmaInv PROVE Strict!Protected
  OBVIOUS
<1>1. \A lo : Strict!Batch(lo) = BatchAt(lo)
  BY SameSpace DEF BatchAt
<1> DEFINE R == [a \in Pfn |-> Seen(a)]
           D == Page \ kernel
<1> HIDE DEF R, D
<1>2. BatchesOK(BasesIn("filling"), BasesIn("posted"), Closing)
      /\ ReachOK(BasesIn("filling"), BasesIn("posted"), Closing, R, D)
  BY DEF DmaInv, R, D
<1>3. \A lo, h \in Strict!Held : lo # h => Strict!Apart(Strict!Batch(lo), Strict!Batch(h))
  BY <1>1, <1>2, SameSpace DEF BatchesOK, Strict!Held
<1>4. \A a \in Strict!Pfn : R[a] # NoPage => \E lo \in Strict!Held : a \in Strict!Span(Strict!Batch(lo))
  BY <1>1, <1>2, SameSpace DEF ReachOK, InBatch, Strict!Held
<1>5. \A lo \in BasesIn("posted") : \A a \in Strict!Span(Strict!Batch(lo)) : R[a] \in D
  BY <1>1, <1>2, SameSpace DEF ReachOK
<1>6. \A a \in Strict!Pfn : R[a] \in Page \ D => Strict!InClosing(a)
  BY <1>1, <1>2, SameSpace DEF ReachOK, InBatch, Strict!InClosing
<1> QED BY <1>3, <1>4, <1>5, <1>6 DEF Strict!Protected, R, D

\* The page frames of a batch, and no page frame is in two.
LEMMA BatchSpan ==
  ASSUME NEW B, NEW P, NEW C, BatchesOK(B, P, C), NEW lo \in B \cup P \cup C, NEW a, InBatch(a, lo)
  PROVE  a \in Pfn /\ \A h \in B \cup P \cup C : InBatch(a, h) => h = lo
<1>1. lo \in Nat /\ lo >= 1 /\ BatchAt(lo) \in Ranges /\ PagesPerWqe \in Nat /\ MaxPfn \in Nat
  BY BlockSize, MaxPfnAssumption DEF BatchesOK, Pfn
<1>2. a \in Int /\ lo <= a /\ a < lo + PagesPerWqe /\ lo + PagesPerWqe <= MaxPfn + 1
  BY <1>1 DEF InBatch, BatchAt, Span, Ranges
<1>3. a \in Pfn
  BY <1>1, <1>2 DEF Pfn
<1>4. ASSUME NEW h \in B \cup P \cup C, InBatch(a, h) PROVE h = lo
  <2>1. h \in Nat /\ h <= a /\ a < h + PagesPerWqe
    <3>1. h \in Nat
      BY DEF BatchesOK, Pfn
    <3> QED BY <1>1, <1>4, <3>1 DEF InBatch, BatchAt, Span
  <2>2. ~ Apart(BatchAt(lo), BatchAt(h))
    BY <1>1, <1>2, <2>1 DEF Apart, BatchAt
  <2> QED BY <1>4, <2>2 DEF BatchesOK
<1> QED BY <1>3, <1>4

\* A new batch, apart from the others.
LEMMA OpenKeeps ==
  ASSUME NEW B, NEW P, NEW C, NEW R, NEW D, BatchesOK(B, P, C), ReachOK(B, P, C, R, D),
         NEW lo \in Pfn, BatchAt(lo) \in Ranges,
         \A h \in B \cup P \cup C : Apart(BatchAt(lo), BatchAt(h))
  PROVE  BatchesOK(B \cup {lo}, P, C) /\ ReachOK(B \cup {lo}, P, C, R, D)
<1>1. lo \notin B \cup P \cup C
  <2>1. PagesPerWqe \in Nat /\ PagesPerWqe > 0
    BY BlockSize DEF Pfn
  <2>2. ~ Apart(BatchAt(lo), BatchAt(lo))
    BY <2>1 DEF Apart, BatchAt, Pfn
  <2> QED BY <2>2
<1>2. \A h \in B \cup P \cup C : Apart(BatchAt(h), BatchAt(lo))
  BY DEF Apart
<1>3. BatchesOK(B \cup {lo}, P, C)
  BY <1>1, <1>2 DEF BatchesOK
<1>4. ReachOK(B \cup {lo}, P, C, R, D)
  BY DEF ReachOK
<1> QED BY <1>3, <1>4

\* A page mapped in a batch being built.
LEMMA MapKeeps ==
  ASSUME NEW B, NEW P, NEW C, NEW R, NEW D, BatchesOK(B, P, C), ReachOK(B, P, C, R, D),
         DOMAIN R = Pfn, NoPage \notin D,
         NEW lo \in B, NEW a \in Span(BatchAt(lo)), R[a] = NoPage, NEW page \in Page \ D
  PROVE  ReachOK(B, P, C, [R EXCEPT ![a] = page], D \cup {page})
<1> DEFINE Q == [R EXCEPT ![a] = page]
           E == D \cup {page}
<1>1. a \in Pfn
  BY BatchSpan DEF InBatch
<1>2. Q[a] = page /\ \A b \in Pfn \ {a} : Q[b] = R[b]
  BY <1>1
<1>3. ASSUME NEW b \in Pfn, Q[b] # NoPage PROVE \E h \in B \cup P \cup C : InBatch(b, h)
  <2>1. CASE b = a
    BY <2>1 DEF InBatch
  <2>2. CASE b # a
    BY <1>2, <1>3, <2>2 DEF ReachOK
  <2> QED BY <2>1, <2>2
<1>4. ASSUME NEW h \in P, NEW b \in Span(BatchAt(h)) PROVE Q[b] \in E
  <2>1. b \in Pfn
    BY <1>4, BatchSpan DEF InBatch
  <2>2. R[b] \in D
    BY DEF ReachOK
  <2> QED BY <1>2, <2>1, <2>2
<1>5. ASSUME NEW b \in Pfn, Q[b] \in Page \ E PROVE \E h \in C : InBatch(b, h)
  <2>1. b # a
    BY <1>2, <1>5
  <2> QED BY <1>2, <1>5, <2>1 DEF ReachOK
<1> HIDE DEF Q, E
<1>6. ReachOK(B, P, C, Q, E)
  BY <1>3, <1>4, <1>5 DEF ReachOK
<1> QED BY <1>6 DEF Q, E

\* A batch that shows pages of the driver only is posted.
LEMMA PostKeeps ==
  ASSUME NEW B, NEW P, NEW C, NEW R, NEW D, BatchesOK(B, P, C), ReachOK(B, P, C, R, D),
         NEW lo \in B, \A a \in Span(BatchAt(lo)) : R[a] \in D
  PROVE  BatchesOK(B \ {lo}, P \cup {lo}, C) /\ ReachOK(B \ {lo}, P \cup {lo}, C, R, D)
<1>1. (B \ {lo}) \cup (P \cup {lo}) \cup C = B \cup P \cup C
  OBVIOUS
<1>2. BatchesOK(B \ {lo}, P \cup {lo}, C)
  BY <1>1 DEF BatchesOK
<1>3. ReachOK(B \ {lo}, P \cup {lo}, C, R, D)
  BY <1>1 DEF ReachOK
<1> QED BY <1>2, <1>3

\* A posted batch is closed: the pages it shows may go back from now on.
LEMMA CloseKeeps ==
  ASSUME NEW B, NEW P, NEW C, NEW R, NEW D, BatchesOK(B, P, C), ReachOK(B, P, C, R, D),
         NEW lo \in P
  PROVE  BatchesOK(B, P \ {lo}, C \cup {lo}) /\ ReachOK(B, P \ {lo}, C \cup {lo}, R, D)
<1>1. B \cup (P \ {lo}) \cup (C \cup {lo}) = B \cup P \cup C
  OBVIOUS
<1>2. BatchesOK(B, P \ {lo}, C \cup {lo})
  BY <1>1 DEF BatchesOK
<1>3. ReachOK(B, P \ {lo}, C \cup {lo}, R, D)
  BY <1>1 DEF ReachOK
<1> QED BY <1>2, <1>3

\* A page that goes back is in no posted batch: it is seen in closing ones only.
LEMMA BackKeeps ==
  ASSUME NEW B, NEW P, NEW C, NEW R, NEW D, BatchesOK(B, P, C), ReachOK(B, P, C, R, D),
         NEW page, \A a \in Pfn : R[a] = page => \E lo \in C : InBatch(a, lo)
  PROVE  ReachOK(B, P, C, R, D \ {page})
<1>1. ASSUME NEW lo \in P, NEW a \in Span(BatchAt(lo)) PROVE R[a] \in D \ {page}
  <2>1. R[a] \in D
    BY DEF ReachOK
  <2>2. a \in Pfn /\ \A h \in C : InBatch(a, h) => h = lo
    BY BatchSpan DEF InBatch
  <2>3. lo \notin C
    BY DEF BatchesOK
  <2> QED BY <2>1, <2>2, <2>3
<1>2. \A a \in Pfn : R[a] \in Page \ (D \ {page}) => \E lo \in C : InBatch(a, lo)
  BY DEF ReachOK
<1>3. \A a \in Pfn : R[a] # NoPage => \E lo \in B \cup P \cup C : InBatch(a, lo)
  BY DEF ReachOK
<1> QED BY <1>1, <1>2, <1>3 DEF ReachOK

\* Some of a batch being closed is out of reach.
LEMMA RevokeKeeps ==
  ASSUME NEW B, NEW P, NEW C, NEW R, NEW D, BatchesOK(B, P, C), ReachOK(B, P, C, R, D),
         NoPage \notin Page, NEW lo \in C, NEW Q,
         \A a \in Pfn : Q[a] = R[a] \/ (a \in Span(BatchAt(lo)) /\ Q[a] = NoPage)
  PROVE  ReachOK(B, P, C, Q, D)
<1>1. ASSUME NEW h \in P, NEW a \in Span(BatchAt(h)) PROVE Q[a] \in D
  <2>1. R[a] \in D
    BY DEF ReachOK
  <2>2. a \in Pfn /\ (InBatch(a, lo) => lo = h)
    BY BatchSpan DEF InBatch
  <2>3. lo # h
    BY DEF BatchesOK
  <2> QED BY <2>1, <2>2, <2>3 DEF InBatch
<1>2. \A a \in Pfn : Q[a] \in Page \ D => \E h \in C : InBatch(a, h)
  BY DEF ReachOK
<1>3. \A a \in Pfn : Q[a] # NoPage => \E h \in B \cup P \cup C : InBatch(a, h)
  BY DEF ReachOK
<1> QED BY <1>1, <1>2, <1>3 DEF ReachOK

\* Nothing is reached in a batch that is released.
LEMMA ReleaseKeeps ==
  ASSUME NEW B, NEW P, NEW C, NEW R, NEW D, BatchesOK(B, P, C), ReachOK(B, P, C, R, D),
         NoPage \notin Page, NEW lo \in C, \A a \in Span(BatchAt(lo)) : R[a] = NoPage
  PROVE  BatchesOK(B, P, C \ {lo}) /\ ReachOK(B, P, C \ {lo}, R, D)
<1>1. BatchesOK(B, P, C \ {lo})
  BY DEF BatchesOK
<1>2. \A a \in Pfn : R[a] # NoPage => \E h \in B \cup P \cup (C \ {lo}) : InBatch(a, h)
  BY DEF ReachOK, InBatch
<1>3. \A a \in Pfn : R[a] \in Page \ D => \E h \in C \ {lo} : InBatch(a, h)
  BY DEF ReachOK, InBatch
<1>4. \A h \in P : \A a \in Span(BatchAt(h)) : R[a] \in D
  BY DEF ReachOK
<1> QED BY <1>1, <1>2, <1>3, <1>4 DEF ReachOK

\* What StrictDma's operators say, in the terms of the lemmas.
LEMMA StrictTerms ==
  /\ \A lo : Strict!Batch(lo) = BatchAt(lo)
  /\ \A lo : Strict!Span(Strict!Batch(lo)) = Span(BatchAt(lo))
  /\ \A a : Strict!InClosing(a) <=> \E lo \in Closing : InBatch(a, lo)
<1>1. \A lo : Strict!Batch(lo) = BatchAt(lo)
  BY SameSpace DEF BatchAt
<1> QED BY <1>1, SameSpace DEF Strict!InClosing, InBatch

\* There are no batches to begin with.
LEMMA DmaInvInit == Strict!DmaInit => DmaInv
<1> SUFFICES ASSUME Strict!DmaInit PROVE DmaInv
  OBVIOUS
<1> DEFINE R == [a \in Pfn |-> Seen(a)]
<1>1. /\ BasesIn("filling") = {} /\ BasesIn("posted") = {} /\ Closing = {}
      /\ \A a \in Pfn : R[a] = NoPage
  BY SameSpace DEF Strict!DmaInit
<1> HIDE DEF R
<1>2. BatchesOK({}, {}, {}) /\ ReachOK({}, {}, {}, R, Page \ kernel)
  BY <1>1, PageAssumption DEF BatchesOK, ReachOK
<1> QED BY <1>1, <1>2 DEF DmaInv, R

\* Every step of StrictDma keeps the invariant.
LEMMA DmaInvNext == DmaInv /\ [Strict!DmaNext]_Strict!dmaVars => DmaInv'
<1> SUFFICES ASSUME DmaInv, Strict!DmaNext \/ UNCHANGED Strict!dmaVars PROVE DmaInv'
  OBVIOUS
<1> DEFINE B == BasesIn("filling")
           P == BasesIn("posted")
           C == Closing
           R == [a \in Pfn |-> Seen(a)]
           D == Page \ kernel
<1>1. BatchesOK(B, P, C) /\ ReachOK(B, P, C, R, D) /\ DOMAIN R = Pfn
      /\ NoPage \notin D /\ NoPage \notin Page
  BY PageAssumption DEF DmaInv
<1>2. SUFFICES BatchesOK(B', P', C') /\ ReachOK(B', P', C', R', D')
  BY DEF DmaInv
<1>3. Strict!Pfn = Pfn
  BY SameSpace
<1>4. ASSUME NEW lo \in Pfn, Strict!Open(lo)
      PROVE  BatchesOK(B', P', C') /\ ReachOK(B', P', C', R', D')
  <2>1. /\ BatchAt(lo) \in Ranges /\ \A h \in B \cup P \cup C : Apart(BatchAt(lo), BatchAt(h))
        /\ B' = B \cup {lo} /\ P' = P /\ C' = C /\ R' = R /\ D' = D
    BY <1>4, SameSpace, StrictTerms DEF Strict!Open, Strict!Held
  <2> HIDE DEF B, P, C, R, D
  <2> QED BY <1>1, <2>1, OpenKeeps
<1>5. ASSUME NEW lo \in Pfn, NEW a \in Pfn, NEW page \in Page, Strict!Map(lo, a, page)
      PROVE  BatchesOK(B', P', C') /\ ReachOK(B', P', C', R', D')
  <2>1. /\ lo \in B /\ a \in Span(BatchAt(lo)) /\ R[a] = NoPage /\ page \in Page \ D
        /\ R' = [R EXCEPT ![a] = page] /\ D' = D \cup {page}
        /\ B' = B /\ P' = P /\ C' = C
    BY <1>5, StrictTerms DEF Strict!Map
  <2> HIDE DEF B, P, C, R, D
  <2> QED BY <1>1, <2>1, MapKeeps
<1>6. ASSUME NEW lo \in Pfn, Strict!Post(lo)
      PROVE  BatchesOK(B', P', C') /\ ReachOK(B', P', C', R', D')
  <2>1. /\ lo \in B /\ \A a \in Span(BatchAt(lo)) : R[a] \in D
        /\ B' = B \ {lo} /\ P' = P \cup {lo} /\ C' = C /\ R' = R /\ D' = D
    BY <1>6, StrictTerms DEF Strict!Post
  <2> HIDE DEF B, P, C, R, D
  <2> QED BY <1>1, <2>1, PostKeeps
<1>7. ASSUME NEW lo \in Pfn, Strict!Close(lo)
      PROVE  BatchesOK(B', P', C') /\ ReachOK(B', P', C', R', D')
  <2>1. lo \in P /\ B' = B /\ P' = P \ {lo} /\ C' = C \cup {lo} /\ R' = R /\ D' = D
    BY <1>7 DEF Strict!Close
  <2> HIDE DEF B, P, C, R, D
  <2> QED BY <1>1, <2>1, CloseKeeps
<1>8. ASSUME NEW page, Strict!ReturnPage(page)
      PROVE  BatchesOK(B', P', C') /\ ReachOK(B', P', C', R', D')
  <2>1. /\ \A a \in Pfn : R[a] = page => \E lo \in C : InBatch(a, lo)
        /\ D' = D \ {page} /\ B' = B /\ P' = P /\ C' = C /\ R' = R
    BY <1>3, <1>8, StrictTerms DEF Strict!ReturnPage, Strict!GoesBack
  <2> HIDE DEF B, P, C, R, D
  <2> QED BY <1>1, <2>1, BackKeeps
<1>9. ASSUME NEW lo \in Pfn, Strict!Revoke(lo)
      PROVE  BatchesOK(B', P', C') /\ ReachOK(B', P', C', R', D')
  <2>1. /\ lo \in C /\ B' = B /\ P' = P /\ C' = C /\ D' = D
        /\ \A a \in Pfn : R'[a] = R[a] \/ (a \in Span(BatchAt(lo)) /\ R'[a] = NoPage)
    BY <1>3, <1>9, StrictTerms DEF Strict!Revoke
  <2> HIDE DEF B, P, C, R, D
  <2> QED BY <1>1, <2>1, RevokeKeeps
<1>10. ASSUME NEW lo \in Pfn, NEW page \in Page, Strict!Release(lo, page)
       PROVE  BatchesOK(B', P', C') /\ ReachOK(B', P', C', R', D')
  <2>1. /\ lo \in C /\ \A a \in Span(BatchAt(lo)) : R[a] = NoPage
        /\ \A a \in Pfn : R[a] = page => \E h \in C : InBatch(a, h)
        /\ B' = B /\ P' = P /\ C' = C \ {lo} /\ R' = R /\ D' = D \ {page}
    BY <1>3, <1>10, StrictTerms DEF Strict!Release, Strict!GoesBack
  <2> HIDE DEF B, P, C, R, D
  <2>2. ReachOK(B, P, C, R, D \ {page})
    BY <1>1, <2>1, BackKeeps
  <2> QED BY <1>1, <2>1, <2>2, ReleaseKeeps
<1>11. CASE UNCHANGED Strict!dmaVars
  <2>1. B' = B /\ P' = P /\ C' = C /\ R' = R /\ D' = D
    BY <1>11 DEF Strict!dmaVars
  <2> HIDE DEF B, P, C, R, D
  <2> QED BY <1>1, <2>1
<1> HIDE DEF B, P, C, R, D
<1> QED BY <1>3, <1>4, <1>5, <1>6, <1>7, <1>8, <1>9, <1>10, <1>11 DEF Strict!DmaNext

\* Whatever implements StrictDma is protected: no page frame is in two batches,
\* a posted batch shows pages of the driver only, and a page that has left the
\* driver is seen through a batch being closed and no other.
THEOREM StrictDmaProtects == KeepsStrictPromise => []Strict!Protected
<1> QED BY DmaInvInit, DmaInvNext, DmaInvProtects, PTL DEF KeepsStrictPromise, Strict!DmaSpec

\* The device, with the entries its IOTLB still has, reaches a page the driver
\* has given back through a batch being closed, or not at all; and no addresses
\* are handed out while it can still reach anything through them.
THEOREM RxStrictlyProtected == Spec => []Strict!Protected
<1> QED BY RxKeepsStrictPromise, StrictDmaProtects, PTL
============================================================================
