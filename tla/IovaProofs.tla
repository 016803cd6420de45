---------------------------- MODULE IovaProofs -----------------------------
(***************************************************************************)
(* Proofs about the IOVA allocator, for every address space, every largest *)
(* cached class and every set of request sizes.                            *)
(***************************************************************************)
EXTENDS IovaUse, IovaLemmas, TLAPS

\* What a successful alloc_iova_fast does: the block of the range handed out
\* becomes an allocated, uncached block apart from every other one, and no
\* other block in use is touched or added.
LEMMA AllocEffect ==
  ASSUME TypeOK, Consistent, NEW size \in Sizes, NEW lo \in Pfn,
         AllocIova(size, lo), NEW r, r = [lo |-> lo, n |-> size]
  PROVE  /\ tree' \subseteq Ranges /\ PairwiseApart(tree') /\ rcache' \subseteq tree'
         /\ BlockOf(r) \in tree' \ rcache'
         /\ \A b \in tree \ rcache : b \in tree' \ rcache' /\ Apart(b, BlockOf(r))
         /\ tree' \ rcache' \subseteq (tree \ rcache) \cup {BlockOf(r)}
<1>0. size \in Pfn /\ AllocSize(size) \in Nat /\ size <= AllocSize(size)
  BY SizesAssumption, AllocSizeBounds
<1>1. BlockOf(r) = [lo |-> lo, n |-> AllocSize(size)]
  BY DEF BlockOf
<1>2. CASE RcacheGet(size, lo)
  <2>1. BlockOf(r) \in rcache /\ rcache' = rcache \ {BlockOf(r)} /\ tree' = tree
    BY <1>1, <1>2, <1>0, AllocSizeBounds DEF RcacheGet
  <2>2. \A b \in tree \ rcache : Apart(b, BlockOf(r))
    BY <2>1 DEF Consistent, PairwiseApart
  <2> QED BY <2>1, <2>2 DEF Consistent, TypeOK
<1>3. ASSUME NEW S \in SUBSET tree, NEW C \in SUBSET S, tree \ rcache = S \ C,
             NEW g \in Gaps(S, AllocSize(size)), g.lo = lo,
             tree' = S \cup {g}, rcache' = C
      PROVE  /\ tree' \subseteq Ranges /\ PairwiseApart(tree') /\ rcache' \subseteq tree'
             /\ BlockOf(r) \in tree' \ rcache'
             /\ \A b \in tree \ rcache : b \in tree' \ rcache' /\ Apart(b, BlockOf(r))
             /\ tree' \ rcache' \subseteq (tree \ rcache) \cup {BlockOf(r)}
  <2>1. g = BlockOf(r) /\ BlockOf(r) \in Ranges /\ \A b \in S : Apart(b, BlockOf(r))
    <3>1. g \in Ranges /\ g.n = AllocSize(size) /\ \A b \in S : Apart(g, b)
      BY <1>3, Zenon DEF Gaps
    <3>2. g = BlockOf(r)
      BY <1>1, <1>3, <3>1 DEF Ranges
    <3> QED BY <3>1, <3>2 DEF Apart
  <2>2. BlockOf(r) \notin S
    BY <2>1, <1>0, MaxPfnAssumption DEF Apart, Ranges, Pfn
  <2>3. PairwiseApart(tree')
    BY <1>3, <2>1 DEF Consistent, PairwiseApart, Apart
  <2> QED BY <1>3, <2>1, <2>2, <2>3 DEF Consistent, TypeOK
<1>4. CASE TreeAlloc(size, lo)
  <2>1. PICK g \in Gaps(tree, AllocSize(size)) : g.lo = lo /\ tree' = tree \cup {g} /\ rcache' = rcache
    BY <1>4 DEF TreeAlloc
  <2> QED BY <2>1, <1>3 DEF Consistent
<1>5. CASE FlushAlloc(size, lo)
  <2>1. FlushedTree = tree \ rcache
    BY WithoutBlocks DEF FlushedTree, TypeOK, Consistent
  <2>2. PICK g \in Gaps(tree \ rcache, AllocSize(size)) :
          g.lo = lo /\ tree' = (tree \ rcache) \cup {g} /\ rcache' = {}
    BY <1>5, <2>1 DEF FlushAlloc
  <2> QED BY <2>2, <1>3
<1> QED BY <1>2, <1>4, <1>5 DEF AllocIova

\* What free_iova_fast does to a held range: at most the block of that range
\* leaves the blocks in use, and it does leave them.
LEMMA FreeEffect ==
  ASSUME TypeOK, Consistent, NEW r \in held, FreeIova(r.lo, r.n)
  PROVE  /\ tree' \subseteq tree /\ rcache' \subseteq tree'
         /\ \A b \in tree \ rcache : b # BlockOf(r) => b \in tree' \ rcache'
         /\ tree' \ rcache' \subseteq (tree \ rcache) \ {BlockOf(r)}
<1>1. BlockOf(r) \in tree \ rcache /\ BlockOf(r).lo = r.lo
  BY DEF Consistent, BlockOf
<1>2. CASE RcacheInsert(r.lo, r.n)
  <2>1. r.n \in Pfn
    BY SizesAssumption DEF TypeOK
  <2>2. rcache' = rcache \cup {BlockOf(r)} /\ tree' = tree
    BY <1>2, <2>1, AllocSizeBounds DEF RcacheInsert, BlockOf
  <2> QED BY <1>1, <2>2 DEF Consistent
<1>3. CASE TreeFree(r.lo)
  <2>1. Without(tree, {e.lo : e \in {BlockOf(r)}}) = tree \ {BlockOf(r)}
    BY <1>1, WithoutBlocks DEF TypeOK, Consistent
  <2>2. tree' = tree \ {BlockOf(r)} /\ rcache' = rcache
    BY <1>1, <1>3, <2>1 DEF TreeFree
  <2> QED BY <1>1, <2>2 DEF Consistent
<1> QED BY <1>2, <1>3 DEF FreeIova

\* Flushing or spilling the cache leaves every block in use where it is.
LEMMA ShedEffect ==
  ASSUME TypeOK, Consistent, SpillRcache \/ \E size \in Sizes : AllocIovaFails(size)
  PROVE  /\ tree' \subseteq tree /\ rcache' \subseteq tree'
         /\ \A b \in tree \ rcache : b \in tree' \ rcache'
         /\ tree' \ rcache' \subseteq tree \ rcache
<1>1. CASE SpillRcache
  <2>1. PICK e \in rcache : tree' = Without(tree, {e.lo}) /\ rcache' = rcache \ {e}
    BY <1>1 DEF SpillRcache
  <2>2. Without(tree, {x.lo : x \in {e}}) = tree \ {e}
    BY WithoutBlocks DEF TypeOK, Consistent
  <2>3. tree' = tree \ {e}
    BY <2>1, <2>2
  <2> QED BY <2>1, <2>3 DEF Consistent
<1>2. CASE \E size \in Sizes : AllocIovaFails(size)
  <2>1. FlushedTree = tree \ rcache
    BY WithoutBlocks DEF FlushedTree, TypeOK, Consistent
  <2> QED BY <1>2, <2>1 DEF AllocIovaFails
<1> QED BY <1>1, <1>2

----------------------------------------------------------------------------
\* A new range is apart from every range held before.
LEMMA FreshRange ==
  ASSUME IInv, NEW size \in Sizes, NEW lo \in Pfn, AllocIova(size, lo)
  PROVE  LET r == [lo |-> lo, n |-> size]
         IN  r \in Ranges /\ \A h \in held : Apart(r, h)
<1> DEFINE r == [lo |-> lo, n |-> size]
<1>1. BlockOf(r) \in Ranges /\ \A b \in tree \ rcache : Apart(b, BlockOf(r))
  BY AllocEffect DEF IInv
<1>2. size \in Pfn /\ size <= AllocSize(size) /\ AllocSize(size) \in Nat
  BY SizesAssumption, AllocSizeBounds
<1>3. BlockOf(r).lo = lo /\ BlockOf(r).n = AllocSize(size)
  BY DEF BlockOf
<1>4. r \in Ranges
  BY <1>1, <1>2, <1>3, MaxPfnAssumption DEF Ranges, Pfn
<1>5. ASSUME NEW h \in held PROVE Apart(r, h)
  <2>1. Apart(BlockOf(h), BlockOf(r)) /\ BlockOf(h) \in Ranges
    BY <1>1 DEF IInv, Consistent, TypeOK
  <2>2. h \in Ranges /\ h.n \in Pfn /\ h.n <= AllocSize(h.n) /\ AllocSize(h.n) \in Nat
    BY SizesAssumption, AllocSizeBounds DEF IInv, TypeOK
  <2>3. BlockOf(h).lo = h.lo /\ BlockOf(h).n = AllocSize(h.n)
    BY DEF BlockOf
  <2> QED BY <2>1, <2>2, <2>3, <1>2, <1>3 DEF Apart, Ranges, Pfn
<1> QED BY <1>4, <1>5

LEMMA InvInit == Init => IInv
BY DEF Init, IovaInit, IInv, TypeOK, NoDoubleOwner, Consistent, PairwiseApart

LEMMA InvRequest ==
  ASSUME IInv, NEW size \in Sizes, Request(size)
  PROVE  IInv'
<1>1. PICK lo \in Pfn : AllocIova(size, lo) /\ held' = held \cup {[lo |-> lo, n |-> size]}
  BY DEF Request
<1> DEFINE r == [lo |-> lo, n |-> size]
<1>2. /\ tree' \subseteq Ranges /\ PairwiseApart(tree') /\ rcache' \subseteq tree'
      /\ BlockOf(r) \in tree' \ rcache'
      /\ \A b \in tree \ rcache : b \in tree' \ rcache'
  BY <1>1, AllocEffect DEF IInv
<1>3. r \in Ranges /\ \A h \in held : Apart(r, h)
  BY <1>1, FreshRange
<1>4. TypeOK'
  BY <1>1, <1>2, <1>3 DEF IInv, TypeOK
<1>5. NoDoubleOwner'
  <2> HIDE DEF r
  <2> QED BY <1>1, <1>3 DEF r, IInv, NoDoubleOwner, PairwiseApart, Apart
<1>6. Consistent'
  <2> HIDE DEF r
  <2>1. held' = held \cup {r}
    BY <1>1 DEF r
  <2>2. \A h \in held' : BlockOf(h) \in tree' \ rcache'
    BY <1>2, <2>1 DEF IInv, Consistent
  <2> QED BY <1>2, <2>2 DEF Consistent, BlockOf
<1> QED BY <1>4, <1>5, <1>6 DEF IInv

\* Steps that only take blocks out of use, and only those of ranges given up.
LEMMA InvShrink ==
  ASSUME IInv, tree' \subseteq tree, rcache' \subseteq tree', held' \subseteq held,
         \A h \in held' : BlockOf(h) \in tree' \ rcache'
  PROVE  IInv'
BY DEF IInv, TypeOK, NoDoubleOwner, Consistent, PairwiseApart, BlockOf

LEMMA InvRelease ==
  ASSUME IInv, NEW r \in held, Release(r)
  PROVE  IInv'
<1>1. /\ tree' \subseteq tree /\ rcache' \subseteq tree'
      /\ \A b \in tree \ rcache : b # BlockOf(r) => b \in tree' \ rcache'
  BY FreeEffect DEF Release, IInv
<1>2. ASSUME NEW h \in held' PROVE BlockOf(h) # BlockOf(r) /\ BlockOf(h) \in tree \ rcache
  <2>1. h \in held /\ h # r
    BY DEF Release
  <2>2. h.lo # r.lo
    BY <2>1, MaxPfnAssumption DEF IInv, TypeOK, NoDoubleOwner, PairwiseApart, Apart, Ranges, Pfn
  <2> QED BY <2>1, <2>2 DEF BlockOf, IInv, Consistent
<1> QED BY <1>1, <1>2, InvShrink DEF Release

LEMMA InvShed ==
  ASSUME IInv, Spill \/ \E size \in Sizes : RequestFails(size)
  PROVE  IInv'
<1>1. /\ tree' \subseteq tree /\ rcache' \subseteq tree' /\ held' = held
      /\ \A b \in tree \ rcache : b \in tree' \ rcache'
  BY ShedEffect DEF Spill, RequestFails, IInv
<1> QED BY <1>1, InvShrink DEF IInv, Consistent

LEMMA InvNext == IInv /\ [Next]_vars => IInv'
<1> SUFFICES ASSUME IInv, [Next]_vars PROVE IInv'
  OBVIOUS
<1>1. CASE \E size \in Sizes : Request(size)
  BY <1>1, InvRequest
<1>2. CASE \E r \in held : Release(r)
  BY <1>2, InvRelease
<1>3. CASE Spill \/ \E size \in Sizes : RequestFails(size)
  BY <1>3, InvShed
<1>4. CASE UNCHANGED vars
  BY <1>4 DEF vars, IInv, TypeOK, NoDoubleOwner, Consistent, PairwiseApart, BlockOf
<1> QED BY <1>1, <1>2, <1>3, <1>4 DEF Next

\* The allocator's inductive invariant: tree, cache and callers always agree.
THEOREM IovaInvariant == Spec => []IInv
<1> QED BY InvInit, InvNext, PTL DEF Spec

\* alloc_iova_fast never gives a page frame to two callers, for every address
\* space, every largest cached class and every set of request sizes.
THEOREM IovaNoDoubleOwner == Spec => []NoDoubleOwner
<1>1. IInv => NoDoubleOwner
  BY DEF IInv
<1> QED BY <1>1, IovaInvariant, PTL

\* Tree, cache and held ranges stay inside the address space.
THEOREM IovaTypeOK == Spec => []TypeOK
<1>1. IInv => TypeOK
  BY DEF IInv
<1> QED BY <1>1, IovaInvariant, PTL

\* Tree, cache and callers agree: blocks of the tree never overlap, a cached
\* range is one whole block, and a held range keeps its block out of the cache.
THEOREM IovaConsistent == Spec => []Consistent
<1>1. IInv => Consistent
  BY DEF IInv
<1> QED BY <1>1, IovaInvariant, PTL

\* One step keeps every block in use in somebody's hands.
LEMMA KeepsBlocks == IInv /\ NoLostBlock /\ [Next]_vars => NoLostBlock'
<1> SUFFICES ASSUME IInv, NoLostBlock, [Next]_vars, NEW b \in tree' \ rcache'
             PROVE  \E h \in held' : BlockOf(h) = b
  BY DEF NoLostBlock, BlockOf
<1>1. ASSUME b \in tree \ rcache, held \subseteq held' PROVE \E h \in held' : BlockOf(h) = b
  BY <1>1 DEF NoLostBlock
<1>2. ASSUME NEW size \in Sizes, Request(size) PROVE \E h \in held' : BlockOf(h) = b
  <2>1. PICK lo \in Pfn : AllocIova(size, lo) /\ held' = held \cup {[lo |-> lo, n |-> size]}
    BY <1>2 DEF Request
  <2> DEFINE r == [lo |-> lo, n |-> size]
  <2>2. b \in (tree \ rcache) \cup {BlockOf(r)}
    BY <2>1, AllocEffect DEF IInv
  <2> QED BY <2>1, <2>2, <1>1
<1>3. ASSUME NEW r \in held, Release(r) PROVE \E h \in held' : BlockOf(h) = b
  <2>1. b \in (tree \ rcache) \ {BlockOf(r)} /\ held' = held \ {r}
    BY <1>3, FreeEffect DEF Release, IInv
  <2>2. PICK h \in held : BlockOf(h) = b
    BY <2>1 DEF NoLostBlock
  <2> QED BY <2>1, <2>2
<1>4. ASSUME Spill \/ \E size \in Sizes : RequestFails(size) PROVE \E h \in held' : BlockOf(h) = b
  <2>1. b \in tree \ rcache /\ held' = held
    BY <1>4, ShedEffect DEF Spill, RequestFails, IInv
  <2> QED BY <2>1, <1>1
<1>5. CASE UNCHANGED vars
  BY <1>5, <1>1 DEF vars
<1> QED BY <1>2, <1>3, <1>4, <1>5 DEF Next

\* Nothing is lost: a block the tree records as allocated is in the cache or
\* has a holder, through rounding, caching, spilling and the flush of a full
\* space.
THEOREM IovaNoLostBlock == Spec => []NoLostBlock
<1>1. Init => NoLostBlock
  BY DEF Init, IovaInit, NoLostBlock
<1> QED BY <1>1, KeepsBlocks, IovaInvariant, PTL DEF Spec

\* The allocator with its cache implements the abstract range allocator: a
\* successful allocation grants a range apart from all held ones, a free gives
\* one back, and everything the cache does is invisible.
THEOREM IovaKeepsPromise == Spec => KeepsPromise
<1>1. Init => Promise!RangeInit
  BY DEF Init, Promise!RangeInit
<1>2. IInv /\ [Next]_vars => [Promise!RangeNext]_held
  <2> SUFFICES ASSUME IInv, [Next]_vars PROVE [Promise!RangeNext]_held
    OBVIOUS
  <2>1. ASSUME NEW size \in Sizes, Request(size) PROVE Promise!Grant
    <3>1. PICK lo \in Pfn : AllocIova(size, lo) /\ held' = held \cup {[lo |-> lo, n |-> size]}
      BY <2>1 DEF Request
    <3>2. [lo |-> lo, n |-> size] \in Ranges /\ \A h \in held : Apart([lo |-> lo, n |-> size], h)
      BY <3>1, FreshRange
    <3> QED BY <3>1, <3>2 DEF Promise!Grant, Promise!Ranges, Promise!Pfn, Promise!Apart, Ranges, Pfn, Apart
  <2>2. ASSUME NEW r \in held, Release(r) PROVE Promise!GiveBack
    BY <2>2 DEF Release, Promise!GiveBack
  <2>3. ASSUME Spill \/ (\E size \in Sizes : RequestFails(size)) \/ UNCHANGED vars
        PROVE  UNCHANGED held
    BY <2>3 DEF Spill, RequestFails, vars
  <2> QED BY <2>1, <2>2, <2>3 DEF Next, Promise!RangeNext
<1> QED BY <1>1, <1>2, IovaInvariant, PTL DEF Spec, KeepsPromise, Promise!RangeSpec
============================================================================
