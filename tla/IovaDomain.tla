---------------------------- MODULE IovaDomain -----------------------------
(***************************************************************************)
(* The IOVA allocator of a DMA domain as the patched kernel uses it:       *)
(* alloc_iova_fast and free_iova_fast over the red-black tree of allocated *)
(* blocks and the size-class cache ("rcache") in front of it.  The patch   *)
(* raises the largest cached class from 2^5 to 2^6 pages, so that a whole  *)
(* receive descriptor (64 pages) is served from the cache.                 *)
(*                                                                         *)
(* The per-CPU magazines and the depot are one set; which CPU a range was  *)
(* cached on only decides whether a lookup hits, and a lookup may always   *)
(* miss here.  The top-down search of the tree is "any aligned gap".       *)
(***************************************************************************)
EXTENDS IovaSpace

CONSTANT CacheMaxOrder   \* IOVA_RANGE_CACHE_MAX_SIZE

VARIABLES
  tree,     \* the blocks recorded as allocated in the red-black tree
  rcache    \* ranges freed to the cache: [lo, n], n the size class in pages

MaxCached == 2^(CacheMaxOrder - 1)

ASSUME CacheAssumption == /\ CacheMaxOrder \in 1..MaxPfn
                          /\ MaxCached \in Pfn

PowersOfTwo == {q \in 1 .. 2 * MaxPfn : \E k \in 0..MaxPfn : q = 2^k}

\* roundup_pow_of_two
RoundUp(n) == CHOOSE q \in PowersOfTwo :
                /\ n <= q
                /\ \A p \in PowersOfTwo : n <= p => q <= p

\* Slip: the request is not rounded up.
AllocSizeUnrounded(size) == size

\* The number of pages alloc_iova_fast asks the tree for.
AllocSize(size) == IF size < MaxCached THEN RoundUp(size) ELSE size

\* A request the cache serves: order_base_2(size) is a cached order.
Cacheable(size) == size <= MaxCached

\* The aligned gaps of the tree S that hold n pages.
Gaps(S, n) == {r \in Ranges : /\ r.n = n
                              /\ r.lo % RoundUp(n) = 0
                              /\ \A b \in S : Apart(r, b)}

\* free_iova for every pfn of Q: each drops the block that contains it.
Without(S, Q) == {b \in S : Span(b) \cap Q = {}}

FlushedTree == Without(tree, {e.lo : e \in rcache})

----------------------------------------------------------------------------
IovaInit == tree = {} /\ rcache = {}

\* Slip: a cached range is handed out and stays in the cache.
RcacheGetKeeping(size, lo) ==
  /\ Cacheable(size)
  /\ [lo |-> lo, n |-> RoundUp(size)] \in rcache
  /\ UNCHANGED <<tree, rcache>>

\* alloc_iova_fast served by the cache.
RcacheGet(size, lo) ==
  /\ Cacheable(size)
  /\ [lo |-> lo, n |-> RoundUp(size)] \in rcache
  /\ rcache' = rcache \ {[lo |-> lo, n |-> RoundUp(size)]}
  /\ UNCHANGED tree

\* alloc_iova_fast served by the tree after a cache miss.
TreeAlloc(size, lo) ==
  \E r \in Gaps(tree, AllocSize(size)) :
    /\ r.lo = lo
    /\ tree' = tree \cup {r}
    /\ UNCHANGED rcache

\* Slip: the flushed ranges also stay in the cache.
FlushAllocKeeping(size, lo) ==
  /\ Gaps(tree, AllocSize(size)) = {}
  /\ \E r \in Gaps(FlushedTree, AllocSize(size)) :
       /\ r.lo = lo
       /\ tree' = FlushedTree \cup {r}
  /\ UNCHANGED rcache

\* The tree is full: every cached range is given back to it, then one retry.
FlushAlloc(size, lo) ==
  /\ Gaps(tree, AllocSize(size)) = {}
  /\ \E r \in Gaps(FlushedTree, AllocSize(size)) :
       /\ r.lo = lo
       /\ tree' = FlushedTree \cup {r}
  /\ rcache' = {}

AllocIova(size, lo) ==
  RcacheGet(size, lo) \/ TreeAlloc(size, lo) \/ FlushAlloc(size, lo)

\* alloc_iova_fast returns 0: no gap, not even with the cache flushed.
AllocIovaFails(size) ==
  /\ Gaps(FlushedTree, AllocSize(size)) = {}
  /\ tree' = FlushedTree
  /\ rcache' = {}

\* Slip: the range is cached one size class too high.
RcacheInsertHigh(pfn, size) ==
  /\ Cacheable(size)
  /\ rcache' = rcache \cup {[lo |-> pfn, n |-> 2 * RoundUp(size)]}
  /\ UNCHANGED tree

\* free_iova_fast: iova_rcache_insert, or the tree when the size is not cached.
RcacheInsert(pfn, size) ==
  /\ Cacheable(size)
  /\ rcache' = rcache \cup {[lo |-> pfn, n |-> RoundUp(size)]}
  /\ UNCHANGED tree

\* Slip: the block is looked up and not removed.
TreeFreeNothing(pfn) == UNCHANGED <<tree, rcache>>

TreeFree(pfn) ==
  /\ tree' = Without(tree, {pfn})
  /\ UNCHANGED rcache

FreeIova(pfn, size) == RcacheInsert(pfn, size) \/ TreeFree(pfn)

\* One page frame is allocated and freed at once: it comes from the cache, the
\* tree or the flushed tree, and stays in the cache or goes back to the tree.
BorrowPage(lo) ==
  LET one == [lo |-> lo, n |-> 1] IN
  \/ one \in rcache \cup Gaps(tree, 1) /\ UNCHANGED <<tree, rcache>>
  \/ one \in rcache /\ tree' = Without(tree, {lo}) /\ rcache' = rcache \ {one}
  \/ one \in Gaps(tree, 1) /\ tree' = tree \cup {one} /\ rcache' = rcache \cup {one}
  \/ /\ Gaps(tree, 1) = {} /\ one \in Gaps(FlushedTree, 1)
     /\ \/ tree' = FlushedTree /\ rcache' = {}
        \/ tree' = FlushedTree \cup {one} /\ rcache' = {one}

\* A magazine is returned to the tree (a full depot, an unplugged CPU).
SpillRcache ==
  \E e \in rcache :
    /\ tree' = Without(tree, {e.lo})
    /\ rcache' = rcache \ {e}
============================================================================
