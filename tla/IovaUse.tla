------------------------------ MODULE IovaUse ------------------------------
(***************************************************************************)
(* The IOVA allocator with well-behaved callers, ones that give back       *)
(* exactly the ranges they were given: the contract under which            *)
(* iommu_dma_alloc_iova and iommu_dma_free_iova are written.               *)
(***************************************************************************)
EXTENDS IovaDomain, FiniteSets

CONSTANT Sizes      \* the sizes, in pages, the callers ask for

ASSUME SizesAssumption == Sizes \subseteq Pfn

VARIABLE held       \* [lo, n]: the ranges given to callers, as asked for

vars == <<tree, rcache, held>>

Init == IovaInit /\ held = {}

Request(size) == \E lo \in Pfn :
                   /\ AllocIova(size, lo)
                   /\ held' = held \cup {[lo |-> lo, n |-> size]}

RequestFails(size) == AllocIovaFails(size) /\ UNCHANGED held

Release(r) == FreeIova(r.lo, r.n) /\ held' = held \ {r}

Spill == SpillRcache /\ UNCHANGED held

Next == \/ \E size \in Sizes : Request(size) \/ RequestFails(size)
        \/ \E r \in held : Release(r)
        \/ Spill

Spec == Init /\ [][Next]_vars

----------------------------------------------------------------------------
\* The block of the tree behind a held range.
BlockOf(r) == [lo |-> r.lo, n |-> AllocSize(r.n)]

\* Type invariant: tree, cache and held ranges lie in the address space.
TypeOK == /\ tree \subseteq Ranges
          /\ rcache \subseteq Ranges
          /\ held \subseteq {r \in Ranges : r.n \in Sizes}

\* No page frame is in the hands of two callers, whatever mix of sizes goes
\* through the cache (alloc_iova_fast rounds small sizes up so that a cached
\* range is large enough for every size of its class).
NoDoubleOwner == PairwiseApart(held)

\* The tree, the cache and the callers agree: blocks of the tree are apart,
\* a cached range is one whole block, a held range has a block of its own
\* that is not in the cache.
Consistent == /\ PairwiseApart(tree)
              /\ rcache \subseteq tree
              /\ \A r \in held : BlockOf(r) \in tree \ rcache

\* No block is lost: each one the tree records is in the cache or has a holder.
NoLostBlock == \A b \in tree \ rcache : \E r \in held : BlockOf(r) = b

\* The inductive invariant behind NoDoubleOwner and the refinement.
IInv == TypeOK /\ NoDoubleOwner /\ Consistent

\* The allocator keeps the promise of RangeAlloc to its callers.
Promise == INSTANCE RangeAlloc
KeepsPromise == Promise!RangeSpec

============================================================================
