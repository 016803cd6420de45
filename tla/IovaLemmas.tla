---------------------------- MODULE IovaLemmas -----------------------------
(***************************************************************************)
(* Facts about the operators of IovaDomain, for every address space and    *)
(* every largest cached class.                                             *)
(***************************************************************************)
EXTENDS IovaDomain, FiniteSetTheorems, TLAPS

\* A non-empty set of naturals has a least element: its initial segments are
\* ordered by strict inclusion, which is well founded on finite sets.
LEMMA LeastNat ==
  ASSUME NEW T \in SUBSET Nat, T # {}
  PROVE  \E x \in T : \A y \in T : x <= y
<1> DEFINE Segments == {0..q : q \in T}
           R == StrictSubsetOrdering(Nat)
<1>1. IsWellFoundedOn(R, FiniteSubsetsOf(Nat))
  BY FS_StrictSubsetOrderingWellFounded
<1>2. \A q \in T : 0..q \in SUBSET Nat /\ IsFiniteSet(0..q)
  BY FS_Interval
<1>3. Segments \subseteq FiniteSubsetsOf(Nat) /\ Segments # {}
  BY <1>2 DEF FiniteSubsetsOf
<1>4. PICK s \in Segments : \A t \in Segments : ~ (<<t, s>> \in R)
  <2> HIDE DEF Segments, R
  <2> QED BY <1>1, <1>3, WFMin
<1>5. PICK x \in T : s = 0..x
  OBVIOUS
<1>6. ASSUME NEW y \in T, y < x PROVE FALSE
  <2>1. 0..y \in Segments
    OBVIOUS
  <2>2. 0..y \subseteq 0..x /\ x \in 0..x /\ x \notin 0..y
    BY <1>6
  <2>3. <<0..y, 0..x>> \in R
    BY <2>2, <1>2 DEF StrictSubsetOrdering
  <2> QED BY <1>4, <1>5, <2>1, <2>3
<1> QED BY <1>6

\* Rounding up a request the cache can serve finds the least power of two that
\* is large enough (roundup_pow_of_two in alloc_iova_fast).
LEMMA RoundUpLeast ==
  ASSUME NEW n \in Nat, n <= MaxCached
  PROVE  /\ RoundUp(n) \in PowersOfTwo /\ n <= RoundUp(n)
         /\ \A p \in PowersOfTwo : n <= p => RoundUp(n) <= p
         /\ MaxCached \in PowersOfTwo /\ PowersOfTwo \subseteq Nat
<1> DEFINE T == {q \in PowersOfTwo : n <= q}
<1>1. MaxCached \in PowersOfTwo /\ MaxCached \in Nat
  BY CacheAssumption, MaxPfnAssumption DEF PowersOfTwo, MaxCached, Pfn
<1>2. PowersOfTwo \subseteq Nat /\ T \in SUBSET Nat /\ MaxCached \in T
  BY <1>1, MaxPfnAssumption DEF PowersOfTwo
<1>3. PICK x \in T : \A y \in T : x <= y
  BY <1>2, LeastNat
<1>4. x \in PowersOfTwo /\ n <= x /\ \A p \in PowersOfTwo : n <= p => x <= p
  BY <1>3
<1>5. RoundUp(n) \in PowersOfTwo /\ n <= RoundUp(n) /\ \A p \in PowersOfTwo : n <= p => RoundUp(n) <= p
  BY <1>4, Zenon DEF RoundUp
<1> QED BY <1>1, <1>2, <1>5

\* It yields a class of the cache that is at least as large as the request.
LEMMA RoundUpBounds ==
  ASSUME NEW n \in Nat, n <= MaxCached
  PROVE  RoundUp(n) \in Nat /\ n <= RoundUp(n) /\ RoundUp(n) <= MaxCached
<1>1. /\ RoundUp(n) \in PowersOfTwo /\ n <= RoundUp(n)
      /\ \A p \in PowersOfTwo : n <= p => RoundUp(n) <= p
      /\ MaxCached \in PowersOfTwo /\ PowersOfTwo \subseteq Nat
  BY RoundUpLeast
<1> QED BY <1>1

\* The block asked of the tree covers the request; for a request the cache
\* serves it is exactly one class of the cache.
LEMMA AllocSizeBounds ==
  ASSUME NEW n \in Pfn
  PROVE  /\ AllocSize(n) \in Nat
         /\ n <= AllocSize(n)
         /\ Cacheable(n) => AllocSize(n) = RoundUp(n)
<1>1. n \in Nat /\ MaxCached \in Nat
  BY CacheAssumption, MaxPfnAssumption DEF Pfn
<1>2. CASE n < MaxCached
  BY <1>1, <1>2, RoundUpBounds DEF AllocSize, Cacheable
<1>3. CASE n = MaxCached
  <2>1. RoundUp(n) = n
    BY <1>1, <1>3, RoundUpBounds
  <2> QED BY <1>1, <1>3, <2>1 DEF AllocSize, Cacheable
<1>4. CASE n > MaxCached
  BY <1>1, <1>4 DEF AllocSize, Cacheable
<1> QED BY <1>1, <1>2, <1>3, <1>4

\* free_iova finds the one block a first pfn belongs to: looking up the first
\* page frames of the blocks B removes exactly B.
LEMMA WithoutBlocks ==
  ASSUME NEW S \in SUBSET Ranges, PairwiseApart(S), NEW B \in SUBSET S
  PROVE  Without(S, {e.lo : e \in B}) = S \ B
<1>1. ASSUME NEW b \in S, NEW e \in B
      PROVE  e.lo \in Span(b) <=> b = e
  BY <1>1, MaxPfnAssumption DEF Ranges, Pfn, Span, PairwiseApart, Apart
<1> QED BY <1>1 DEF Without
============================================================================
