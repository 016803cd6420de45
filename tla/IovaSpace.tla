----------------------------- MODULE IovaSpace -----------------------------
(***************************************************************************)
(* The IO virtual address space of one DMA domain, in page frame numbers.  *)
(* A range is [lo |-> first pfn, n |-> number of pages].  Every module of  *)
(* the DMA path speaks of addresses through these operators.               *)
(***************************************************************************)
EXTENDS Integers

CONSTANT MaxPfn     \* the last page frame number the device can address

ASSUME MaxPfnAssumption == MaxPfn \in Nat \ {0}

\* Page frame 0 is never handed out: the code uses IOVA 0 as "no address".
Pfn == 1..MaxPfn

\* All the ranges that lie inside the address space.
Ranges == {r \in [lo : Pfn, n : Pfn] : r.lo + r.n <= MaxPfn + 1}

\* The page frames of a range.
Span(r) == r.lo .. (r.lo + r.n - 1)

\* Two ranges share no page frame.
Apart(r, s) == r.lo + r.n <= s.lo \/ s.lo + s.n <= r.lo

\* No page frame belongs to two different ranges of S.
PairwiseApart(S) == \A r, s \in S : r # s => Apart(r, s)
============================================================================
