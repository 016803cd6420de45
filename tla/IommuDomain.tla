---------------------------- MODULE IommuDomain ----------------------------
(***************************************************************************)
(* The IOMMU side of a DMA domain: the leaf entries of the IO page table,  *)
(* the IOTLB in front of it, and the map, unmap and sync calls the patched *)
(* dma-iommu.c makes.  A device access may load any present entry into the *)
(* IOTLB at any time; entries leave it only by an invalidation (an         *)
(* eviction would only make a stale entry go away sooner).                 *)
(***************************************************************************)
EXTENDS IovaSpace

CONSTANTS
  Page,     \* the physical pages receive buffers are made of
  NoPage    \* an absent entry

ASSUME PageAssumption == NoPage \notin Page

VARIABLES
  pt,       \* the leaf page-table entry of every page frame
  iotlb     \* the translation the IOTLB holds for it

iommuVars == <<pt, iotlb>>

IommuInit == /\ pt    = [a \in Pfn |-> NoPage]
             /\ iotlb = [a \in Pfn |-> NoPage]

\* iommu_iova_to_phys; an address outside the space translates to nothing.
Phys(a) == IF a \in Pfn THEN pt[a] ELSE NoPage

\* iommu_map_atomic of one page.  The walk is a compare-and-exchange: an entry
\* that is already present stays.
MapPage(a, page) ==
  /\ pt' = [pt EXCEPT ![a] = IF @ = NoPage THEN page ELSE @]
  /\ UNCHANGED iotlb

\* Slip: the last page of the range is left mapped.
UnmapFastShort(r) ==
  /\ pt' = [a \in Pfn |-> IF a \in r.lo .. (r.lo + r.n - 2) THEN NoPage ELSE pt[a]]
  /\ UNCHANGED iotlb

\* iommu_unmap_fast: clears the entries of a range, leaves the IOTLB alone.
UnmapFast(r) ==
  /\ pt' = [a \in Pfn |-> IF a \in Span(r) THEN NoPage ELSE pt[a]]
  /\ UNCHANGED iotlb

\* Slip: the last page of the range is not invalidated.
IotlbSyncShort(r) ==
  /\ iotlb' = [a \in Pfn |-> IF a \in r.lo .. (r.lo + r.n - 2) THEN NoPage ELSE iotlb[a]]
  /\ UNCHANGED pt

\* iommu_iotlb_sync: the invalidation of a range has completed.
IotlbSync(r) ==
  /\ iotlb' = [a \in Pfn |-> IF a \in Span(r) THEN NoPage ELSE iotlb[a]]
  /\ UNCHANGED pt

\* A device access to a missing entry: the walk fills the IOTLB.
DeviceTranslate(a) ==
  /\ iotlb[a] = NoPage
  /\ pt[a] # NoPage
  /\ iotlb' = [iotlb EXCEPT ![a] = pt[a]]
  /\ UNCHANGED pt

\* The device can read or write the page.
Reachable(page) == \E a \in Pfn : pt[a] = page \/ iotlb[a] = page

IommuTypeOK == /\ pt \in [Pfn -> Page \cup {NoPage}]
               /\ iotlb \in [Pfn -> Page \cup {NoPage}]
============================================================================
