---------------------------- MODULE PagingCache ----------------------------
(***************************************************************************)
(* The page-table caches of the IOMMU and the invalidation hint (IH) the   *)
(* patch turns on in qi_flush_iotlb.  With IH set an invalidation leaves   *)
(* the cached intermediate entries alone; the caller sets it when its      *)
(* unmap has put no page-table page on its freelist.  An unmap frees the   *)
(* leaf table of a region only if its range covers the whole region.       *)
(*                                                                         *)
(* Each actor (a CPU inside the DMA API) owns the IOVA range it maps; the  *)
(* device walks at any time, through a cached entry when there is one.     *)
(* IOVAs are <<region, slot>>, in that order; a region is what one leaf    *)
(* table maps.                                                             *)
(***************************************************************************)
EXTENDS Integers, FiniteSets

CONSTANTS
  Cpu,        \* CPUs mapping and unmapping
  Region,     \* regions of the IOVA space
  Slot,       \* entries of a leaf table
  Table,      \* page-table pages
  NoTable

ASSUME TableAssumption == NoTable \notin Table
ASSUME SlotAssumption == Slot # {}
ASSUME OrderAssumption == Region \subseteq Int /\ Slot \subseteq Int

Iova == Region \X Slot

VARIABLES
  dir,        \* the directory entry of each region: its leaf table
  leaf,       \* the slots whose entry is present in each page-table page
  pwc,        \* the paging-structure cache: the leaf table cached per region
  iotlb,      \* the IOVAs with a cached translation
  freeTables, \* page-table pages in the page allocator
  owned,      \* the IOVAs each CPU holds
  phase,      \* where each CPU stands
  freelist    \* page-table pages each CPU's gather has taken out of the tree

vars == <<dir, leaf, pwc, iotlb, freeTables, owned, phase, freelist>>

Init == /\ dir = [g \in Region |-> NoTable]
        /\ leaf = [t \in Table |-> {}]
        /\ pwc = [g \in Region |-> NoTable]
        /\ iotlb = {}
        /\ freeTables = Table
        /\ owned = [c \in Cpu |-> {}]
        /\ phase = [c \in Cpu |-> "idle"]
        /\ freelist = [c \in Cpu |-> {}]

\* The order of the addresses.
NotAfter(a, b) == a[1] < b[1] \/ (a[1] = b[1] /\ a[2] <= b[2])

\* The ranges a CPU may be given: the IOVAs from one to another, inside a region
\* or across regions, whole or in part.
RangesOfIova ==
  {{a \in Iova : NotAfter(lo, a) /\ NotAfter(a, hi)} : lo, hi \in Iova} \ {{}}

Covered(R) == {g \in Region : {g} \X Slot \subseteq R}

Touched(R) == {a[1] : a \in R}

\* The IOVAs that are mapped.
Present == {a \in Iova : dir[a[1]] # NoTable /\ a[2] \in leaf[dir[a[1]]]}

----------------------------------------------------------------------------
\* iommu_dma_alloc_iova: a range nobody else holds.
Alloc(c) ==
  /\ phase[c] = "idle"
  /\ \E R \in RangesOfIova :
       /\ \A d \in Cpu : owned[d] \cap R = {}
       /\ owned' = [owned EXCEPT ![c] = R]
  /\ phase' = [phase EXCEPT ![c] = "mapping"]
  /\ UNCHANGED <<dir, leaf, pwc, iotlb, freeTables, freelist>>

\* iommu_map_atomic: a missing leaf table is allocated, zeroed, and linked.
MapLeaf(c, a) ==
  /\ phase[c] = "mapping" /\ a \in owned[c] \ Present
  /\ \/ /\ dir[a[1]] # NoTable
        /\ leaf' = [leaf EXCEPT ![dir[a[1]]] = @ \cup {a[2]}]
        /\ UNCHANGED <<dir, freeTables>>
     \/ /\ dir[a[1]] = NoTable
        /\ \E t \in freeTables : /\ dir' = [dir EXCEPT ![a[1]] = t]
                                 /\ leaf' = [leaf EXCEPT ![t] = {a[2]}]
                                 /\ freeTables' = freeTables \ {t}
  /\ UNCHANGED <<pwc, iotlb, owned, phase, freelist>>

\* Everything is mapped, or as much as there are page-table pages for.
MapDone(c) ==
  /\ phase[c] = "mapping"
  /\ \/ owned[c] \subseteq Present
     \/ freeTables = {}
  /\ phase' = [phase EXCEPT ![c] = "mapped"]
  /\ UNCHANGED <<dir, leaf, pwc, iotlb, freeTables, owned, freelist>>

\* Slip: a region without a table adds its absent entry to the freelist.
UnmapFastUnchecked(c) ==
  /\ phase[c] = "mapped"
  /\ LET gone == Covered(owned[c])
         cut(t) == {a[2] : a \in {b \in owned[c] : b[1] \notin gone /\ dir[b[1]] = t}}
     IN
       /\ freelist' = [freelist EXCEPT ![c] = {dir[g] : g \in gone}]
       /\ dir' = [g \in Region |-> IF g \in gone THEN NoTable ELSE dir[g]]
       /\ leaf' = [t \in Table |-> leaf[t] \ cut(t)]
  /\ phase' = [phase EXCEPT ![c] = "gathered"]
  /\ UNCHANGED <<pwc, iotlb, freeTables, owned>>

\* iommu_unmap_fast: a leaf table whose whole region is in the range is unlinked,
\* its entries as they are, and put on the gather's freelist; elsewhere the
\* entries of the range are cleared.
UnmapFast(c) ==
  /\ phase[c] = "mapped"
  /\ LET gone == Covered(owned[c])
         cut(t) == {a[2] : a \in {b \in owned[c] : b[1] \notin gone /\ dir[b[1]] = t}}
     IN
       /\ freelist' = [freelist EXCEPT ![c] = {dir[g] : g \in gone} \ {NoTable}]
       /\ dir' = [g \in Region |-> IF g \in gone THEN NoTable ELSE dir[g]]
       /\ leaf' = [t \in Table |-> leaf[t] \ cut(t)]
  /\ phase' = [phase EXCEPT ![c] = "gathered"]
  /\ UNCHANGED <<pwc, iotlb, freeTables, owned>>

\* The hint the caller passes in bit 6 of the address: nothing on the freelist.
Hint(c) == freelist[c] = {}

\* Slip (the code before the patch): the bit in the address is ignored.
FlushBeforePatch(R, ih) ==
  /\ iotlb' = iotlb \ R
  /\ pwc' = [g \in Region |-> IF g \in Touched(R) THEN NoTable ELSE pwc[g]]

\* Slip: the hint is always taken.
FlushAlwaysHinted(R, ih) ==
  /\ iotlb' = iotlb \ R
  /\ UNCHANGED pwc

\* qi_flush_iotlb: the IOTLB entries of the range go; the cached intermediate
\* entries of its regions go as well unless IH is set.
QiFlushIotlb(R, ih) ==
  /\ iotlb' = iotlb \ R
  /\ pwc' = [g \in Region |-> IF ~ih /\ g \in Touched(R) THEN NoTable ELSE pwc[g]]

\* Slip: the sync does nothing.
IotlbSyncSkipped(c) ==
  /\ phase[c] = "gathered"
  /\ phase' = [phase EXCEPT ![c] = "synced"]
  /\ UNCHANGED <<dir, leaf, pwc, iotlb, freeTables, owned, freelist>>

\* iommu_iotlb_sync: flush with the hint and wait for it.
IotlbSync(c) ==
  /\ phase[c] = "gathered"
  /\ QiFlushIotlb(owned[c], Hint(c))
  /\ phase' = [phase EXCEPT ![c] = "synced"]
  /\ UNCHANGED <<dir, leaf, freeTables, owned, freelist>>

\* The freelist goes back to the page allocator, the IOVA to its allocator.
Finish(c) ==
  /\ phase[c] = "synced"
  /\ freeTables' = freeTables \cup freelist[c]
  /\ freelist' = [freelist EXCEPT ![c] = {}]
  /\ owned' = [owned EXCEPT ![c] = {}]
  /\ phase' = [phase EXCEPT ![c] = "idle"]
  /\ UNCHANGED <<dir, leaf, pwc, iotlb>>

\* The device walks to an IOVA: the intermediate entry from the cache or the
\* tree (which fills the cache), the leaf entry from the table it leads to,
\* be that table unlinked or not.
DeviceWalk(a) ==
  LET g == a[1]
      t == IF pwc[g] # NoTable THEN pwc[g] ELSE dir[g]
  IN /\ t # NoTable
     /\ pwc' = [pwc EXCEPT ![g] = t]
     /\ iotlb' = IF a[2] \in leaf[t] THEN iotlb \cup {a} ELSE iotlb
     /\ UNCHANGED <<dir, leaf, freeTables, owned, phase, freelist>>

Next == \/ \E c \in Cpu : \/ Alloc(c) \/ MapDone(c) \/ UnmapFast(c)
                          \/ IotlbSync(c) \/ Finish(c)
                          \/ \E a \in Iova : MapLeaf(c, a)
        \/ \E a \in Iova : DeviceWalk(a)

Spec == Init /\ [][Next]_vars

----------------------------------------------------------------------------
\* Type invariant.
TypeOK == /\ dir \in [Region -> Table \cup {NoTable}]
          /\ leaf \in [Table -> SUBSET Slot]
          /\ pwc \in [Region -> Table \cup {NoTable}]
          /\ iotlb \subseteq Iova
          /\ freeTables \subseteq Table
          /\ owned \in [Cpu -> SUBSET Iova]
          /\ phase \in [Cpu -> {"idle", "mapping", "mapped", "gathered", "synced"}]
          /\ freelist \in [Cpu -> SUBSET Table]

\* The IOMMU never walks a page-table page that has gone back to the page
\* allocator, nor one that now serves another region: leaving the caches alone
\* under IH is safe because a table leaves the tree only through a freelist.
NoFreedWalk ==
  \A g \in Region : pwc[g] # NoTable =>
    /\ pwc[g] \notin freeTables
    /\ \A h \in Region \ {g} : dir[h] # pwc[g]

\* A mapped IOVA is always walked through its current table, also while other
\* CPUs unmap its neighbours under a hint.
WalkIsCurrent == \A a \in Present : pwc[a[1]] \in {NoTable, dir[a[1]]}

\* A cached translation is of a mapped IOVA, or of one whose unmap has not yet
\* been synced: after the sync no walk can bring an old translation back.
NoStaleTranslation ==
  iotlb \subseteq Present \cup UNION {owned[c] : c \in {d \in Cpu : phase[d] = "gathered"}}

\* README.md:8: the page-table caches are invalidated only when the structure
\* of the page table has changed.  An entry that leads to a table still in the
\* tree is dropped only by the flush of a range that also covers another region
\* whole, and with that region's table out of the tree: a range that covers no
\* region, such as a descriptor's batch, drops none.
HintPrecise ==
  [][\A g \in Region : pwc[g] # NoTable /\ pwc'[g] # pwc[g] =>
       \/ dir[g] # pwc[g]
       \/ \E c \in Cpu : /\ phase[c] = "gathered" /\ g \in Touched(owned[c])
                        /\ \E h \in Covered(owned[c]) : dir[h] = NoTable]_vars
============================================================================
