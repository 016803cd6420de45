---------------------------- MODULE RxFaultFree ----------------------------
(***************************************************************************)
(* The receive path when nothing fails: no fault, no XDP program and no    *)
(* header split, a descriptor's range of a size the IOVA cache serves, and *)
(* a page and an IOVA range for every descriptor.  Here the protection the *)
(* patch promises holds, and RxFaultFreeProofs proves it from FaultFreeInv.*)
(***************************************************************************)
EXTENDS RxMpwqe

\* The block the allocator reserves for a descriptor, and where it can lie.
Block(lo) == [lo |-> lo, n |-> AllocSize(PagesPerWqe)]

Homes == {lo \in Pfn : Block(lo) \in Ranges /\ lo % AllocSize(PagesPerWqe) = 0}

ASSUME FaultFreeAssumption ==
  /\ Faults = {} /\ ~ Xdp /\ ~ Shampo
  /\ Cacheable(PagesPerWqe)
  /\ IsFiniteSet(Page) /\ IsFiniteSet(Wqe)
  /\ Cardinality(Page) >= Cardinality(Wqe) * PagesPerWqe
  /\ Cardinality(Homes) >= Cardinality(Wqe)

----------------------------------------------------------------------------
(***************************************************************************)
(* The inductive invariant.                                                *)
(***************************************************************************)
\* Nothing unwinds, and no page waits anywhere but with the kernel, in a slot
\* or in an unmap.
NothingShared ==
  /\ \A w \in Wqe : wqe[w] # "unwinding" /\ xdpBits[w] = {}
  /\ \A r \in Rq : pool[r] = {} /\ cache[r] = <<>> /\ xdp[r] = <<>> /\ hdr[r] = NoPage

\* A descriptor holds a range until it is retired, a queue's unmap until it ends.
Active(w) == wqe[w] # "empty"
Unmapping(r) == job[r] # NoJob

\* An unmap is of one descriptor's range, and the descriptor is off the ring.
JobIsBatch ==
  \A r \in Rq : Unmapping(r) =>
    /\ job[r].range.n = PagesPerWqe
    /\ job[r].to = "kernel"
    /\ \E w \in Wqe : RqOf[w] = r /\ wqe[w] = "empty"

\* The allocator holds nothing but descriptors' blocks ...
AtHome == tree \subseteq {Block(lo) : lo \in Homes} /\ rcache \subseteq tree

Taken(lo) == lo \in Homes /\ Block(lo) \in tree \ rcache

\* ... and those in use are exactly the ones somebody holds.
BlocksHeld ==
  /\ AtHome
  /\ \A w \in Wqe : Active(w) => Taken(iovaBase[w])
  /\ \A r \in Rq : Unmapping(r) => Taken(job[r].range.lo)
  /\ \A lo \in Homes : Taken(lo) =>
       \/ \E w \in Wqe : Active(w) /\ iovaBase[w] = lo
       \/ \E r \in Rq : Unmapping(r) /\ job[r].range.lo = lo

\* No range has two holders.
OneHolder ==
  /\ \A w, v \in Wqe : Active(w) /\ Active(v) /\ iovaBase[w] = iovaBase[v] => w = v
  /\ \A q, r \in Rq : Unmapping(q) /\ Unmapping(r) /\ job[q].range.lo = job[r].range.lo => q = r
  /\ \A w \in Wqe, r \in Rq : Active(w) /\ Unmapping(r) => iovaBase[w] # job[r].range.lo

\* The slots of a descriptor that hold a mapping.
Filled(w) == CASE wqe[w] = "filling" -> 0 .. (idx[w] - 1)
               [] wqe[w] \in {"posted", "freeing"} -> Slots
               [] OTHER -> {}

\* Slot i of a descriptor is mapped at page i of its range ...
SlotsMapped ==
  \A w \in Wqe : \A i \in Filled(w) :
    /\ di[w][i].page \in Page /\ di[w][i].addr = iovaBase[w] + i
    /\ Phys(iovaBase[w] + i) = di[w][i].page

\* ... nothing else is mapped ...
OnlySlotsMapped ==
  \A a \in Pfn : pt[a] # NoPage => \E w \in Wqe : \E i \in Filled(w) : a = iovaBase[w] + i

\* ... and a page the descriptor still owes remembers its address.
AddressKept ==
  \A w \in Wqe : \A i \in OwnedSlots(w) : dmaAddr[di[w][i].page] = iovaBase[w] + i

FaultFreeInv == /\ NothingShared /\ JobIsBatch
                /\ BlocksHeld /\ OneHolder
                /\ SlotsMapped /\ OnlySlotsMapped /\ AddressKept

----------------------------------------------------------------------------
(***************************************************************************)
(* What the driver and the device see of it.                               *)
(***************************************************************************)
BasesIn(phase) == {iovaBase[w] : w \in {v \in Wqe : wqe[v] = phase}}

\* A descriptor's batch is closed from the first page given back to the free
\* of its range, which outlives the descriptor.
Closing == BasesIn("freeing") \cup {job[r].range.lo : r \in {q \in Rq : Unmapping(q)}}

\* What the device gets at an address: the IOTLB answers before the table.
Seen(a) == IF iotlb[a] # NoPage THEN iotlb[a] ELSE pt[a]

Strict == INSTANCE StrictDma WITH
  BatchPages <- PagesPerWqe,
  building <- BasesIn("filling"),
  posted <- BasesIn("posted"),
  closing <- Closing,
  reach <- [a \in Pfn |-> Seen(a)],
  driver <- Page \ kernel

\* The driver implements batched strict protection: each of its steps is one of
\* StrictDma, the device's and the allocator's own steps show nothing of it.
KeepsStrictPromise == Strict!DmaSpec
============================================================================
