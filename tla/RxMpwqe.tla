------------------------------ MODULE RxMpwqe ------------------------------
(***************************************************************************)
(* The receive path of the patched mlx5 driver (en_rx.c) over the IOVA     *)
(* allocator and the IOMMU domain, in strict mode and with the device      *)
(* behind the IOMMU.  A receive descriptor (multi-packet WQE) is filled    *)
(* with PagesPerWqe pages mapped at consecutive IOVAs of one range; when   *)
(* the device has consumed it the pages are given back one by one and the  *)
(* last one unmaps, invalidates and frees the whole range.  XDP and the    *)
(* SHAMPO header buffer share the pages, the page cache and the allocator. *)
(*                                                                         *)
(* The code of one receive queue runs in one softirq at a time; queues and *)
(* the device run concurrently.  A step is one page of a loop, one part of *)
(* an unmap (clear the entries, invalidate, free the IOVA) or one call.    *)
(***************************************************************************)
EXTENDS IovaDomain, IommuDomain, Sequences, FiniteSets

CONSTANTS
  Rq,            \* receive queues
  Wqe,           \* receive descriptors
  RqOf,          \* the queue of each descriptor
  PagesPerWqe,   \* MLX5_MPWRQ_PAGES_PER_WQE
  CacheSize,     \* pages the per-queue page cache holds (MLX5E_CACHE_SIZE)
  Faults,        \* what may fail: "iova", "page", "map"
  Xdp,           \* an XDP program is attached
  Shampo         \* header/data split is on

ASSUME RxAssumption ==
  /\ RqOf \in [Wqe -> Rq]
  /\ PagesPerWqe \in Pfn
  /\ CacheSize \in Nat
  /\ Faults \subseteq {"iova", "page", "map"}
  /\ Xdp \in BOOLEAN /\ Shampo \in BOOLEAN

VARIABLES
  wqe,        \* the phase each descriptor is in
  di,         \* dma_info of each slot: page, DMA address, batch_iova
  idx,        \* the slot the fill, unwind or free loop stands at
  iovaBase,   \* dma_info[0].iova: the range allocated for the descriptor
  xdpBits,    \* wi->xdp_xmit_bitmap
  dmaAddr,    \* page_pool_get_dma_addr of each page
  kernel,     \* pages the driver does not hold: free, or in use by the kernel
  pool,       \* pages recycled to each queue's page pool
  cache,      \* each queue's page cache
  xdp,        \* pages of each queue waiting in an XDP send queue
  hdr,        \* the SHAMPO header page of each queue
  job,        \* the unmap each queue is executing
  up          \* the queue is open

allocVars == <<tree, rcache>>
slotVars  == <<wqe, di, idx, iovaBase, xdpBits>>
pageVars  == <<dmaAddr, kernel, pool, cache, xdp, hdr>>
vars == <<allocVars, iommuVars, slotVars, pageVars, job, up>>

Slots == 0 .. (PagesPerWqe - 1)
Last  == PagesPerWqe - 1
NoSlot == [page |-> NoPage, addr |-> 0, batch |-> FALSE]
NoJob  == [stage |-> "none"]

Init ==
  /\ IovaInit
  /\ IommuInit
  /\ wqe      = [w \in Wqe |-> "empty"]
  /\ di       = [w \in Wqe |-> [i \in Slots |-> NoSlot]]
  /\ idx      = [w \in Wqe |-> 0]
  /\ iovaBase = [w \in Wqe |-> 0]
  /\ xdpBits  = [w \in Wqe |-> {}]
  /\ dmaAddr  = [p \in Page |-> 0]
  /\ kernel   = Page
  /\ pool     = [r \in Rq |-> {}]
  /\ cache    = [r \in Rq |-> <<>>]
  /\ xdp      = [r \in Rq |-> <<>>]
  /\ hdr      = [r \in Rq |-> NoPage]
  /\ job      = [r \in Rq |-> NoJob]
  /\ up       = [r \in Rq |-> TRUE]

----------------------------------------------------------------------------
(***************************************************************************)
(* The softirq of a queue and the pages it can get.                        *)
(***************************************************************************)
NotRunning(r) == job[r] = NoJob

Idle(r) == /\ NotRunning(r)
           /\ \A w \in Wqe : RqOf[w] = r => wqe[w] \in {"empty", "posted"}

\* page_pool_dev_alloc_pages: a recycled page first, else one of the kernel's.
Available(r) == IF pool[r] # {} THEN pool[r] ELSE kernel

TakePage(r, page) == /\ page \in Available(r)
                     /\ kernel' = kernel \ {page}
                     /\ pool' = [pool EXCEPT ![r] = @ \ {page}]

\* page_pool_dev_alloc_pages returns no page.
NoPageAvailable(r) == "page" \in Faults \/ Available(r) = {}

\* __iommu_dma_map: at the IOVA given or, when that is 0, at one of its own.
DmaMap(iova, addr, page) ==
  /\ \/ iova # 0 /\ addr = iova /\ UNCHANGED allocVars
     \/ iova = 0 /\ AllocIova(1, addr)
  /\ MapPage(addr, page)

\* It fails: one page is freed at the IOVA given or, when that is 0, at the one
\* just allocated, if there was one.
DmaMapFails(iova) ==
  \/ "map" \in Faults /\ iova # 0 /\ FreeIova(iova, 1)
  \/ "map" \in Faults /\ iova = 0 /\ \E lo \in Pfn : BorrowPage(lo)
  \/ iova = 0 /\ AllocIovaFails(1)
  \/ iova = 0 /\ "iova" \in Faults /\ UNCHANGED allocVars

\* mlx5e_page_alloc_pool: a page of the pool, mapped ...
PageAllocPool(r, page, iova, addr) ==
  /\ TakePage(r, page)
  /\ DmaMap(iova, addr, page)
  /\ dmaAddr' = [dmaAddr EXCEPT ![page] = addr]

\* ... or recycled to the pool when it cannot be mapped.
PageAllocPoolFails(r, iova) ==
  /\ DmaMapFails(iova)
  /\ \E page \in Available(r) :
       /\ kernel' = kernel \ {page}
       /\ pool' = [pool EXCEPT ![r] = @ \cup {page}]
  /\ UNCHANGED <<iommuVars, dmaAddr>>

\* mlx5e_rx_cache_put: the page keeps its mapping.  A lent page may still be
\* referenced by a packet.
CachePut(r, page, lent) ==
  /\ Len(cache[r]) < CacheSize
  /\ cache' = [cache EXCEPT ![r] = Append(@, [page |-> page, lent |-> lent])]

\* mlx5e_rx_cache_get: the oldest cached page, with the address it is mapped at.
CacheGet(r, page) == /\ cache[r] # <<>>
                     /\ page = Head(cache[r]).page
                     /\ cache' = [cache EXCEPT ![r] = Tail(@)]

\* The cache is empty, or its oldest page is still in use by a packet.
CacheMisses(r) == cache[r] # <<>> => Head(cache[r]).lent

\* page_pool_recycle_direct, or page_pool_release_page and put_page.
GiveTo(r, page, to) ==
  /\ kernel' = IF to = "kernel" THEN kernel \cup {page} ELSE kernel
  /\ pool' = IF to = "pool" THEN [pool EXCEPT ![r] = @ \cup {page}] ELSE pool

\* Slip: the invalidation is not waited for.
StartUnmapNoSync(r, page, range, to) ==
  /\ dmaAddr' = [dmaAddr EXCEPT ![page] = 0]
  /\ \/ /\ Phys(range.lo) = NoPage
        /\ GiveTo(r, page, to)
        /\ UNCHANGED <<iommuVars, job>>
     \/ /\ Phys(range.lo) # NoPage
        /\ UnmapFast(range)
        /\ job' = [job EXCEPT ![r] =
                     [stage |-> "free", range |-> range, page |-> page, to |-> to]]
        /\ UNCHANGED <<kernel, pool>>

(***************************************************************************)
(* dma_unmap_page_attrs and dma_unmap_page_attrs_iova: nothing but a       *)
(* warning when the first address translates to nothing, else clear the    *)
(* entries, wait for the invalidation, free the IOVA; then the page goes.  *)
(***************************************************************************)
StartUnmap(r, page, range, to) ==
  /\ dmaAddr' = [dmaAddr EXCEPT ![page] = 0]
  /\ \/ /\ Phys(range.lo) = NoPage
        /\ GiveTo(r, page, to)
        /\ UNCHANGED <<iommuVars, job>>
     \/ /\ Phys(range.lo) # NoPage
        /\ UnmapFast(range)
        /\ job' = [job EXCEPT ![r] =
                     [stage |-> "sync", range |-> range, page |-> page, to |-> to]]
        /\ UNCHANGED <<kernel, pool>>

SinglePage(page) == [lo |-> dmaAddr[page], n |-> 1]

SyncIotlb(r) ==
  /\ job[r].stage = "sync"
  /\ IotlbSync(job[r].range)
  /\ job' = [job EXCEPT ![r].stage = "free"]
  /\ UNCHANGED <<allocVars, slotVars, pageVars, up>>

\* Slip: one page of the range is freed (size where iova_size is meant).
ReturnOnePage(r) ==
  /\ job[r].stage = "free"
  /\ FreeIova(job[r].range.lo, 1)
  /\ GiveTo(r, job[r].page, job[r].to)
  /\ job' = [job EXCEPT ![r] = NoJob]
  /\ UNCHANGED <<iommuVars, slotVars, dmaAddr, cache, xdp, hdr, up>>

ReturnIova(r) ==
  /\ job[r].stage = "free"
  /\ FreeIova(job[r].range.lo, job[r].range.n)
  /\ GiveTo(r, job[r].page, job[r].to)
  /\ job' = [job EXCEPT ![r] = NoJob]
  /\ UNCHANGED <<iommuVars, slotVars, dmaAddr, cache, xdp, hdr, up>>

----------------------------------------------------------------------------
(***************************************************************************)
(* mlx5e_alloc_rx_mpwqe.                                                   *)
(***************************************************************************)
AllocStart(w) ==
  LET r == RqOf[w] IN
  /\ up[r] /\ Idle(r) /\ wqe[w] = "empty"
  /\ \/ \E lo \in Pfn : AllocIova(PagesPerWqe, lo) /\ iovaBase' = [iovaBase EXCEPT ![w] = lo]
     \/ /\ iovaBase' = [iovaBase EXCEPT ![w] = 0]
        /\ AllocIovaFails(PagesPerWqe) \/ ("iova" \in Faults /\ UNCHANGED allocVars)
  /\ wqe' = [wqe EXCEPT ![w] = "filling"]
  /\ idx' = [idx EXCEPT ![w] = 0]
  /\ UNCHANGED <<iommuVars, di, xdpBits, pageVars, job, up>>

\* Slip: the fill loop runs one slot too far.
FillingTooFar(w) == wqe[w] = "filling" /\ idx[w] <= PagesPerWqe

Filling(w) == wqe[w] = "filling" /\ idx[w] < PagesPerWqe

\* The IOVA the loop computes for the slot it stands at.
SlotIova(w) == iovaBase[w] + idx[w]

FillSlot(w, page, addr, batch) ==
  /\ di' = [di EXCEPT ![w][idx[w]] = [page |-> page, addr |-> addr, batch |-> batch]]
  /\ idx' = [idx EXCEPT ![w] = @ + 1]

\* The cache entry replaces the whole dma_info: batch_iova is cleared with it.
FillFromCache(w) ==
  /\ Filling(w)
  /\ \E page \in Page : /\ CacheGet(RqOf[w], page)
                        /\ FillSlot(w, page, dmaAddr[page], FALSE)
  /\ UNCHANGED <<allocVars, iommuVars, wqe, iovaBase, xdpBits,
                 dmaAddr, kernel, pool, xdp, hdr, job, up>>

FillFromPool(w) ==
  /\ Filling(w) /\ CacheMisses(RqOf[w])
  /\ \E page \in Page, addr \in Pfn :
       /\ PageAllocPool(RqOf[w], page, SlotIova(w), addr)
       /\ FillSlot(w, page, addr, TRUE)
  /\ UNCHANGED <<wqe, iovaBase, xdpBits, cache, xdp, hdr, job, up>>

\* No page: the error path takes over.
FillNoPage(w) ==
  /\ Filling(w) /\ CacheMisses(RqOf[w])
  /\ NoPageAvailable(RqOf[w])
  /\ wqe' = [wqe EXCEPT ![w] = "unwinding"]
  /\ UNCHANGED <<allocVars, iommuVars, di, idx, iovaBase, xdpBits, pageVars, job, up>>

FillMapFails(w) ==
  /\ Filling(w) /\ CacheMisses(RqOf[w])
  /\ PageAllocPoolFails(RqOf[w], SlotIova(w))
  /\ wqe' = [wqe EXCEPT ![w] = "unwinding"]
  /\ UNCHANGED <<di, idx, iovaBase, xdpBits, cache, xdp, hdr, job, up>>

\* Every slot is filled: the bitmap is cleared and the device gets the WQE.
PostWqe(w) ==
  /\ wqe[w] = "filling" /\ idx[w] = PagesPerWqe
  /\ wqe' = [wqe EXCEPT ![w] = "posted"]
  /\ xdpBits' = [xdpBits EXCEPT ![w] = {}]
  /\ UNCHANGED <<allocVars, iommuVars, di, idx, iovaBase, pageVars, job, up>>

\* The descriptor is off the ring: what its fields hold is not read again.
Retire(w) ==
  /\ wqe'      = [wqe EXCEPT ![w] = "empty"]
  /\ di'       = [di EXCEPT ![w] = [i \in Slots |-> NoSlot]]
  /\ idx'      = [idx EXCEPT ![w] = 0]
  /\ iovaBase' = [iovaBase EXCEPT ![w] = 0]
  /\ xdpBits'  = [xdpBits EXCEPT ![w] = {}]

\* mlx5e_page_dma_unmap in the unwind: with iova_size set and free_iova not,
\* nothing is unmapped; iova_size is 0 for a slot filled from the cache, whose
\* page is then unmapped alone.
ReleaseUnwound(r, slot) ==
  \/ /\ slot.batch
     /\ dmaAddr' = [dmaAddr EXCEPT ![slot.page] = 0]
     /\ GiveTo(r, slot.page, "pool")
     /\ UNCHANGED <<iommuVars, job>>
  \/ /\ ~ slot.batch
     /\ StartUnmap(r, slot.page, SinglePage(slot.page), "pool")

\* Slip: a page put in the cache is recycled to the pool as well.
UnwindSlotTwice(w) ==
  LET r    == RqOf[w]
      slot == di[w][idx[w] - 1]
  IN
  /\ wqe[w] = "unwinding" /\ NotRunning(r) /\ idx[w] > 0
  /\ idx' = [idx EXCEPT ![w] = @ - 1]
  /\ di' = [di EXCEPT ![w][idx[w] - 1] = NoSlot]
  /\ CachePut(r, slot.page, FALSE) \/ UNCHANGED cache
  /\ ReleaseUnwound(r, slot)
  /\ UNCHANGED <<allocVars, wqe, iovaBase, xdpBits, xdp, hdr, up>>

\* Slip: the unwind loop stays at one slot.
UnwindSlotStuck(w) ==
  LET r    == RqOf[w]
      slot == di[w][idx[w] - 1]
  IN
  /\ wqe[w] = "unwinding" /\ NotRunning(r) /\ idx[w] > 0
  /\ \/ CachePut(r, slot.page, FALSE) /\ UNCHANGED <<iommuVars, dmaAddr, kernel, pool, job>>
     \/ ReleaseUnwound(r, slot) /\ UNCHANGED cache
  /\ UNCHANGED <<allocVars, slotVars, xdp, hdr, up>>

\* err_unmap: each page already there goes to the page cache, or to the pool.
UnwindSlot(w) ==
  LET r    == RqOf[w]
      slot == di[w][idx[w] - 1]
  IN
  /\ wqe[w] = "unwinding" /\ NotRunning(r) /\ idx[w] > 0
  /\ idx' = [idx EXCEPT ![w] = @ - 1]
  /\ di' = [di EXCEPT ![w][idx[w] - 1] = NoSlot]
  /\ \/ CachePut(r, slot.page, FALSE) /\ UNCHANGED <<iommuVars, dmaAddr, kernel, pool, job>>
     \/ ReleaseUnwound(r, slot) /\ UNCHANGED cache
  /\ UNCHANGED <<allocVars, wqe, iovaBase, xdpBits, xdp, hdr, up>>

UnwindDone(w) ==
  /\ wqe[w] = "unwinding" /\ NotRunning(RqOf[w]) /\ idx[w] = 0
  /\ Retire(w)
  /\ UNCHANGED <<allocVars, iommuVars, pageVars, job, up>>

----------------------------------------------------------------------------
(***************************************************************************)
(* mlx5e_free_rx_mpwqe, with mlx5e_page_release_dynamic and                *)
(* mlx5e_page_dma_unmap: recycle is false and iova_size is set.            *)
(***************************************************************************)
FreeStart(w) ==
  /\ Idle(RqOf[w]) /\ wqe[w] = "posted"
  /\ wqe' = [wqe EXCEPT ![w] = "freeing"]
  /\ idx' = [idx EXCEPT ![w] = 0]
  /\ UNCHANGED <<allocVars, iommuVars, di, iovaBase, xdpBits, pageVars, job, up>>

Freeing(w) == wqe[w] = "freeing"

\* Slip: the bitmap is not looked at.
FreeSlotAnyway(w) ==
  LET page == di[w][idx[w]].page IN
  /\ Freeing(w) /\ idx[w] < Last
  /\ dmaAddr' = [dmaAddr EXCEPT ![page] = 0]
  /\ GiveTo(RqOf[w], page, "kernel")
  /\ idx' = [idx EXCEPT ![w] = @ + 1]
  /\ UNCHANGED <<allocVars, iommuVars, wqe, di, iovaBase, xdpBits, cache, xdp, hdr, job, up>>

\* free_iova is false: the page is given back, its mapping stays.
FreeSlot(w) ==
  LET page == di[w][idx[w]].page IN
  /\ Freeing(w) /\ idx[w] < Last
  /\ idx[w] \notin xdpBits[w]
  /\ dmaAddr' = [dmaAddr EXCEPT ![page] = 0]
  /\ GiveTo(RqOf[w], page, "kernel")
  /\ idx' = [idx EXCEPT ![w] = @ + 1]
  /\ UNCHANGED <<allocVars, iommuVars, wqe, di, iovaBase, xdpBits, cache, xdp, hdr, job, up>>

\* XDP took the page of this slot: the loop passes it by.
FreeSkip(w) ==
  /\ Freeing(w) /\ idx[w] < Last
  /\ idx[w] \in xdpBits[w]
  /\ idx' = [idx EXCEPT ![w] = @ + 1]
  /\ UNCHANGED <<allocVars, iommuVars, wqe, di, iovaBase, xdpBits, pageVars, job, up>>

\* Slips: one page too few is unmapped; one page too many is subtracted; one
\* page too few is subtracted.
BatchRangeShort(w) == [lo |-> dmaAddr[di[w][Last].page] - Last, n |-> Last]
BatchRangeBelow(w) == [lo |-> dmaAddr[di[w][Last].page] - PagesPerWqe, n |-> PagesPerWqe]
BatchRangeAbove(w) == [lo |-> dmaAddr[di[w][Last].page] - Last + 1, n |-> PagesPerWqe]

\* The last slot: the range to unmap is computed back from its page's address.
BatchRange(w) == [lo |-> dmaAddr[di[w][Last].page] - Last, n |-> PagesPerWqe]

FreeLast(w) ==
  /\ Freeing(w) /\ idx[w] = Last
  /\ Last \notin xdpBits[w]
  /\ StartUnmap(RqOf[w], di[w][Last].page, BatchRange(w), "kernel")
  /\ Retire(w)
  /\ UNCHANGED <<allocVars, cache, xdp, hdr, up>>

FreeSkipLast(w) ==
  /\ Freeing(w) /\ idx[w] = Last
  /\ Last \in xdpBits[w]
  /\ Retire(w)
  /\ UNCHANGED <<allocVars, iommuVars, pageVars, job, up>>

----------------------------------------------------------------------------
(***************************************************************************)
(* XDP: the verdict on a packet of a posted descriptor, and its completion.*)
(***************************************************************************)
XdpVerdict(w, i) ==
  /\ Xdp /\ up[RqOf[w]] /\ Idle(RqOf[w])
  /\ wqe[w] = "posted" /\ i \notin xdpBits[w]
  /\ xdpBits' = [xdpBits EXCEPT ![w] = @ \cup {i}]
  /\ UNCHANGED <<wqe, di, idx, iovaBase>>

\* XDP_TX: the page waits in the send queue, still mapped.
XdpTx(w, i) ==
  /\ XdpVerdict(w, i)
  /\ xdp' = [xdp EXCEPT ![RqOf[w]] = Append(@, di[w][i].page)]
  /\ UNCHANGED <<allocVars, iommuVars, dmaAddr, kernel, pool, cache, hdr, job, up>>

\* XDP_REDIRECT: the page is unmapped alone (mlx5e_page_dma_unmap(.., 0, true)).
XdpRedirect(w, i) ==
  /\ XdpVerdict(w, i)
  /\ StartUnmap(RqOf[w], di[w][i].page, SinglePage(di[w][i].page), "kernel")
  /\ UNCHANGED <<allocVars, cache, xdp, hdr, up>>

\* mlx5e_page_release_dynamic(rq, page, recycle, 0, true).
ReleaseAlone(r, page, recycle, lent) ==
  \/ recycle /\ CachePut(r, page, lent) /\ UNCHANGED <<iommuVars, dmaAddr, kernel, pool, job>>
  \/ /\ StartUnmap(r, page, SinglePage(page), IF recycle THEN "pool" ELSE "kernel")
     /\ UNCHANGED cache

\* mlx5e_free_xdpsq_desc: sent (recycle), or dropped when the queue closes.
XdpComplete(r, recycle) ==
  /\ Idle(r) /\ xdp[r] # <<>>
  /\ ReleaseAlone(r, Head(xdp[r]), recycle, FALSE)
  /\ xdp' = [xdp EXCEPT ![r] = Tail(@)]
  /\ UNCHANGED <<allocVars, slotVars, hdr, up>>

(***************************************************************************)
(* The SHAMPO header page: mlx5e_build_shampo_hd_umr allocates it with     *)
(* batch_iova off, mlx5e_free_rx_shampo_hd_entry (recycle) and             *)
(* mlx5e_shampo_dealloc_hd (no recycle) release it with iova_size 0.  The  *)
(* fragments of a cyclic queue make the same two calls.                    *)
(***************************************************************************)
HdrAlloc(r) ==
  /\ Shampo /\ up[r] /\ Idle(r) /\ hdr[r] = NoPage
  /\ \E page \in Page :
       /\ hdr' = [hdr EXCEPT ![r] = page]
       /\ \/ CacheGet(r, page) /\ UNCHANGED <<allocVars, iommuVars, dmaAddr, kernel, pool>>
          \/ /\ CacheMisses(r)
             /\ \E addr \in Pfn : PageAllocPool(r, page, 0, addr)
             /\ UNCHANGED cache
  /\ UNCHANGED <<slotVars, xdp, job, up>>

HdrAllocFails(r) ==
  /\ Shampo /\ up[r] /\ Idle(r) /\ hdr[r] = NoPage
  /\ CacheMisses(r)
  /\ PageAllocPoolFails(r, 0)
  /\ UNCHANGED <<slotVars, cache, xdp, hdr, job, up>>

HdrRelease(r, recycle) ==
  /\ Idle(r) /\ hdr[r] # NoPage
  /\ ReleaseAlone(r, hdr[r], recycle, TRUE)
  /\ hdr' = [hdr EXCEPT ![r] = NoPage]
  /\ UNCHANGED <<allocVars, slotVars, xdp, up>>

----------------------------------------------------------------------------
(***************************************************************************)
(* Closing and opening a queue.                                            *)
(***************************************************************************)
\* mlx5e_close_rq, once every descriptor, header and XDP page is back.
CloseRq(r) ==
  /\ up[r] /\ NotRunning(r) /\ xdp[r] = <<>> /\ hdr[r] = NoPage
  /\ \A w \in Wqe : RqOf[w] = r => wqe[w] = "empty"
  /\ up' = [up EXCEPT ![r] = FALSE]
  /\ UNCHANGED <<allocVars, iommuVars, slotVars, pageVars, job>>

\* mlx5e_free_rq releases each cached page as a page of its own.
DrainCache(r) ==
  /\ ~up[r] /\ Idle(r) /\ cache[r] # <<>>
  /\ StartUnmap(r, Head(cache[r]).page, SinglePage(Head(cache[r]).page), "kernel")
  /\ cache' = [cache EXCEPT ![r] = Tail(@)]
  /\ UNCHANGED <<allocVars, slotVars, xdp, hdr, up>>

\* The page pool is destroyed with the queue; the interface comes up again.
ReopenRq(r) ==
  /\ ~up[r] /\ Idle(r) /\ cache[r] = <<>>
  /\ kernel' = kernel \cup pool[r]
  /\ pool' = [pool EXCEPT ![r] = {}]
  /\ up' = [up EXCEPT ![r] = TRUE]
  /\ UNCHANGED <<allocVars, iommuVars, slotVars, dmaAddr, cache, xdp, hdr, job>>

\* The device uses an address: any address that is mapped.
DeviceAccess(a) ==
  /\ DeviceTranslate(a)
  /\ UNCHANGED <<allocVars, slotVars, pageVars, job, up>>

Spill == SpillRcache /\ UNCHANGED <<iommuVars, slotVars, pageVars, job, up>>

----------------------------------------------------------------------------
\* The steps of a loop or an unmap that has begun: the softirq runs it through.
Continue(r) ==
  \/ SyncIotlb(r)
  \/ ReturnIova(r)
  \/ \E w \in Wqe :
       /\ RqOf[w] = r
       /\ \/ FillFromCache(w) \/ FillFromPool(w) \/ FillNoPage(w) \/ FillMapFails(w)
          \/ PostWqe(w) \/ UnwindSlot(w) \/ UnwindDone(w)
          \/ FreeSlot(w) \/ FreeSkip(w) \/ FreeLast(w) \/ FreeSkipLast(w)

Begin(r) ==
  \/ \E w \in Wqe :
       /\ RqOf[w] = r
       /\ \/ AllocStart(w)
          \/ FreeStart(w)
          \/ \E i \in Slots : XdpTx(w, i) \/ XdpRedirect(w, i)
  \/ \E recycle \in BOOLEAN : XdpComplete(r, recycle) \/ HdrRelease(r, recycle)
  \/ HdrAlloc(r) \/ HdrAllocFails(r)
  \/ CloseRq(r) \/ DrainCache(r) \/ ReopenRq(r)

Next == \/ \E r \in Rq : Continue(r) \/ Begin(r)
        \/ \E a \in Pfn : DeviceAccess(a)
        \/ Spill

Spec == Init /\ [][Next]_vars

FairSpec == Spec /\ \A r \in Rq : WF_vars(Continue(r))

----------------------------------------------------------------------------
(***************************************************************************)
(* Properties.                                                             *)
(***************************************************************************)
Phases == {"empty", "filling", "unwinding", "posted", "freeing"}

Jobs == {NoJob} \cup [stage : {"sync", "free"}, range : [lo : Int, n : Pfn],
                      page : Page, to : {"kernel", "pool"}]

AllocTypeOK == tree \subseteq Ranges /\ rcache \subseteq [lo : Int, n : Nat]

SlotInfo == [page : Page \cup {NoPage}, addr : 0..MaxPfn, batch : BOOLEAN]

SlotTypeOK == /\ wqe \in [Wqe -> Phases]
              /\ di \in [Wqe -> [Slots -> SlotInfo]]
              /\ idx \in [Wqe -> 0..PagesPerWqe]
              /\ iovaBase \in [Wqe -> 0..MaxPfn]
              /\ xdpBits \in [Wqe -> SUBSET Slots]

PageTypeOK == /\ dmaAddr \in [Page -> 0..MaxPfn]
              /\ kernel \subseteq Page
              /\ pool \in [Rq -> SUBSET Page]
              /\ cache \in [Rq -> Seq([page : Page, lent : BOOLEAN])]
              /\ xdp \in [Rq -> Seq(Page)]
              /\ hdr \in [Rq -> Page \cup {NoPage}]

JobTypeOK == job \in [Rq -> Jobs] /\ up \in [Rq -> BOOLEAN]

\* Type invariant.
TypeOK == AllocTypeOK /\ IommuTypeOK /\ SlotTypeOK /\ PageTypeOK /\ JobTypeOK

\* The slots whose page the descriptor still owes to somebody.
OwnedSlots(w) ==
  CASE wqe[w] \in {"filling", "unwinding"} -> 0 .. (idx[w] - 1)
    [] wqe[w] = "posted"  -> Slots \ xdpBits[w]
    [] wqe[w] = "freeing" -> (idx[w] .. Last) \ xdpBits[w]
    [] OTHER              -> {}

\* The places that count a page as theirs.
Places(page) ==
  {<<"kernel">> : x \in {page} \cap kernel}
  \cup {<<"pool", r>> : r \in {s \in Rq : page \in pool[s]}}
  \cup (UNION {{<<"cache", r, k>> : k \in {j \in DOMAIN cache[r] : cache[r][j].page = page}} : r \in Rq})
  \cup (UNION {{<<"xdp", r, k>> : k \in {j \in DOMAIN xdp[r] : xdp[r][j] = page}} : r \in Rq})
  \cup {<<"hdr", r>> : r \in {s \in Rq : hdr[s] = page}}
  \cup {<<"job", r>> : r \in {s \in Rq : job[s] # NoJob /\ job[s].page = page}}
  \cup (UNION {{<<"slot", w, i>> : i \in {j \in OwnedSlots(w) : di[w][j].page = page}} : w \in Wqe})

\* Through every fault, unwind, recycle, XDP verdict and teardown, a page is in
\* exactly one place: never lost, never given back twice.
PageInOnePlace == \A page \in Page : Cardinality(Places(page)) = 1

\* A page of a descriptor on the ring stays mapped, at the address the device
\* was given, until the descriptor is freed: no unmap of another descriptor,
\* of a header or of a drained cache page takes the mapping away.
PostedMapped ==
  \A w \in Wqe : wqe[w] = "posted" =>
    \A i \in Slots \ xdpBits[w] :
      /\ Phys(di[w][i].addr) = di[w][i].page
      /\ iotlb[di[w][i].addr] \in {NoPage, di[w][i].page}

\* The IOTLB agrees with the page table except inside a range whose unmap has
\* cleared the entries and still waits for the invalidation.
IotlbCoherent ==
  \A a \in Pfn : iotlb[a] # NoPage =>
    \/ iotlb[a] = pt[a]
    \/ \E r \in Rq : job[r].stage = "sync" /\ a \in Span(job[r].range)

\* Whatever a descriptor owes is a page.
OwnedArePages == \A w \in Wqe : \A i \in OwnedSlots(w) : i \in Slots /\ di[w][i].page \in Page

\* One descriptor of a queue at a time is in a loop, and during an unmap none is,
\* unless the unwind loop has begun it.
OneAtATime ==
  \A w \in Wqe : wqe[w] \notin {"empty", "posted"} =>
    /\ job[RqOf[w]] = NoJob \/ wqe[w] = "unwinding"
    /\ \A v \in Wqe \ {w} : RqOf[v] = RqOf[w] => wqe[v] \in {"empty", "posted"}

\* The inductive invariant behind TypeOK and IotlbCoherent.
RxInv == TypeOK /\ OwnedArePages /\ OneAtATime /\ IotlbCoherent

\* An allocated page frame: in a block of the tree and not freed to the cache.
InUse(a) == /\ \E b \in tree : a \in Span(b)
            /\ ~ \E e \in rcache : a \in Span(e)

\* The device can reach a page only through an IOVA that is still allocated, so
\* a range is handed out again only when nothing is left behind it.
MappedIsAllocated ==
  \A a \in Pfn : pt[a] # NoPage \/ iotlb[a] # NoPage => InUse(a)

\* A page the kernel has back is reachable by the device only inside the batch
\* free that released it: until its descriptor's last slot has been unmapped
\* and the invalidation has completed.
ProtectedAtRest ==
  \A page \in kernel : Reachable(page) =>
    \/ \E w \in Wqe : Freeing(w) /\ \E i \in 0 .. (idx[w] - 1) : di[w][i].page = page
    \/ \E r \in Rq : job[r].stage = "sync"
                     /\ \E a \in Span(job[r].range) \cap Pfn : iotlb[a] = page

\* Every allocated block has an owner that will free it: a descriptor, an
\* unmap under way, or a page mapped alone.
NoIovaLeak ==
  \A b \in tree \ rcache :
    \/ \E w \in Wqe : wqe[w] # "empty" /\ iovaBase[w] = b.lo
    \/ \E r \in Rq : job[r] # NoJob /\ job[r].range.lo = b.lo
    \/ \E page \in Page \ kernel : dmaAddr[page] = b.lo /\ Phys(b.lo) = page

\* The descriptor stands at the last slot, about to unmap its whole range.
AboutToUnmap(w) == Freeing(w) /\ idx[w] = Last /\ Last \notin xdpBits[w]

\* When the last slot is freed, the range computed back from its page's address
\* is the descriptor's own and holds exactly the descriptor's pages.
UnmapsOwnRange ==
  \A w \in Wqe : AboutToUnmap(w) =>
    \A i \in Slots : Phys(BatchRange(w).lo + i) = di[w][i].page

\* The queue is open, at rest and may refill the descriptor.
CanRefill(w) == wqe[w] = "empty" /\ up[RqOf[w]] /\ Idle(RqOf[w])

\* Refilling a descriptor comes to an end, however the unwind goes: it is posted,
\* or given up with its queue at rest, so that the next refill can try again.
RefillEnds == \A w \in Wqe : wqe[w] = "filling" ~> wqe[w] = "posted" \/ CanRefill(w)

\* The window in which the device reaches a page the kernel has back closes.
ExposureEnds ==
  \A page \in Page : (page \in kernel /\ Reachable(page)) ~>
                      ~ (page \in kernel /\ Reachable(page))

----------------------------------------------------------------------------
(***************************************************************************)
(* What the repository says of the code, and the code does not do.         *)
(***************************************************************************)
\* fands.patch:570, on free_iova at the last slot: "It will automatically
\* subtract to get the beginning" of the descriptor's range.
SubtractsToBeginning ==
  \A w \in Wqe : AboutToUnmap(w) => BatchRange(w).lo = iovaBase[w]

\* fands.patch:196, WARN_ON(!phys): the first page of a batch to be unmapped is
\* expected to be mapped.
BatchIsMapped == \A w \in Wqe : AboutToUnmap(w) => Phys(BatchRange(w).lo) # NoPage
============================================================================
