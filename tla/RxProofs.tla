----------------------------- MODULE RxProofs ------------------------------
(***************************************************************************)
(* Proofs about the receive path, for any number of queues, descriptors,   *)
(* pages per descriptor and IOVAs, and with every fault, XDP and SHAMPO.   *)
(***************************************************************************)
EXTENDS RxMpwqe, IovaLemmas, TLAPS

USE DEF NoJob

----------------------------------------------------------------------------
\* The allocator keeps its state well formed, whatever range a caller gives
\* back: also one it was never given (the error and XDP paths do that).
LEMMA AllocTypes ==
  ASSUME AllocTypeOK,
         \/ \E size \in Nat, lo \in Pfn : AllocIova(size, lo)
         \/ \E size \in Nat : AllocIovaFails(size)
         \/ \E pfn \in Int, size \in Nat : FreeIova(pfn, size)
         \/ \E lo \in Pfn : BorrowPage(lo)
         \/ SpillRcache
         \/ UNCHANGED allocVars
  PROVE  AllocTypeOK'
<1>1. \A S, n : Gaps(S, n) \subseteq Ranges
  BY DEF Gaps
<1>2. \A S, Q : Without(S, Q) \subseteq S
  BY DEF Without
<1>3. FlushedTree \subseteq tree
  BY <1>2 DEF FlushedTree
<1>4. ASSUME NEW size \in Nat, NEW lo \in Pfn, AllocIova(size, lo) PROVE AllocTypeOK'
  <2>1. CASE RcacheGet(size, lo)
    BY <2>1 DEF RcacheGet, AllocTypeOK
  <2>2. CASE TreeAlloc(size, lo)
    BY <2>2, <1>1 DEF TreeAlloc, AllocTypeOK
  <2>3. CASE FlushAlloc(size, lo)
    BY <2>3, <1>1, <1>3 DEF FlushAlloc, AllocTypeOK
  <2> QED BY <1>4, <2>1, <2>2, <2>3 DEF AllocIova
<1>5. ASSUME NEW size \in Nat, AllocIovaFails(size) PROVE AllocTypeOK'
  BY <1>3, <1>5 DEF AllocIovaFails, AllocTypeOK
<1>6. ASSUME NEW pfn \in Int, NEW size \in Nat, FreeIova(pfn, size) PROVE AllocTypeOK'
  <2>1. CASE RcacheInsert(pfn, size)
    <3>1. RoundUp(size) \in Nat
      BY <2>1, RoundUpBounds DEF RcacheInsert, Cacheable
    <3> QED BY <2>1, <3>1 DEF RcacheInsert, AllocTypeOK
  <2>2. CASE TreeFree(pfn)
    BY <2>2, <1>2 DEF TreeFree, AllocTypeOK
  <2> QED BY <1>6, <2>1, <2>2 DEF FreeIova
<1>7. ASSUME NEW lo \in Pfn, BorrowPage(lo) PROVE AllocTypeOK'
  <2> DEFINE one == [lo |-> lo, n |-> 1]
  <2>1. one \in [lo : Int, n : Nat]
    BY MaxPfnAssumption DEF Pfn
  <2>2. CASE UNCHANGED <<tree, rcache>>
    BY <2>2 DEF AllocTypeOK
  <2>3. CASE tree' = Without(tree, {lo}) /\ rcache' = rcache \ {one}
    BY <1>2, <2>3 DEF AllocTypeOK
  <2>4. CASE one \in Gaps(tree, 1) /\ tree' = tree \cup {one} /\ rcache' = rcache \cup {one}
    BY <1>1, <2>1, <2>4 DEF AllocTypeOK
  <2>5. CASE /\ one \in Gaps(FlushedTree, 1)
             /\ \/ tree' = FlushedTree /\ rcache' = {}
                \/ tree' = FlushedTree \cup {one} /\ rcache' = {one}
    BY <1>1, <1>3, <2>1, <2>5 DEF AllocTypeOK
  <2> QED BY <1>7, <2>2, <2>3, <2>4, <2>5 DEF BorrowPage
<1>8. CASE SpillRcache
  BY <1>8, <1>2 DEF SpillRcache, AllocTypeOK
<1>9. CASE UNCHANGED allocVars
  BY <1>9 DEF allocVars, AllocTypeOK
<1> QED BY <1>4, <1>5, <1>6, <1>7, <1>8, <1>9

\* A new mapping disturbs no cached translation: an entry that is present stays.
LEMMA MapCoherent ==
  ASSUME IommuTypeOK, IotlbCoherent, NEW a \in Pfn, NEW page \in Page,
         MapPage(a, page), UNCHANGED job
  PROVE  IommuTypeOK' /\ IotlbCoherent'
<1>1. pt' \in [Pfn -> Page \cup {NoPage}] /\ iotlb' = iotlb
  BY DEF MapPage, IommuTypeOK
<1>2. \A b \in Pfn : pt[b] # NoPage => pt'[b] = pt[b]
  BY DEF MapPage, IommuTypeOK
<1> QED BY <1>1, <1>2 DEF IommuTypeOK, IotlbCoherent

\* Starting an unmap: what is left stale in the IOTLB is inside the new job.
LEMMA StartUnmapEffect ==
  ASSUME TypeOK, IotlbCoherent, NEW r \in Rq, job[r] = NoJob, NEW page \in Page,
         NEW range \in [lo : Int, n : Pfn], NEW to \in {"kernel", "pool"},
         StartUnmap(r, page, range, to)
  PROVE  /\ IommuTypeOK' /\ IotlbCoherent'
         /\ job' \in [Rq -> Jobs] /\ \A q \in Rq \ {r} : job'[q] = job[q]
         /\ dmaAddr' \in [Page -> 0..MaxPfn]
         /\ kernel' \subseteq Page /\ pool' \in [Rq -> SUBSET Page]
<1>1. dmaAddr' \in [Page -> 0..MaxPfn]
  BY MaxPfnAssumption DEF StartUnmap, TypeOK, PageTypeOK
<1>2. CASE GiveTo(r, page, to) /\ UNCHANGED <<iommuVars, job>>
  <2>1. kernel' \subseteq Page /\ pool' \in [Rq -> SUBSET Page]
    BY <1>2 DEF GiveTo, TypeOK, PageTypeOK
  <2>2. IommuTypeOK' /\ IotlbCoherent' /\ job' = job
    BY <1>2 DEF iommuVars, TypeOK, IommuTypeOK, IotlbCoherent
  <2> QED BY <1>1, <2>1, <2>2 DEF TypeOK, JobTypeOK
<1>3. CASE /\ UnmapFast(range)
           /\ job' = [job EXCEPT ![r] =
                        [stage |-> "sync", range |-> range, page |-> page, to |-> to]]
           /\ UNCHANGED <<kernel, pool>>
  <2>1. job' \in [Rq -> Jobs] /\ (\A q \in Rq \ {r} : job'[q] = job[q])
        /\ job'[r].stage = "sync" /\ job'[r].range = range
    BY <1>3 DEF TypeOK, JobTypeOK, Jobs
  <2>2. IommuTypeOK'
    BY <1>3 DEF UnmapFast, TypeOK, IommuTypeOK
  <2>3. IotlbCoherent'
    <3> SUFFICES ASSUME NEW a \in Pfn, iotlb'[a] # NoPage
                 PROVE  \/ iotlb'[a] = pt'[a]
                        \/ \E q \in Rq : job'[q].stage = "sync" /\ a \in Span(job'[q].range)
      BY DEF IotlbCoherent, Span
    <3>1. iotlb'[a] = iotlb[a]
      BY <1>3 DEF UnmapFast
    <3>2. CASE a \in Span(range)
      BY <2>1, <3>2
    <3>3. CASE a \notin Span(range) /\ iotlb[a] = pt[a]
      BY <1>3, <3>1, <3>3 DEF UnmapFast
    <3>4. CASE \E q \in Rq : job[q].stage = "sync" /\ a \in Span(job[q].range)
      BY <2>1, <3>4
    <3> QED BY <3>1, <3>2, <3>3, <3>4 DEF IotlbCoherent
  <2> QED BY <1>1, <1>3, <2>1, <2>2, <2>3 DEF TypeOK, PageTypeOK
<1> QED BY <1>2, <1>3 DEF StartUnmap

\* The invariant does not speak of what a step leaves alone.
LEMMA QuietIommu ==
  ASSUME IommuTypeOK, IotlbCoherent, UNCHANGED <<iommuVars, job>>
  PROVE  IommuTypeOK' /\ IotlbCoherent'
BY DEF iommuVars, IommuTypeOK, IotlbCoherent

LEMMA QuietSlots ==
  ASSUME SlotTypeOK, OwnedArePages, UNCHANGED slotVars
  PROVE  SlotTypeOK' /\ OwnedArePages'
BY DEF slotVars, SlotTypeOK, OwnedArePages, OwnedSlots

LEMMA QuietPages ==
  ASSUME PageTypeOK, UNCHANGED pageVars
  PROVE  PageTypeOK'
BY DEF pageVars, PageTypeOK

LEMMA QuietControl ==
  ASSUME JobTypeOK, OneAtATime, UNCHANGED <<wqe, job, up>>
  PROVE  JobTypeOK' /\ OneAtATime'
BY DEF JobTypeOK, OneAtATime

\* Taking from and adding to a sequence.
LEMMA SeqOps ==
  ASSUME NEW S, NEW s \in Seq(S)
  PROVE  /\ s # <<>> => Head(s) \in S /\ Tail(s) \in Seq(S)
         /\ \A e \in S : Append(s, e) \in Seq(S)
OBVIOUS

\* A cached page is a page, and the cache stays one when it is taken or put.
LEMMA CacheTypes ==
  ASSUME PageTypeOK, NEW r \in Rq
  PROVE  /\ \A page : CacheGet(r, page) =>
               page \in Page /\ cache' \in [Rq -> Seq([page : Page, lent : BOOLEAN])]
         /\ \A page \in Page, lent \in BOOLEAN : CachePut(r, page, lent) =>
               cache' \in [Rq -> Seq([page : Page, lent : BOOLEAN])]
<1> DEFINE E == [page : Page, lent : BOOLEAN]
<1>1. cache \in [Rq -> Seq(E)]
  BY DEF PageTypeOK
<1>2. \A e \in E : e.page \in Page
  OBVIOUS
<1>3. \A page \in Page, lent \in BOOLEAN : [page |-> page, lent |-> lent] \in E
  OBVIOUS
<1> HIDE DEF E
<1>4. cache[r] # <<>> => Head(cache[r]) \in E /\ Tail(cache[r]) \in Seq(E)
  BY <1>1, SeqOps
<1>5. \A e \in E : Append(cache[r], e) \in Seq(E)
  BY <1>1, SeqOps
<1>6. ASSUME NEW page, CacheGet(r, page) PROVE page \in Page /\ cache' \in [Rq -> Seq(E)]
  BY <1>1, <1>2, <1>4, <1>6 DEF CacheGet
<1>7. ASSUME NEW page \in Page, NEW lent \in BOOLEAN, CachePut(r, page, lent)
      PROVE  cache' \in [Rq -> Seq(E)]
  BY <1>1, <1>3, <1>5, <1>7 DEF CachePut
<1> QED BY <1>6, <1>7 DEF E

\* A descriptor may move to another phase when its queue is in no other loop and
\* executes no unmap.
LEMMA PhaseMoves ==
  ASSUME JobTypeOK, OneAtATime, wqe \in [Wqe -> Phases], NEW w \in Wqe, NEW phase \in Phases,
         wqe' = [wqe EXCEPT ![w] = phase], UNCHANGED <<job, up>>,
         NotRunning(RqOf[w]), Idle(RqOf[w]) \/ wqe[w] \notin {"empty", "posted"}
  PROVE  JobTypeOK' /\ OneAtATime' /\ wqe' \in [Wqe -> Phases]
<1>1. RqOf[w] \in Rq /\ job[RqOf[w]] = NoJob
      /\ \A v \in Wqe \ {w} : RqOf[v] = RqOf[w] => wqe[v] \in {"empty", "posted"}
  BY RxAssumption DEF OneAtATime, Idle, NotRunning
<1> QED BY <1>1 DEF JobTypeOK, OneAtATime

\* An unmap may start, proceed or end when its queue is in no loop but the unwind.
LEMMA JobMoves ==
  ASSUME JobTypeOK, OneAtATime, NEW r \in Rq,
         job' \in [Rq -> Jobs], \A q \in Rq \ {r} : job'[q] = job[q], UNCHANGED up,
         \A w \in Wqe : wqe'[w] \in {wqe[w], "empty"},
         \A w \in Wqe : RqOf[w] = r => wqe'[w] \in {"empty", "posted", "unwinding"}
  PROVE  JobTypeOK' /\ OneAtATime'
<1>1. JobTypeOK'
  BY DEF JobTypeOK
<1>2. ASSUME NEW w \in Wqe, wqe'[w] \notin {"empty", "posted"}
      PROVE  /\ job'[RqOf[w]] = NoJob \/ wqe'[w] = "unwinding"
             /\ \A v \in Wqe \ {w} : RqOf[v] = RqOf[w] => wqe'[v] \in {"empty", "posted"}
  <2>1. wqe'[w] = wqe[w] /\ RqOf[w] \in Rq
    BY <1>2, RxAssumption
  <2>2. job'[RqOf[w]] = NoJob \/ wqe'[w] = "unwinding"
    BY <1>2, <2>1 DEF OneAtATime
  <2> QED BY <1>2, <2>1, <2>2 DEF OneAtATime
<1> QED BY <1>1, <1>2 DEF OneAtATime

\* One more slot is filled: the descriptor owns it.
LEMMA FillSlotEffect ==
  ASSUME SlotTypeOK, OwnedArePages, NEW w \in Wqe, Filling(w), NEW page \in Page,
         NEW addr \in 0..MaxPfn, NEW batch \in BOOLEAN, FillSlot(w, page, addr, batch),
         UNCHANGED <<wqe, iovaBase, xdpBits>>
  PROVE  SlotTypeOK' /\ OwnedArePages'
<1>0. PagesPerWqe \in Nat /\ MaxPfn \in Nat
  BY RxAssumption, MaxPfnAssumption DEF Pfn
<1>1. idx[w] \in Slots /\ idx[w] \in Nat /\ wqe[w] = "filling"
  BY <1>0 DEF Filling, SlotTypeOK, Slots
<1>2. di' = [di EXCEPT ![w][idx[w]] = [page |-> page, addr |-> addr, batch |-> batch]]
      /\ idx' = [idx EXCEPT ![w] = @ + 1]
  BY DEF FillSlot
<1>3. di' \in [Wqe -> [Slots -> SlotInfo]]
  BY <1>1, <1>2 DEF SlotTypeOK, SlotInfo
<1>4. SlotTypeOK'
  BY <1>0, <1>1, <1>2, <1>3 DEF SlotTypeOK, Filling
<1>5. ASSUME NEW v \in Wqe \ {w} PROVE OwnedSlots(v)' = OwnedSlots(v) /\ di'[v] = di[v]
  BY <1>2 DEF OwnedSlots, SlotTypeOK
<1>6. \A i \in OwnedSlots(w)' : i \in OwnedSlots(w) \/ i = idx[w]
  <2>1. idx'[w] = idx[w] + 1 /\ wqe'[w] = "filling"
    BY <1>1, <1>2 DEF SlotTypeOK
  <2>2. OwnedSlots(w) = 0 .. (idx[w] - 1)
    BY <1>1, Zenon DEF OwnedSlots
  <2>3. OwnedSlots(w)' = 0 .. (idx'[w] - 1)
    BY <2>1, Zenon DEF OwnedSlots
  <2> QED BY <1>1, <2>1, <2>2, <2>3
<1>7. di'[w][idx[w]].page = page /\ \A i \in Slots : i # idx[w] => di'[w][i] = di[w][i]
  BY <1>1, <1>2 DEF SlotTypeOK
<1> QED BY <1>1, <1>4, <1>5, <1>6, <1>7 DEF OwnedArePages

\* A descriptor that is retired owns nothing.
LEMMA RetireEffect ==
  ASSUME SlotTypeOK, OwnedArePages, NEW w \in Wqe, Retire(w)
  PROVE  SlotTypeOK' /\ OwnedArePages'
<1>0. PagesPerWqe \in Nat /\ MaxPfn \in Nat
  BY RxAssumption, MaxPfnAssumption DEF Pfn
<1>1. SlotTypeOK'
  BY <1>0 DEF Retire, SlotTypeOK, SlotInfo, NoSlot, Phases
<1>2. OwnedSlots(w)' = {}
  BY DEF Retire, OwnedSlots, SlotTypeOK
<1>3. ASSUME NEW v \in Wqe \ {w} PROVE OwnedSlots(v)' = OwnedSlots(v) /\ di'[v] = di[v]
  BY DEF Retire, OwnedSlots, SlotTypeOK
<1> QED BY <1>1, <1>2, <1>3 DEF OwnedArePages

\* A step of the descriptor that gives it no slot it did not own.
LEMMA FewerSlots ==
  ASSUME OwnedArePages, SlotTypeOK, SlotTypeOK', NEW w \in Wqe,
         \A v \in Wqe \ {w} : OwnedSlots(v)' \subseteq OwnedSlots(v) /\ di'[v] = di[v],
         \A i \in OwnedSlots(w)' : i \in OwnedSlots(w) /\ di'[w][i] = di[w][i]
  PROVE  OwnedArePages'
BY DEF OwnedArePages

----------------------------------------------------------------------------
(***************************************************************************)
(* One lemma per action.                                                   *)
(***************************************************************************)
LEMMA InvAllocStart ==
  ASSUME RxInv, NEW w \in Wqe, AllocStart(w)
  PROVE  RxInv'
<1>1. PagesPerWqe \in Nat /\ Pfn \subseteq 0..MaxPfn /\ 0 \in 0..MaxPfn
  BY RxAssumption, MaxPfnAssumption DEF Pfn
<1>2. AllocTypeOK'
  BY <1>1, AllocTypes DEF AllocStart, RxInv, TypeOK
<1>3. IommuTypeOK' /\ IotlbCoherent'
  BY QuietIommu DEF AllocStart, RxInv, TypeOK
<1>4. PageTypeOK'
  BY QuietPages DEF AllocStart, RxInv, TypeOK
<1>5. JobTypeOK' /\ OneAtATime' /\ wqe' \in [Wqe -> Phases]
  BY PhaseMoves DEF AllocStart, Idle, RxInv, TypeOK, SlotTypeOK, Phases
<1>6. SlotTypeOK'
  BY <1>1, <1>5 DEF AllocStart, RxInv, TypeOK, SlotTypeOK
<1>7. OwnedArePages'
  <2>1. wqe'[w] = "filling" /\ idx'[w] = 0
    BY DEF AllocStart, RxInv, TypeOK, SlotTypeOK
  <2>2. OwnedSlots(w)' = 0 .. (idx'[w] - 1)
    BY <2>1, Zenon DEF OwnedSlots
  <2>3. ASSUME NEW v \in Wqe \ {w} PROVE OwnedSlots(v)' = OwnedSlots(v) /\ di'[v] = di[v]
    BY DEF AllocStart, OwnedSlots, RxInv, TypeOK, SlotTypeOK
  <2> QED BY <1>6, <2>1, <2>2, <2>3, FewerSlots DEF RxInv, TypeOK
<1> QED BY <1>2, <1>3, <1>4, <1>5, <1>6, <1>7 DEF RxInv, TypeOK

LEMMA InvFillFromCache ==
  ASSUME RxInv, NEW w \in Wqe, FillFromCache(w)
  PROVE  RxInv'
<1>1. PICK page \in Page : CacheGet(RqOf[w], page) /\ FillSlot(w, page, dmaAddr[page], FALSE)
  BY DEF FillFromCache
<1>2. SlotTypeOK' /\ OwnedArePages'
  BY <1>1, FillSlotEffect DEF FillFromCache, RxInv, TypeOK, PageTypeOK
<1>3. PageTypeOK'
  BY <1>1, RxAssumption, CacheTypes DEF FillFromCache, RxInv, TypeOK, PageTypeOK
<1>4. IommuTypeOK' /\ IotlbCoherent'
  BY QuietIommu DEF FillFromCache, RxInv, TypeOK
<1>5. JobTypeOK' /\ OneAtATime' /\ AllocTypeOK'
  BY QuietControl, AllocTypes DEF FillFromCache, RxInv, TypeOK
<1> QED BY <1>2, <1>3, <1>4, <1>5 DEF RxInv, TypeOK

LEMMA InvFillFromPool ==
  ASSUME RxInv, NEW w \in Wqe, FillFromPool(w)
  PROVE  RxInv'
<1>1. PICK page \in Page, addr \in Pfn :
        /\ TakePage(RqOf[w], page)
        /\ UNCHANGED allocVars \/ AllocIova(1, addr)
        /\ MapPage(addr, page)
        /\ dmaAddr' = [dmaAddr EXCEPT ![page] = addr]
        /\ FillSlot(w, page, addr, TRUE)
  BY DEF FillFromPool, PageAllocPool, DmaMap
<1>2. Pfn \subseteq 0..MaxPfn
  BY MaxPfnAssumption DEF Pfn
<1>3. SlotTypeOK' /\ OwnedArePages'
  BY <1>1, <1>2, FillSlotEffect DEF FillFromPool, RxInv, TypeOK
<1>4. PageTypeOK'
  BY <1>1, <1>2 DEF FillFromPool, TakePage, RxInv, TypeOK, PageTypeOK
<1>5. IommuTypeOK' /\ IotlbCoherent'
  BY <1>1, MapCoherent DEF FillFromPool, RxInv, TypeOK
<1>6. AllocTypeOK'
  BY <1>1, AllocTypes DEF RxInv, TypeOK
<1>7. JobTypeOK' /\ OneAtATime'
  BY QuietControl DEF FillFromPool, RxInv, TypeOK
<1> QED BY <1>3, <1>4, <1>5, <1>6, <1>7 DEF RxInv, TypeOK

\* Only the phase changes, and the slots that are owned stay owned.
LEMMA PhaseOnly ==
  ASSUME RxInv, NEW w \in Wqe, NEW phase \in Phases, wqe' = [wqe EXCEPT ![w] = phase],
         wqe[w] \notin {"empty", "posted", "unwinding"},
         UNCHANGED <<iommuVars, di, idx, iovaBase, job, up>>,
         AllocTypeOK', PageTypeOK', xdpBits' \in [Wqe -> SUBSET Slots],
         \A v \in Wqe \ {w} : xdpBits'[v] = xdpBits[v],
         OwnedSlots(w)' \subseteq OwnedSlots(w)
  PROVE  RxInv'
<1>1. IommuTypeOK' /\ IotlbCoherent'
  BY QuietIommu DEF RxInv, TypeOK
<1>2. JobTypeOK' /\ OneAtATime' /\ wqe' \in [Wqe -> Phases]
  <2>1. NotRunning(RqOf[w])
    BY DEF NotRunning, RxInv, OneAtATime
  <2> QED BY <2>1, PhaseMoves DEF RxInv, TypeOK, SlotTypeOK
<1>3. SlotTypeOK'
  BY <1>2 DEF RxInv, TypeOK, SlotTypeOK
<1>4. ASSUME NEW v \in Wqe \ {w} PROVE OwnedSlots(v)' = OwnedSlots(v)
  BY DEF OwnedSlots, RxInv, TypeOK, SlotTypeOK
<1>5. OwnedArePages'
  BY <1>3, <1>4, FewerSlots DEF RxInv, TypeOK
<1> QED BY <1>1, <1>2, <1>3, <1>5 DEF RxInv, TypeOK

LEMMA InvFillNoPage ==
  ASSUME RxInv, NEW w \in Wqe, FillNoPage(w)
  PROVE  RxInv'
<1>1. AllocTypeOK' /\ PageTypeOK'
  BY AllocTypes, QuietPages DEF FillNoPage, RxInv, TypeOK
<1>2. OwnedSlots(w)' = OwnedSlots(w)
  BY DEF FillNoPage, Filling, OwnedSlots, RxInv, TypeOK, SlotTypeOK
<1> QED BY <1>1, <1>2, PhaseOnly DEF FillNoPage, Filling, Phases, RxInv, TypeOK, SlotTypeOK

\* A failed mapping: the page goes to the pool, the allocator stays well formed.
LEMMA MapFailsEffect ==
  ASSUME RxInv, NEW r \in Rq, NEW iova \in Int, PageAllocPoolFails(r, iova)
  PROVE  AllocTypeOK' /\ kernel' \subseteq Page /\ pool' \in [Rq -> SUBSET Page]
<1>1. \A page \in Available(r) : page \in Page
  BY DEF Available, RxInv, TypeOK, PageTypeOK
<1>2. PICK page \in Available(r) : /\ kernel' = kernel \ {page}
                                   /\ pool' = [pool EXCEPT ![r] = @ \cup {page}]
  BY DEF PageAllocPoolFails
<1>3. kernel' \subseteq Page /\ pool' \in [Rq -> SUBSET Page]
  BY <1>1, <1>2 DEF RxInv, TypeOK, PageTypeOK
<1>4. AllocTypeOK'
  BY AllocTypes DEF PageAllocPoolFails, DmaMapFails, RxInv, TypeOK
<1> QED BY <1>3, <1>4

LEMMA InvFillMapFails ==
  ASSUME RxInv, NEW w \in Wqe, FillMapFails(w)
  PROVE  RxInv'
<1>1. SlotIova(w) \in Int
  BY RxAssumption, MaxPfnAssumption DEF SlotIova, RxInv, TypeOK, SlotTypeOK, Pfn
<1>2. AllocTypeOK' /\ kernel' \subseteq Page /\ pool' \in [Rq -> SUBSET Page]
  BY <1>1, MapFailsEffect, RxAssumption DEF FillMapFails
<1>3. PageTypeOK'
  BY <1>2 DEF FillMapFails, PageAllocPoolFails, RxInv, TypeOK, PageTypeOK
<1>4. OwnedSlots(w)' = OwnedSlots(w)
  BY DEF FillMapFails, Filling, OwnedSlots, RxInv, TypeOK, SlotTypeOK
<1> QED BY <1>2, <1>3, <1>4, PhaseOnly
        DEF FillMapFails, PageAllocPoolFails, Filling, Phases, RxInv, TypeOK, SlotTypeOK

LEMMA InvPostWqe ==
  ASSUME RxInv, NEW w \in Wqe, PostWqe(w)
  PROVE  RxInv'
<1>1. AllocTypeOK' /\ PageTypeOK'
  BY AllocTypes, QuietPages DEF PostWqe, RxInv, TypeOK
<1>2. wqe[w] = "filling" /\ idx[w] = PagesPerWqe /\ wqe'[w] = "posted" /\ xdpBits'[w] = {}
  BY DEF PostWqe, RxInv, TypeOK, SlotTypeOK
<1>3. OwnedSlots(w) = 0 .. (idx[w] - 1)
  BY <1>2, Zenon DEF OwnedSlots
<1>4. OwnedSlots(w)' = Slots \ xdpBits'[w]
  BY <1>2 DEF OwnedSlots
<1>5. OwnedSlots(w)' \subseteq OwnedSlots(w)
  BY <1>2, <1>3, <1>4 DEF Slots
<1> QED BY <1>1, <1>5, PhaseOnly DEF PostWqe, Phases, RxInv, TypeOK, SlotTypeOK

\* Forgetting the address of a page.
LEMMA ForgetAddress ==
  ASSUME PageTypeOK, NEW page \in Page, dmaAddr' = [dmaAddr EXCEPT ![page] = 0]
  PROVE  dmaAddr' \in [Page -> 0..MaxPfn]
BY MaxPfnAssumption DEF PageTypeOK

\* The last step of a loop: the descriptor is retired, nothing else moves.
LEMMA RetireOnly ==
  ASSUME RxInv, NEW w \in Wqe, Retire(w), wqe[w] \notin {"empty", "posted"},
         NotRunning(RqOf[w]),
         UNCHANGED <<allocVars, iommuVars, pageVars, job, up>>
  PROVE  RxInv'
<1>1. SlotTypeOK' /\ OwnedArePages'
  BY RetireEffect DEF RxInv, TypeOK
<1>2. JobTypeOK' /\ OneAtATime'
  BY PhaseMoves DEF Retire, Phases, RxInv, TypeOK, SlotTypeOK
<1>3. IommuTypeOK' /\ IotlbCoherent' /\ AllocTypeOK' /\ PageTypeOK'
  BY QuietIommu, AllocTypes, QuietPages DEF RxInv, TypeOK
<1> QED BY <1>1, <1>2, <1>3 DEF RxInv, TypeOK

LEMMA InvFreeStart ==
  ASSUME RxInv, NEW w \in Wqe, FreeStart(w)
  PROVE  RxInv'
<1>1. PagesPerWqe \in Nat
  BY RxAssumption DEF Pfn
<1>2. JobTypeOK' /\ OneAtATime' /\ wqe' \in [Wqe -> Phases]
  BY PhaseMoves DEF FreeStart, Idle, Phases, RxInv, TypeOK, SlotTypeOK
<1>3. SlotTypeOK'
  BY <1>1, <1>2 DEF FreeStart, RxInv, TypeOK, SlotTypeOK
<1>4. OwnedArePages'
  <2>1. wqe[w] = "posted" /\ wqe'[w] = "freeing" /\ idx'[w] = 0 /\ xdpBits'[w] = xdpBits[w]
    BY DEF FreeStart, RxInv, TypeOK, SlotTypeOK
  <2>2. OwnedSlots(w) = Slots \ xdpBits[w]
    BY <2>1 DEF OwnedSlots
  <2>3. OwnedSlots(w)' = (0..Last) \ xdpBits[w]
    BY <2>1 DEF OwnedSlots
  <2>4. ASSUME NEW v \in Wqe \ {w} PROVE OwnedSlots(v)' = OwnedSlots(v)
    BY DEF FreeStart, OwnedSlots, RxInv, TypeOK, SlotTypeOK
  <2>5. di' = di
    BY DEF FreeStart
  <2> QED BY <1>3, <2>2, <2>3, <2>4, <2>5, FewerSlots DEF Slots, Last, RxInv, TypeOK
<1>5. IommuTypeOK' /\ IotlbCoherent' /\ AllocTypeOK' /\ PageTypeOK'
  BY QuietIommu, AllocTypes, QuietPages DEF FreeStart, RxInv, TypeOK
<1> QED BY <1>2, <1>3, <1>4, <1>5 DEF RxInv, TypeOK

\* The free loop goes on to the next slot.
LEMMA FreeAdvances ==
  ASSUME RxInv, NEW w \in Wqe, Freeing(w), idx[w] < Last, idx' = [idx EXCEPT ![w] = @ + 1],
         UNCHANGED <<allocVars, iommuVars, wqe, di, iovaBase, xdpBits, job, up>>, PageTypeOK'
  PROVE  RxInv'
<1>1. PagesPerWqe \in Nat /\ idx[w] \in Nat /\ Last = PagesPerWqe - 1
  BY RxAssumption DEF Pfn, Last, RxInv, TypeOK, SlotTypeOK
<1>2. SlotTypeOK'
  BY <1>1 DEF RxInv, TypeOK, SlotTypeOK
<1>3. idx'[w] = idx[w] + 1 /\ wqe'[w] = "freeing"
  BY DEF Freeing, RxInv, TypeOK, SlotTypeOK
<1>4. OwnedSlots(w) = (idx[w] .. Last) \ xdpBits[w]
  BY DEF Freeing, OwnedSlots
<1>5. OwnedSlots(w)' = (idx'[w] .. Last) \ xdpBits[w]
  BY <1>3 DEF OwnedSlots, Last
<1>6. ASSUME NEW v \in Wqe \ {w} PROVE OwnedSlots(v)' = OwnedSlots(v)
  BY DEF OwnedSlots, RxInv, TypeOK, SlotTypeOK
<1>7. OwnedArePages'
  BY <1>1, <1>2, <1>3, <1>4, <1>5, <1>6, FewerSlots DEF RxInv, TypeOK
<1>8. IommuTypeOK' /\ IotlbCoherent' /\ AllocTypeOK' /\ JobTypeOK' /\ OneAtATime'
  BY QuietIommu, AllocTypes, QuietControl DEF RxInv, TypeOK
<1> QED BY <1>2, <1>7, <1>8 DEF RxInv, TypeOK

LEMMA InvFreeSlot ==
  ASSUME RxInv, NEW w \in Wqe, FreeSlot(w)
  PROVE  RxInv'
<1>1. idx[w] \in OwnedSlots(w)
  BY RxAssumption DEF FreeSlot, Freeing, OwnedSlots, Last, RxInv, TypeOK, SlotTypeOK, Pfn
<1>2. di[w][idx[w]].page \in Page
  BY <1>1 DEF RxInv, OwnedArePages
<1>3. dmaAddr' \in [Page -> 0..MaxPfn]
  BY <1>2, ForgetAddress DEF FreeSlot, RxInv, TypeOK
<1>4. kernel' \subseteq Page /\ pool' \in [Rq -> SUBSET Page]
  BY <1>2 DEF FreeSlot, GiveTo, RxInv, TypeOK, PageTypeOK
<1>5. PageTypeOK'
  BY <1>3, <1>4 DEF FreeSlot, RxInv, TypeOK, PageTypeOK
<1> QED BY <1>5, FreeAdvances DEF FreeSlot

LEMMA InvFreeSkip ==
  ASSUME RxInv, NEW w \in Wqe, FreeSkip(w)
  PROVE  RxInv'
<1>1. PageTypeOK'
  BY QuietPages DEF FreeSkip, RxInv, TypeOK
<1> QED BY <1>1, FreeAdvances DEF FreeSkip

----------------------------------------------------------------------------
(***************************************************************************)
(* Steps that start an unmap, and the two steps that finish it.            *)
(***************************************************************************)
\* Whatever the range and the page: the unmap is all the queue does meanwhile.
LEMMA UnmapBegins ==
  ASSUME RxInv, NEW r \in Rq, NotRunning(r), NEW page \in Page,
         NEW range \in [lo : Int, n : Pfn], NEW to \in {"kernel", "pool"},
         StartUnmap(r, page, range, to), UNCHANGED <<allocVars, up>>,
         \A w \in Wqe : wqe'[w] \in {wqe[w], "empty"},
         \A w \in Wqe : RqOf[w] = r => wqe'[w] \in {"empty", "posted", "unwinding"}
  PROVE  /\ AllocTypeOK' /\ IommuTypeOK' /\ IotlbCoherent' /\ JobTypeOK' /\ OneAtATime'
         /\ dmaAddr' \in [Page -> 0..MaxPfn]
         /\ kernel' \subseteq Page /\ pool' \in [Rq -> SUBSET Page]
<1>1. /\ IommuTypeOK' /\ IotlbCoherent'
      /\ job' \in [Rq -> Jobs] /\ \A q \in Rq \ {r} : job'[q] = job[q]
      /\ dmaAddr' \in [Page -> 0..MaxPfn]
      /\ kernel' \subseteq Page /\ pool' \in [Rq -> SUBSET Page]
  BY StartUnmapEffect DEF NotRunning, RxInv
<1>2. JobTypeOK' /\ OneAtATime'
  BY <1>1, JobMoves DEF RxInv, TypeOK
<1>3. AllocTypeOK'
  BY AllocTypes DEF RxInv, TypeOK
<1> QED BY <1>1, <1>2, <1>3

\* The range of a page that was mapped alone.
LEMMA SinglePageRange ==
  ASSUME PageTypeOK, NEW page \in Page
  PROVE  SinglePage(page) \in [lo : Int, n : Pfn]
BY MaxPfnAssumption DEF SinglePage, PageTypeOK, Pfn

\* The unwind gives one page away: to the cache, to the pool, or to an unmap of
\* its own when the slot was filled from the cache.
LEMMA InvUnwindSlot ==
  ASSUME RxInv, NEW w \in Wqe, UnwindSlot(w)
  PROVE  RxInv'
<1> DEFINE r    == RqOf[w]
           slot == di[w][idx[w] - 1]
<1>1. /\ wqe[w] = "unwinding" /\ idx[w] \in 1..PagesPerWqe /\ PagesPerWqe \in Nat
      /\ idx' = [idx EXCEPT ![w] = @ - 1]
      /\ di' = [di EXCEPT ![w][idx[w] - 1] = NoSlot]
      /\ r \in Rq /\ NotRunning(r)
      /\ UNCHANGED <<allocVars, wqe, iovaBase, xdpBits, xdp, hdr, up>>
  <2>1. /\ wqe[w] = "unwinding" /\ idx[w] > 0 /\ NotRunning(r)
        /\ idx' = [idx EXCEPT ![w] = @ - 1]
        /\ di' = [di EXCEPT ![w][idx[w] - 1] = NoSlot]
        /\ UNCHANGED <<allocVars, wqe, iovaBase, xdpBits, xdp, hdr, up>>
    BY DEF UnwindSlot
  <2>2. idx[w] \in 0..PagesPerWqe /\ PagesPerWqe \in Nat /\ r \in Rq
    BY RxAssumption DEF RxInv, TypeOK, SlotTypeOK, Pfn
  <2> QED BY <2>1, <2>2
<1>2. OwnedSlots(w) = 0 .. (idx[w] - 1)
  BY <1>1, Zenon DEF OwnedSlots
<1>3. slot.page \in Page
  BY <1>1, <1>2 DEF RxInv, OwnedArePages
<1>4. /\ PageTypeOK' /\ IommuTypeOK' /\ IotlbCoherent'
      /\ AllocTypeOK' /\ JobTypeOK' /\ OneAtATime'
  <2> HIDE DEF slot, r
  <2>1. CASE CachePut(r, slot.page, FALSE) /\ UNCHANGED <<iommuVars, dmaAddr, kernel, pool, job>>
    <3>1. PageTypeOK'
      BY <1>1, <1>3, <2>1, CacheTypes DEF RxInv, TypeOK, PageTypeOK
    <3>2. IommuTypeOK' /\ IotlbCoherent' /\ AllocTypeOK' /\ JobTypeOK' /\ OneAtATime'
      BY <1>1, <2>1, QuietIommu, AllocTypes, QuietControl DEF RxInv, TypeOK
    <3> QED BY <3>1, <3>2
  <2>2. CASE /\ dmaAddr' = [dmaAddr EXCEPT ![slot.page] = 0]
             /\ GiveTo(r, slot.page, "pool") /\ UNCHANGED <<iommuVars, job, cache>>
    <3>1. dmaAddr' \in [Page -> 0..MaxPfn]
      BY <1>3, <2>2, ForgetAddress DEF RxInv, TypeOK
    <3>2. kernel' \subseteq Page /\ pool' \in [Rq -> SUBSET Page]
      BY <1>3, <2>2 DEF GiveTo, RxInv, TypeOK, PageTypeOK
    <3>3. IommuTypeOK' /\ IotlbCoherent' /\ AllocTypeOK' /\ JobTypeOK' /\ OneAtATime'
      BY <1>1, <2>2, QuietIommu, AllocTypes, QuietControl DEF RxInv, TypeOK
    <3> QED BY <1>1, <2>2, <3>1, <3>2, <3>3 DEF RxInv, TypeOK, PageTypeOK
  <2>3. CASE StartUnmap(r, slot.page, SinglePage(slot.page), "pool") /\ UNCHANGED cache
    <3>1. SinglePage(slot.page) \in [lo : Int, n : Pfn]
      BY <1>3, SinglePageRange DEF RxInv, TypeOK
    <3>2. \A v \in Wqe : RqOf[v] = r => wqe'[v] \in {"empty", "posted", "unwinding"}
      BY <1>1 DEF r, RxInv, OneAtATime
    <3>3. /\ AllocTypeOK' /\ IommuTypeOK' /\ IotlbCoherent' /\ JobTypeOK' /\ OneAtATime'
          /\ dmaAddr' \in [Page -> 0..MaxPfn]
          /\ kernel' \subseteq Page /\ pool' \in [Rq -> SUBSET Page]
      BY <1>1, <1>3, <2>3, <3>1, <3>2, UnmapBegins
    <3> QED BY <1>1, <2>3, <3>3 DEF RxInv, TypeOK, PageTypeOK
  <2> QED BY <2>1, <2>2, <2>3 DEF UnwindSlot, ReleaseUnwound, r, slot
<1>5. SlotTypeOK'
  <2>1. NoSlot \in SlotInfo
    BY MaxPfnAssumption DEF NoSlot, SlotInfo
  <2>2. di' \in [Wqe -> [Slots -> SlotInfo]]
    BY <1>1, <2>1 DEF RxInv, TypeOK, SlotTypeOK
  <2>3. idx' \in [Wqe -> 0..PagesPerWqe]
    BY <1>1 DEF RxInv, TypeOK, SlotTypeOK
  <2> QED BY <1>1, <2>2, <2>3 DEF RxInv, TypeOK, SlotTypeOK
<1>6. OwnedArePages'
  <2>1. idx'[w] = idx[w] - 1 /\ wqe'[w] = "unwinding"
    BY <1>1 DEF RxInv, TypeOK, SlotTypeOK
  <2>2. OwnedSlots(w)' = 0 .. (idx'[w] - 1)
    BY <2>1, Zenon DEF OwnedSlots
  <2>3. ASSUME NEW i \in OwnedSlots(w)' PROVE i \in OwnedSlots(w) /\ di'[w][i] = di[w][i]
    <3>1. i \in 0 .. (idx[w] - 2)
      BY <1>1, <2>1, <2>2, <2>3
    <3>2. i \in OwnedSlots(w) /\ i # idx[w] - 1
      BY <1>1, <1>2, <3>1
    <3>3. i \in Slots
      BY <1>1, <3>1 DEF Slots, Last
    <3> QED BY <1>1, <3>2, <3>3 DEF RxInv, TypeOK, SlotTypeOK
  <2>4. ASSUME NEW v \in Wqe \ {w} PROVE OwnedSlots(v)' = OwnedSlots(v) /\ di'[v] = di[v]
    <3>1. idx'[v] = idx[v] /\ di'[v] = di[v]
      BY <1>1 DEF RxInv, TypeOK, SlotTypeOK
    <3> QED BY <1>1, <3>1 DEF OwnedSlots
  <2> QED BY <1>5, <2>3, <2>4, FewerSlots DEF RxInv, TypeOK
<1> QED BY <1>4, <1>5, <1>6 DEF RxInv, TypeOK

LEMMA InvFreeLast ==
  ASSUME RxInv, NEW w \in Wqe, FreeLast(w)
  PROVE  RxInv'
<1>1. Last \in OwnedSlots(w) /\ PagesPerWqe \in Pfn /\ Last \in Int
  BY RxAssumption, MaxPfnAssumption DEF FreeLast, Freeing, OwnedSlots, Last, Pfn
<1>2. di[w][Last].page \in Page
  BY <1>1 DEF RxInv, OwnedArePages
<1>3. BatchRange(w) \in [lo : Int, n : Pfn]
  BY <1>1, <1>2, MaxPfnAssumption DEF BatchRange, RxInv, TypeOK, PageTypeOK
<1>4. RqOf[w] \in Rq /\ NotRunning(RqOf[w])
      /\ \A v \in Wqe \ {w} : RqOf[v] = RqOf[w] => wqe[v] \in {"empty", "posted"}
  BY RxAssumption DEF FreeLast, Freeing, NotRunning, RxInv, OneAtATime
<1>5. \A v \in Wqe : wqe'[v] = IF v = w THEN "empty" ELSE wqe[v]
  BY DEF FreeLast, Retire, RxInv, TypeOK, SlotTypeOK
<1>6. /\ AllocTypeOK' /\ IommuTypeOK' /\ IotlbCoherent' /\ JobTypeOK' /\ OneAtATime'
      /\ dmaAddr' \in [Page -> 0..MaxPfn]
      /\ kernel' \subseteq Page /\ pool' \in [Rq -> SUBSET Page]
  BY <1>2, <1>3, <1>4, <1>5, UnmapBegins DEF FreeLast
<1>7. SlotTypeOK' /\ OwnedArePages'
  BY RetireEffect DEF FreeLast, RxInv, TypeOK
<1>8. PageTypeOK'
  BY <1>6 DEF FreeLast, RxInv, TypeOK, PageTypeOK
<1> QED BY <1>6, <1>7, <1>8 DEF RxInv, TypeOK

LEMMA InvFreeSkipLast ==
  ASSUME RxInv, NEW w \in Wqe, FreeSkipLast(w)
  PROVE  RxInv'
<1>1. NotRunning(RqOf[w])
  BY DEF FreeSkipLast, Freeing, NotRunning, RxInv, OneAtATime
<1> QED BY <1>1, RetireOnly DEF FreeSkipLast, Freeing

LEMMA InvUnwindDone ==
  ASSUME RxInv, NEW w \in Wqe, UnwindDone(w)
  PROVE  RxInv'
BY RetireOnly DEF UnwindDone

\* XDP takes the page of a posted slot, which was the descriptor's.
LEMMA VerdictEffect ==
  ASSUME RxInv, NEW w \in Wqe, NEW i \in Slots, XdpVerdict(w, i)
  PROVE  SlotTypeOK' /\ OwnedArePages' /\ di[w][i].page \in Page /\ Idle(RqOf[w])
<1>1. i \in OwnedSlots(w)
  BY DEF XdpVerdict, OwnedSlots
<1>2. SlotTypeOK'
  BY DEF XdpVerdict, RxInv, TypeOK, SlotTypeOK
<1>3. wqe[w] = "posted" /\ wqe'[w] = "posted" /\ xdpBits[w] \subseteq xdpBits'[w]
  BY DEF XdpVerdict, RxInv, TypeOK, SlotTypeOK
<1>4. OwnedSlots(w)' \subseteq OwnedSlots(w)
  BY <1>3 DEF OwnedSlots, Slots
<1>5. ASSUME NEW v \in Wqe \ {w} PROVE OwnedSlots(v)' = OwnedSlots(v) /\ di'[v] = di[v]
  BY DEF XdpVerdict, OwnedSlots, RxInv, TypeOK, SlotTypeOK
<1>6. OwnedArePages'
  BY <1>2, <1>4, <1>5, FewerSlots DEF XdpVerdict, RxInv, TypeOK
<1> QED BY <1>1, <1>2, <1>6 DEF XdpVerdict, RxInv, OwnedArePages

LEMMA InvXdpTx ==
  ASSUME RxInv, NEW w \in Wqe, NEW i \in Slots, XdpTx(w, i)
  PROVE  RxInv'
<1>1. SlotTypeOK' /\ OwnedArePages' /\ di[w][i].page \in Page
  BY VerdictEffect DEF XdpTx
<1>2. xdp' \in [Rq -> Seq(Page)]
  BY <1>1, RxAssumption, SeqOps DEF XdpTx, RxInv, TypeOK, PageTypeOK
<1>3. PageTypeOK'
  BY <1>2 DEF XdpTx, RxInv, TypeOK, PageTypeOK
<1>4. IommuTypeOK' /\ IotlbCoherent' /\ AllocTypeOK' /\ JobTypeOK' /\ OneAtATime'
  BY QuietIommu, AllocTypes, QuietControl DEF XdpTx, XdpVerdict, RxInv, TypeOK
<1> QED BY <1>1, <1>3, <1>4 DEF RxInv, TypeOK

LEMMA InvXdpRedirect ==
  ASSUME RxInv, NEW w \in Wqe, NEW i \in Slots, XdpRedirect(w, i)
  PROVE  RxInv'
<1>1. SlotTypeOK' /\ OwnedArePages' /\ di[w][i].page \in Page
      /\ NotRunning(RqOf[w]) /\ RqOf[w] \in Rq
      /\ \A v \in Wqe : RqOf[v] = RqOf[w] => wqe[v] \in {"empty", "posted"}
  BY VerdictEffect, RxAssumption DEF XdpRedirect, Idle
<1>2. SinglePage(di[w][i].page) \in [lo : Int, n : Pfn]
  BY <1>1, SinglePageRange DEF RxInv, TypeOK
<1>3. /\ AllocTypeOK' /\ IommuTypeOK' /\ IotlbCoherent' /\ JobTypeOK' /\ OneAtATime'
      /\ dmaAddr' \in [Page -> 0..MaxPfn]
      /\ kernel' \subseteq Page /\ pool' \in [Rq -> SUBSET Page]
  BY <1>1, <1>2, UnmapBegins DEF XdpRedirect, XdpVerdict
<1>4. PageTypeOK'
  BY <1>3 DEF XdpRedirect, RxInv, TypeOK, PageTypeOK
<1> QED BY <1>1, <1>3, <1>4 DEF RxInv, TypeOK

\* A page released as a page of its own, by a queue that is in no loop.
LEMMA ReleaseEffect ==
  ASSUME RxInv, NEW r \in Rq, Idle(r), NEW page \in Page, NEW recycle \in BOOLEAN,
         NEW lent \in BOOLEAN, ReleaseAlone(r, page, recycle, lent),
         UNCHANGED <<allocVars, slotVars, up>>
  PROVE  /\ AllocTypeOK' /\ IommuTypeOK' /\ IotlbCoherent' /\ JobTypeOK' /\ OneAtATime'
         /\ SlotTypeOK' /\ OwnedArePages'
         /\ dmaAddr' \in [Page -> 0..MaxPfn]
         /\ kernel' \subseteq Page /\ pool' \in [Rq -> SUBSET Page]
         /\ cache' \in [Rq -> Seq([page : Page, lent : BOOLEAN])]
<1>1. SlotTypeOK' /\ OwnedArePages' /\ wqe' = wqe
  BY QuietSlots DEF slotVars, RxInv, TypeOK
<1>2. CASE CachePut(r, page, lent) /\ UNCHANGED <<iommuVars, dmaAddr, kernel, pool, job>>
  <2>1. cache' \in [Rq -> Seq([page : Page, lent : BOOLEAN])]
    BY <1>2, CacheTypes DEF RxInv, TypeOK
  <2>2. IommuTypeOK' /\ IotlbCoherent' /\ AllocTypeOK' /\ JobTypeOK' /\ OneAtATime'
    BY <1>1, <1>2, QuietIommu, AllocTypes, QuietControl DEF RxInv, TypeOK
  <2> QED BY <1>1, <1>2, <2>1, <2>2 DEF RxInv, TypeOK, PageTypeOK
<1>3. CASE /\ StartUnmap(r, page, SinglePage(page), IF recycle THEN "pool" ELSE "kernel")
           /\ UNCHANGED cache
  <2>1. SinglePage(page) \in [lo : Int, n : Pfn]
    BY SinglePageRange DEF RxInv, TypeOK
  <2>2. /\ AllocTypeOK' /\ IommuTypeOK' /\ IotlbCoherent' /\ JobTypeOK' /\ OneAtATime'
        /\ dmaAddr' \in [Page -> 0..MaxPfn]
        /\ kernel' \subseteq Page /\ pool' \in [Rq -> SUBSET Page]
    BY <1>1, <1>3, <2>1, UnmapBegins DEF Idle
  <2> QED BY <1>1, <1>3, <2>2 DEF RxInv, TypeOK, PageTypeOK
<1> QED BY <1>2, <1>3 DEF ReleaseAlone

LEMMA InvXdpComplete ==
  ASSUME RxInv, NEW r \in Rq, NEW recycle \in BOOLEAN, XdpComplete(r, recycle)
  PROVE  RxInv'
<1>1. xdp[r] \in Seq(Page) /\ xdp[r] # <<>>
  BY DEF XdpComplete, RxInv, TypeOK, PageTypeOK
<1>2. Head(xdp[r]) \in Page /\ Tail(xdp[r]) \in Seq(Page)
  BY <1>1, SeqOps
<1>3. /\ AllocTypeOK' /\ IommuTypeOK' /\ IotlbCoherent' /\ JobTypeOK' /\ OneAtATime'
      /\ SlotTypeOK' /\ OwnedArePages'
      /\ dmaAddr' \in [Page -> 0..MaxPfn]
      /\ kernel' \subseteq Page /\ pool' \in [Rq -> SUBSET Page]
      /\ cache' \in [Rq -> Seq([page : Page, lent : BOOLEAN])]
  BY <1>2, ReleaseEffect DEF XdpComplete
<1>4. PageTypeOK'
  BY <1>2, <1>3 DEF XdpComplete, RxInv, TypeOK, PageTypeOK
<1> QED BY <1>3, <1>4 DEF RxInv, TypeOK

LEMMA InvHdrRelease ==
  ASSUME RxInv, NEW r \in Rq, NEW recycle \in BOOLEAN, HdrRelease(r, recycle)
  PROVE  RxInv'
<1>1. hdr[r] \in Page
  BY DEF HdrRelease, RxInv, TypeOK, PageTypeOK
<1>2. /\ AllocTypeOK' /\ IommuTypeOK' /\ IotlbCoherent' /\ JobTypeOK' /\ OneAtATime'
      /\ SlotTypeOK' /\ OwnedArePages'
      /\ dmaAddr' \in [Page -> 0..MaxPfn]
      /\ kernel' \subseteq Page /\ pool' \in [Rq -> SUBSET Page]
      /\ cache' \in [Rq -> Seq([page : Page, lent : BOOLEAN])]
  BY <1>1, ReleaseEffect DEF HdrRelease
<1>3. PageTypeOK'
  BY <1>2 DEF HdrRelease, RxInv, TypeOK, PageTypeOK
<1> QED BY <1>2, <1>3 DEF RxInv, TypeOK

LEMMA InvHdrAlloc ==
  ASSUME RxInv, NEW r \in Rq, HdrAlloc(r)
  PROVE  RxInv'
<1>1. PICK page \in Page :
        /\ hdr' = [hdr EXCEPT ![r] = page]
        /\ \/ CacheGet(r, page) /\ UNCHANGED <<allocVars, iommuVars, dmaAddr, kernel, pool>>
           \/ /\ TakePage(r, page)
              /\ \E addr \in Pfn : /\ AllocIova(1, addr)
                                   /\ MapPage(addr, page)
                                   /\ dmaAddr' = [dmaAddr EXCEPT ![page] = addr]
              /\ UNCHANGED cache
  BY DEF HdrAlloc, PageAllocPool, DmaMap
<1>2. hdr' \in [Rq -> Page \cup {NoPage}]
  BY <1>1 DEF RxInv, TypeOK, PageTypeOK
<1>3. SlotTypeOK' /\ OwnedArePages' /\ JobTypeOK' /\ OneAtATime'
  BY QuietSlots, QuietControl DEF HdrAlloc, slotVars, RxInv, TypeOK
<1>4. CASE CacheGet(r, page) /\ UNCHANGED <<allocVars, iommuVars, dmaAddr, kernel, pool>>
  <2>1. cache' \in [Rq -> Seq([page : Page, lent : BOOLEAN])]
    BY <1>4, CacheTypes DEF RxInv, TypeOK
  <2>2. IommuTypeOK' /\ IotlbCoherent' /\ AllocTypeOK'
    BY <1>4, QuietIommu, AllocTypes DEF HdrAlloc, RxInv, TypeOK
  <2> QED BY <1>2, <1>3, <1>4, <2>1, <2>2 DEF HdrAlloc, RxInv, TypeOK, PageTypeOK
<1>5. ASSUME TakePage(r, page), UNCHANGED cache, NEW addr \in Pfn, AllocIova(1, addr),
             MapPage(addr, page), dmaAddr' = [dmaAddr EXCEPT ![page] = addr]
      PROVE  RxInv'
  <2>1. IommuTypeOK' /\ IotlbCoherent'
    BY <1>5, MapCoherent DEF HdrAlloc, RxInv, TypeOK
  <2>2. AllocTypeOK'
    BY <1>5, AllocTypes DEF RxInv, TypeOK
  <2>3. PageTypeOK'
    BY <1>2, <1>5, MaxPfnAssumption DEF HdrAlloc, TakePage, Pfn, RxInv, TypeOK, PageTypeOK
  <2> QED BY <1>3, <2>1, <2>2, <2>3 DEF RxInv, TypeOK
<1> QED BY <1>1, <1>4, <1>5

LEMMA InvHdrAllocFails ==
  ASSUME RxInv, NEW r \in Rq, HdrAllocFails(r)
  PROVE  RxInv'
<1>1. AllocTypeOK' /\ kernel' \subseteq Page /\ pool' \in [Rq -> SUBSET Page]
  BY MapFailsEffect DEF HdrAllocFails
<1>2. PageTypeOK'
  BY <1>1 DEF HdrAllocFails, PageAllocPoolFails, RxInv, TypeOK, PageTypeOK
<1>3. SlotTypeOK' /\ OwnedArePages' /\ JobTypeOK' /\ OneAtATime' /\ IommuTypeOK' /\ IotlbCoherent'
  BY QuietSlots, QuietControl, QuietIommu
     DEF HdrAllocFails, PageAllocPoolFails, slotVars, RxInv, TypeOK
<1> QED BY <1>1, <1>2, <1>3 DEF RxInv, TypeOK

LEMMA InvDrainCache ==
  ASSUME RxInv, NEW r \in Rq, DrainCache(r)
  PROVE  RxInv'
<1> DEFINE E == [page : Page, lent : BOOLEAN]
<1>1. cache \in [Rq -> Seq(E)] /\ cache[r] # <<>> /\ \A e \in E : e.page \in Page
  BY DEF DrainCache, RxInv, TypeOK, PageTypeOK
<1>2. Head(cache[r]).page \in Page /\ cache' \in [Rq -> Seq(E)]
  <2> HIDE DEF E
  <2>1. Head(cache[r]) \in E /\ Tail(cache[r]) \in Seq(E)
    BY <1>1, SeqOps
  <2> QED BY <1>1, <2>1 DEF DrainCache
<1>3. SlotTypeOK' /\ OwnedArePages' /\ wqe' = wqe
  BY QuietSlots DEF DrainCache, slotVars, RxInv, TypeOK
<1>4. SinglePage(Head(cache[r]).page) \in [lo : Int, n : Pfn]
  BY <1>2, SinglePageRange DEF RxInv, TypeOK
<1>5. /\ AllocTypeOK' /\ IommuTypeOK' /\ IotlbCoherent' /\ JobTypeOK' /\ OneAtATime'
      /\ dmaAddr' \in [Page -> 0..MaxPfn]
      /\ kernel' \subseteq Page /\ pool' \in [Rq -> SUBSET Page]
  BY <1>2, <1>3, <1>4, UnmapBegins DEF DrainCache, Idle
<1>6. PageTypeOK'
  BY <1>2, <1>5 DEF DrainCache, RxInv, TypeOK, PageTypeOK
<1> QED BY <1>3, <1>5, <1>6 DEF RxInv, TypeOK

\* While a queue executes an unmap, its descriptors are in no loop but the unwind.
LEMMA JobIsAlone ==
  ASSUME RxInv, NEW r \in Rq, job[r] # NoJob, NEW w \in Wqe, RqOf[w] = r
  PROVE  wqe[w] \in {"empty", "posted", "unwinding"}
BY DEF RxInv, OneAtATime

LEMMA InvSyncIotlb ==
  ASSUME RxInv, NEW r \in Rq, SyncIotlb(r)
  PROVE  RxInv'
<1>1. job[r] \in Jobs /\ job[r].stage = "sync" /\ job[r] # NoJob
  BY DEF SyncIotlb, RxInv, TypeOK, JobTypeOK
<1>2. job' \in [Rq -> Jobs] /\ \A q \in Rq \ {r} : job'[q] = job[q]
  BY <1>1 DEF SyncIotlb, RxInv, TypeOK, JobTypeOK, Jobs
<1>3. SlotTypeOK' /\ OwnedArePages' /\ wqe' = wqe
  BY QuietSlots DEF SyncIotlb, slotVars, RxInv, TypeOK
<1>4. JobTypeOK' /\ OneAtATime'
  BY <1>1, <1>2, <1>3, JobIsAlone, JobMoves DEF SyncIotlb, RxInv, TypeOK
<1>5. IommuTypeOK'
  BY DEF SyncIotlb, IotlbSync, RxInv, TypeOK, IommuTypeOK
<1>6. IotlbCoherent'
  <2> SUFFICES ASSUME NEW a \in Pfn, iotlb'[a] # NoPage
               PROVE  \/ iotlb'[a] = pt'[a]
                      \/ \E q \in Rq : job'[q].stage = "sync" /\ a \in Span(job'[q].range)
    BY DEF IotlbCoherent, Span
  <2>1. a \notin Span(job[r].range) /\ iotlb'[a] = iotlb[a] /\ pt' = pt
    BY DEF SyncIotlb, IotlbSync
  <2> QED BY <1>2, <2>1 DEF RxInv, IotlbCoherent
<1>7. AllocTypeOK' /\ PageTypeOK'
  BY AllocTypes, QuietPages DEF SyncIotlb, RxInv, TypeOK
<1> QED BY <1>3, <1>4, <1>5, <1>6, <1>7 DEF RxInv, TypeOK

LEMMA InvReturnIova ==
  ASSUME RxInv, NEW r \in Rq, ReturnIova(r)
  PROVE  RxInv'
<1>1. /\ job[r] \in Jobs /\ job[r].stage = "free" /\ job[r] # NoJob
      /\ job[r].range.lo \in Int /\ job[r].range.n \in Nat
      /\ job[r].page \in Page /\ job[r].to \in {"kernel", "pool"}
  BY MaxPfnAssumption DEF ReturnIova, RxInv, TypeOK, JobTypeOK, Jobs, Pfn
<1>2. job' \in [Rq -> Jobs] /\ (\A q \in Rq \ {r} : job'[q] = job[q]) /\ job' = [job EXCEPT ![r] = NoJob]
  BY DEF ReturnIova, RxInv, TypeOK, JobTypeOK, Jobs
<1>3. SlotTypeOK' /\ OwnedArePages' /\ wqe' = wqe
  BY QuietSlots DEF ReturnIova, slotVars, RxInv, TypeOK
<1>4. JobTypeOK' /\ OneAtATime'
  BY <1>1, <1>2, <1>3, JobIsAlone, JobMoves DEF ReturnIova, RxInv, TypeOK
<1>5. IommuTypeOK'
  BY DEF ReturnIova, iommuVars, RxInv, TypeOK, IommuTypeOK
<1>6. IotlbCoherent'
  BY <1>1, <1>2 DEF ReturnIova, iommuVars, RxInv, IotlbCoherent
<1>7. AllocTypeOK'
  BY <1>1, AllocTypes DEF ReturnIova, RxInv, TypeOK
<1>8. PageTypeOK'
  BY <1>1 DEF ReturnIova, GiveTo, RxInv, TypeOK, PageTypeOK
<1> QED BY <1>3, <1>4, <1>5, <1>6, <1>7, <1>8 DEF RxInv, TypeOK

----------------------------------------------------------------------------
(***************************************************************************)
(* The remaining steps, the initial states and the theorems.               *)
(***************************************************************************)
LEMMA InvCloseRq ==
  ASSUME RxInv, NEW r \in Rq, CloseRq(r)
  PROVE  RxInv'
<1>1. SlotTypeOK' /\ OwnedArePages' /\ wqe' = wqe
  BY QuietSlots DEF CloseRq, slotVars, RxInv, TypeOK
<1>2. JobTypeOK' /\ OneAtATime'
  BY <1>1 DEF CloseRq, RxInv, TypeOK, JobTypeOK, OneAtATime
<1>3. IommuTypeOK' /\ IotlbCoherent' /\ AllocTypeOK' /\ PageTypeOK'
  BY QuietIommu, AllocTypes, QuietPages DEF CloseRq, RxInv, TypeOK
<1> QED BY <1>1, <1>2, <1>3 DEF RxInv, TypeOK

LEMMA InvReopenRq ==
  ASSUME RxInv, NEW r \in Rq, ReopenRq(r)
  PROVE  RxInv'
<1>1. SlotTypeOK' /\ OwnedArePages' /\ wqe' = wqe
  BY QuietSlots DEF ReopenRq, slotVars, RxInv, TypeOK
<1>2. JobTypeOK' /\ OneAtATime'
  BY <1>1 DEF ReopenRq, RxInv, TypeOK, JobTypeOK, OneAtATime
<1>3. PageTypeOK'
  BY DEF ReopenRq, RxInv, TypeOK, PageTypeOK
<1>4. IommuTypeOK' /\ IotlbCoherent' /\ AllocTypeOK'
  BY QuietIommu, AllocTypes DEF ReopenRq, RxInv, TypeOK
<1> QED BY <1>1, <1>2, <1>3, <1>4 DEF RxInv, TypeOK

\* A walk loads the entry that is there: the IOTLB stays coherent.
LEMMA InvDeviceAccess ==
  ASSUME RxInv, NEW a \in Pfn, DeviceAccess(a)
  PROVE  RxInv'
<1>1. iotlb' = [iotlb EXCEPT ![a] = pt[a]] /\ pt' = pt /\ UNCHANGED job
  BY DEF DeviceAccess, DeviceTranslate
<1>2. IommuTypeOK' /\ IotlbCoherent'
  BY <1>1 DEF RxInv, TypeOK, IommuTypeOK, IotlbCoherent
<1>3. SlotTypeOK' /\ OwnedArePages' /\ JobTypeOK' /\ OneAtATime'
  BY QuietSlots, QuietControl DEF DeviceAccess, slotVars, RxInv, TypeOK
<1>4. AllocTypeOK' /\ PageTypeOK'
  BY AllocTypes, QuietPages DEF DeviceAccess, RxInv, TypeOK
<1> QED BY <1>2, <1>3, <1>4 DEF RxInv, TypeOK

\* Cache spills and stuttering steps move nothing but the allocator.
LEMMA InvQuiet ==
  ASSUME RxInv, SpillRcache \/ UNCHANGED allocVars,
         UNCHANGED <<iommuVars, slotVars, pageVars, job, up>>
  PROVE  RxInv'
<1>1. SlotTypeOK' /\ OwnedArePages' /\ JobTypeOK' /\ OneAtATime'
  BY QuietSlots, QuietControl DEF slotVars, RxInv, TypeOK
<1>2. IommuTypeOK' /\ IotlbCoherent' /\ AllocTypeOK' /\ PageTypeOK'
  BY QuietIommu, AllocTypes, QuietPages DEF RxInv, TypeOK
<1> QED BY <1>1, <1>2 DEF RxInv, TypeOK

LEMMA RxInvInit == Init => RxInv
<1> SUFFICES ASSUME Init PROVE RxInv
  OBVIOUS
<1>0. PagesPerWqe \in Nat /\ 0 \in 0..PagesPerWqe /\ 0 \in 0..MaxPfn
  BY RxAssumption, MaxPfnAssumption DEF Pfn
<1>1. AllocTypeOK /\ IommuTypeOK
  BY DEF Init, IovaInit, IommuInit, AllocTypeOK, IommuTypeOK
<1>2. SlotTypeOK
  BY <1>0 DEF Init, NoSlot, SlotTypeOK, SlotInfo, Phases
<1>3. <<>> \in Seq([page : Page, lent : BOOLEAN]) /\ <<>> \in Seq(Page)
  OBVIOUS
<1>4. PageTypeOK
  BY <1>0, <1>3 DEF Init, PageTypeOK
<1>5. JobTypeOK /\ OneAtATime
  BY DEF Init, JobTypeOK, Jobs, OneAtATime
<1>6. \A w \in Wqe : OwnedSlots(w) = {}
  BY DEF Init, OwnedSlots
<1>7. IotlbCoherent
  BY DEF Init, IommuInit, IotlbCoherent
<1> QED BY <1>1, <1>2, <1>4, <1>5, <1>6, <1>7 DEF RxInv, TypeOK, OwnedArePages

LEMMA RxInvNext == RxInv /\ [Next]_vars => RxInv'
<1> SUFFICES ASSUME RxInv, [Next]_vars PROVE RxInv'
  OBVIOUS
<1>1. ASSUME NEW r \in Rq, Continue(r) PROVE RxInv'
  <2>1. CASE SyncIotlb(r) \/ ReturnIova(r)
    BY <2>1, InvSyncIotlb, InvReturnIova
  <2>2. ASSUME NEW w \in Wqe,
               \/ FillFromCache(w) \/ FillFromPool(w) \/ FillNoPage(w) \/ FillMapFails(w)
               \/ PostWqe(w) \/ UnwindSlot(w) \/ UnwindDone(w)
        PROVE  RxInv'
    BY <2>2, InvFillFromCache, InvFillFromPool, InvFillNoPage, InvFillMapFails,
       InvPostWqe, InvUnwindSlot, InvUnwindDone
  <2>3. ASSUME NEW w \in Wqe, FreeSlot(w) \/ FreeSkip(w) \/ FreeLast(w) \/ FreeSkipLast(w)
        PROVE  RxInv'
    BY <2>3, InvFreeSlot, InvFreeSkip, InvFreeLast, InvFreeSkipLast
  <2> QED BY <1>1, <2>1, <2>2, <2>3 DEF Continue
<1>2. ASSUME NEW r \in Rq, Begin(r) PROVE RxInv'
  <2>1. ASSUME NEW w \in Wqe, AllocStart(w) \/ FreeStart(w)
        PROVE  RxInv'
    BY <2>1, InvAllocStart, InvFreeStart
  <2>2. ASSUME NEW w \in Wqe, NEW i \in Slots, XdpTx(w, i) \/ XdpRedirect(w, i)
        PROVE  RxInv'
    BY <2>2, InvXdpTx, InvXdpRedirect
  <2>3. ASSUME NEW recycle \in BOOLEAN, XdpComplete(r, recycle) \/ HdrRelease(r, recycle)
        PROVE  RxInv'
    BY <2>3, InvXdpComplete, InvHdrRelease
  <2>4. CASE HdrAlloc(r) \/ HdrAllocFails(r) \/ CloseRq(r) \/ DrainCache(r) \/ ReopenRq(r)
    BY <2>4, InvHdrAlloc, InvHdrAllocFails, InvCloseRq, InvDrainCache, InvReopenRq
  <2> QED BY <1>2, <2>1, <2>2, <2>3, <2>4 DEF Begin
<1>3. CASE \E a \in Pfn : DeviceAccess(a)
  BY <1>3, InvDeviceAccess
<1>4. CASE Spill \/ UNCHANGED vars
  BY <1>4, InvQuiet DEF Spill, vars
<1> QED BY <1>1, <1>2, <1>3, <1>4 DEF Next

\* The receive path's inductive invariant, with every fault, XDP verdict and
\* header page: well-formed state, one loop at a time per queue and no unmap
\* during one but the unwind's, and
\* an IOTLB that is stale only inside a pending invalidation.
THEOREM RxInvariant == Spec => []RxInv
BY RxInvInit, RxInvNext, PTL DEF Spec

\* Type correctness of the receive path for any number of queues, descriptors,
\* pages per descriptor and IOVAs: no loop of en_rx.c leaves its array.
THEOREM RxTypeOK == Spec => []TypeOK
<1>1. RxInv => TypeOK
  BY DEF RxInv
<1> QED BY <1>1, RxInvariant, PTL

\* Whatever the driver does, also in the paths that unmap a range they do not
\* own, a cached translation differs from the page table only in a range whose
\* invalidation __iommu_dma_unmap_iova is still waiting for.
THEOREM RxIotlbCoherent == Spec => []IotlbCoherent
<1>1. RxInv => IotlbCoherent
  BY DEF RxInv
<1> QED BY <1>1, RxInvariant, PTL
============================================================================
