# F&S: a TLA+ model of the batched, strict IOMMU path and of its measurement

This directory is a verification development for the F&S repository ("Fast &
Safe IO Memory Protection"). It models the Linux 6.0.3 patch `src/fands.patch`,
the eBPF tracers that time the kernel functions it changes, the shell scripts
that run an experiment over three machines, the parsers and collectors that turn
its reports into numbers, and the plot scripts that draw them. TLC checks the
models on small instances; what must hold for every size is proved with TLAPS.

## 1. Inventory of the system

| Component | State it keeps | Operations | Hard behaviour |
|---|---|---|---|
| **IOVA allocator** (`fands.patch` 22-36, 313-387) | red-black tree of allocated blocks; size-class cache of freed ranges | `alloc_iova_fast`, `free_iova_fast`, flush when full, spill of a full depot | sizes around the largest cached class (now 64 pages); exhaustion; a range cached *and* in the tree |
| **DMA-IOMMU map and unmap** (39-206, 276-311, 800-861) | IO page table, IOTLB | map at a given IOVA or at a new one; unmap a range, invalidate, free its IOVA | order of clear, invalidate, free; what the device can still reach in between; failures half-way |
| **mlx5 receive path** (393-716) | per descriptor: 64 `dma_info`, loop position, XDP bitmap; per page: its DMA address; page cache and page pool | refill, error unwind, free, XDP transmit/redirect/complete, header buffer, close and open | the range's base is computed back from the last page; pages from the cache have addresses of their own; XDP takes pages out of a batch |
| **Invalidation hint** (233-240) | cached page-directory entries of the IOMMU | `qi_flush_iotlb` with IH from bit 6 of the address | a page-table page freed while another CPU maps or the device walks |
| **iotlb_sync_map** (280-294) | not-present entries cached by a virtual IOMMU | once per batch | pages 1..63 are mapped after it |
| **eBPF latency tracers** (`tracing/*.bpf.c`) | entry time per task (or `pid_tgid`) and function; count, total, squares and histogram per function | entry program, exit program | interrupts and recursion between entry and exit, missed returns, a key shared by the idle tasks, a full map |
| **Tracer loaders, reader** (`tracing/*_loader.c`, `reader.c`) | attached probes | attach, wait for a duration or a signal, report, detach | a signal before the handler is installed or while the report is written |
| **Experiment orchestration** (`scripts/*-tput-experiment.sh`) | processes and report directories on receiver, sender and host | cleanup, start, record, stop, copy, wait, compute, collect | sleeps as synchronisation, SIGINT followed by SIGKILL, unnoticed copy failures, files of an earlier invocation |
| **Recorders, parsers, collectors** (`utils/`, `scripts/*.py`) | report files, one per metric and run | sample, parse, average, print | a parser that gives up after its report was truncated, missing files counted as zero, blank values |
| **Plots** (`plots/*.py`) | figures on disk | read the results of a list of experiments, draw bars, save | lists that do not match their labels, a missing result, figures of an earlier run |
| **Setup** (host and network scripts) | none | configuration | external I/O only, not modelled |

How they interact: the driver calls the DMA layer (`dma_map_page_attrs_iova`,
`dma_unmap_page_attrs_iova`), which calls the allocator and the IOMMU driver;
queues on different CPUs share one allocator and one page table; the device
uses the page table and the IOTLB at any time. The tracers hook functions of
these layers; a loader attaches them, waits, and writes their statistics as one
report of a run. The experiment script starts loader and recorders on three
machines, stops them, copies the remote reports under new names, and calls a
collector that opens the files of all runs. The plot scripts read the
collectors' tables and the tracer reports of whole sweeps of experiments.

What makes each component correct:

- *Allocator*: no page frame has two owners; nothing is lost; the cache is invisible.
- *Map and unmap*: the IOTLB is stale only inside a pending invalidation; what is
  mapped is allocated; a range is reused only when nothing is left behind it.
- *Receive path*: every page is in exactly one place; posted pages stay mapped;
  the last slot unmaps exactly its descriptor's pages; a page given back is
  unreachable once its descriptor's free is over; refills end.
- *Hint*: no walk uses a freed or reused table; a table that left the tree is
  invalidated, and one that did not is dropped only with another that left it.
- *Tracers*: a call is measured with its own entry time or not at all; no sample
  exceeds the time the call lasted; histogram, count and total are about the same
  samples.
- *Orchestration*: what is reported is of this invocation, of the right machine,
  one sample per run; a run's tracer report survives the cleanup of the next; an
  invocation ends.
- *Plots*: a bar shows the experiment its legend and its label name; a figure is
  drawn from all of its experiments or not at all.

## 2. Modules

| Module | What it is |
|---|---|
| `IovaSpace` | the IOVA space in page frame numbers: ranges, spans, overlap |
| `IovaDomain` | the allocator's state `tree`, `rcache` and its operations, used by every module above it |
| `IovaUse` | the allocator closed with callers that free exactly what they were given; the invariants |
| `RangeAlloc` | the abstract allocator: grant a range apart from all held ones, give one back |
| `IommuDomain` | page table `pt`, `iotlb`, map / unmap / invalidate / device access |
| `RxMpwqe` | the receive path over `IovaDomain` and `IommuDomain`: one action per step of the driver |
| `StrictDma` | the abstract protection: batches of consecutive IOVAs that are built, posted and closed, and what the device reaches |
| `RxFaultFree` | the receive path when nothing fails: what is assumed, the inductive invariant behind the protection, and what the driver and the device see as the state of `StrictDma` |
| `PagingCache` | directory entries, leaf tables, paging-structure cache and the hint |
| `FuncLatency` | the tracer programs over the stacks of calls of several contexts |
| `CallSampler` | the abstract tracer: a sampler of calls that never overestimates |
| `Reports` | report files, the parsers that write them and the collectors that read them (operators only) |
| `Experiment` | an invocation of one of the four throughput scripts, over `Reports` |
| `PlotLibrary` | reading and drawing of the plot scripts (operators only) |
| `FigureTables` | what each figure function reads and draws (tables only) |
| `Figures` | a run of a plot script over `FigureTables` |
| `MCRxMpwqe`, `MCRxFaultFree`, `MCPagingCache`, `MCFuncLatency`, `MCExperiment`, `MCFigures` | instances and symmetries for TLC |
| `IovaLemmas`, `IovaProofs` | facts about the allocator's operators; proofs about `IovaUse` |
| `RxProofs`, `RxPageProofs` | proofs about `RxMpwqe`: types and IOTLB; conservation of pages |
| `RxFaultFreeProofs` | proofs about `RxFaultFree`: the protection of batched addresses; its refinement of `StrictDma`; what `StrictDma` protects |
| `PagingProofs` | proofs about `PagingCache` |
| `FuncLatencyProofs` | proofs about `FuncLatency`: types and refinement; exactness; the histogram |
| `ExperimentProofs` | proofs about `Experiment` |

### Correspondence with the code

*Allocator.* `AllocIova(size, lo)` is `alloc_iova_fast` returning `lo`:
`RcacheGet` (a cached range of the size's class), `TreeAlloc` (an aligned gap of
the tree) or `FlushAlloc` (no gap: every cached range is given back to the tree,
one retry). `FreeIova` is `free_iova_fast`: `RcacheInsert` or, when the cache
refuses, `TreeFree`. `MaxCached` is `2^(IOVA_RANGE_CACHE_MAX_SIZE-1)`, which the
patch raises to 64 pages so that a whole descriptor is served by the cache. A
lookup may miss although a range is cached, because per-CPU magazines and the
depot are one set here. IOVA 0 is "no address" and is never handed out. `BorrowPage` is a page
allocated and freed again at once, which may leave its block in the cache. Freeing
the same range to the cache twice is merged into one entry; this happens only
in the error paths and makes the model's allocator better behaved than the
code's there, so no property about the allocator is claimed for those runs.

*Map and unmap.* `DmaMap(iova, addr, page)` is `__iommu_dma_map`: at the IOVA
given or, when that is 0, at one it allocates. `MapPage` keeps an entry that is
present (the page-table update is a compare-and-exchange). `DmaMapFails` is its
failure: with an IOVA given it frees *one* page there (line 88), with none it
frees the page it has just allocated (`BorrowPage`). `StartUnmap`
is the two `iommu_dma_unmap_page*` functions up to the clearing of the entries:
when the first address translates to nothing they warn and return; else the
queue executes a `job` of three steps, so that everybody else can act between
clearing (`StartUnmap`), the completed invalidation (`SyncIotlb`) and the free
of the IOVA and of the page (`ReturnIova`).

*Receive path.* For each descriptor, `wqe` is the phase its code is in, `idx` the
loop counter, `di` the `dma_info` array (per slot its page and `batch`, the flag
`batch_iova`, clear in a slot that was filled from the page cache with a whole
cached `dma_info`), `iovaBase` the batch range and `xdpBits` the XDP bitmap.
`dmaAddr` is `page_pool_get_dma_addr`.

The unwind treats the slots by that flag (lines 672-674): a page the cache refuses
goes to the pool still mapped when the slot is of the batch, and is unmapped,
invalidated and its IOVA freed alone when the slot came from the cache
(`ReleaseUnwound`). The latter is a job of the queue in the middle of the loop,
which goes on when the job is done.

| Code | Actions |
|---|---|
| `mlx5e_alloc_rx_mpwqe` | `AllocStart`, then per slot `FillFromCache` or `FillFromPool`, then `PostWqe` |
| its `err_unmap` | `FillNoPage` or `FillMapFails`, then per slot `UnwindSlot`, then `UnwindDone` |
| `mlx5e_free_rx_mpwqe` | `FreeStart`, per slot `FreeSlot` or `FreeSkip`, then `FreeLast` or `FreeSkipLast` |
| `mlx5e_page_dma_unmap` | `BatchRange` (the base computed back from the last page), `SinglePage`, `ReleaseUnwound` |
| `mlx5e_page_release_dynamic` | `ReleaseAlone`, `GiveTo`, `CachePut` |
| `mlx5e_xdp_handle`, `mlx5e_free_xdpsq_desc` | `XdpTx`, `XdpRedirect`, `XdpComplete` |
| `mlx5e_build_shampo_hd_umr`, `mlx5e_free_rx_shampo_hd_entry`, `mlx5e_shampo_dealloc_hd` | `HdrAlloc`, `HdrAllocFails`, `HdrRelease` |
| `mlx5e_free_rq` and close / open | `CloseRq`, `DrainCache`, `ReopenRq` |
| the NIC | `DeviceAccess` of any address at any time |

The mlx5 page cache, the page pool, the tree and the page table are kernel code
outside the repository; they are modelled from how the patch uses them and are
marked external in `PROJECT.json`. A page released by an XDP drop or a free
with `recycle` false goes to `kernel`, which also stands for the network stack
that still reads the packet. `lent` marks a cached page a packet may still
reference: `mlx5e_rx_cache_get` then may or may not take it.

*Strict protection.* `StrictDma` is what the driver is to keep, whatever its loops
look like: a batch is opened where none is, filled from what the kernel has, and
posted when all of it shows pages of the driver; a page goes back only if the batches that
still show it are being closed; a batch's addresses are free when nothing
is reached through them. `RxFaultFree` maps the receive path to it: the
batches are the ranges of the descriptors by phase, those being closed also the
ranges of the queues' jobs (`Closing`); `Seen` is what the device gets at an
address, from the IOTLB if it has an entry and else from the table; the driver's
pages are all but `kernel`.

| `StrictDma` | `RxMpwqe` |
|---|---|
| `Open`, `Map`, `Post` | `AllocStart`, `FillFromPool`, `PostWqe` |
| `Close`, `ReturnPage` | `FreeStart`, `FreeSlot` |
| `Revoke` | `FreeLast` (the table, but not the IOTLB), `SyncIotlb` |
| `Release` | `ReturnIova` |
| nothing | `DeviceAccess`, `CloseRq`, `ReopenRq`, `Spill` |

The last pages of batches may meet: a page of slots 0..62 goes back while its
batch is still reachable, so another queue may map it, post it, and give it back
with its own batch while the first is still being closed. For this reason
`Release` asks of its page what `ReturnPage` asks of its own, and does not
promise that the page is unreachable; it is, once every batch that was closing
has been released.

*Hint.* In `PagingCache` a CPU maps and unmaps the IOVAs from one to another, of
one page, inside a region or across regions of which the first and the last may be
covered in part. An unmap unlinks the leaf table of each region its range covers
whole and puts it on its freelist; the caller sets IH when the
freelist is empty, and the flush without IH drops the cached entries of every
region the range touches, those of live tables too. The device walks through a cached directory entry when there
is one. What the caller encodes into bit 6 is upstream code; the model takes
the freelist test from there.

*Tracers.* A context of `FuncLatency` is a task with the interrupts that run on
top of it, so its open calls form a stack. `Enter` and the two returns are the
traced kernel's steps and choose what the kprobe machinery does: the program runs
if its probe is attached and no program is active on the CPU, and a kretprobe
waits for the return if it has a free instance.

| Code | Actions |
|---|---|
| `kprobe` entry program (`bpf_ktime_get_ns`, store under the key) | `EntryProgram`; `CanStore` is the size of the map |
| a call whose return no exit program sees | `ReturnUnseen` |
| `kretprobe` exit program | `ReturnHooked`, then `ExitSample` (take the time, delete it, add to count, total, squares and histogram) or `ExitNothing` |
| loader, one function after the other, entry probe first | `AttachEntry`, `AttachExit` |

The guest's and the server's tracer keep times in task storage (a key per task);
the host's keeps them in one hash map under `pid_tgid`, which the idle tasks of
all CPUs share. `KeyOf` covers both. The fields `ts`, `blind`, `disturbed` and
`stray` of a call are history for the properties; no action reads them to decide
anything. `stats` and `histo` are the sums over the per-CPU copies.

*Experiment.* `VmRx`, `VmTx`, `Tx`, `Rx` are records of what the four scripts
(`vm-run-`, `vm-tx-run-`, `tx-run-`, `run-dctcp-tput-experiment.sh`) differ in:
metrics recorded per machine, reports copied and their new names, duration given
to the loader, memory statistics, throughput, final cleanup, the collector's
files. Time is counted in `CORE_DURATION_S`; only `Tick` lets it pass, and only
when nothing is about to happen.

| Code | Actions |
|---|---|
| `cleanup` (SIGINT, at once SIGKILL; quit the screen sessions), memory statistics | `Cleanup` |
| starting the loader and the recorders | `Start` |
| `record-host-metrics.sh`: wait for its turn, measure, open the report, parse | `Begin` or `Stall`, `Tick`, `Open`, `Parse` |
| `guest_loader`: attach, leave the loop, write | `Attached`, `StopTracing`, `Dumped` |
| SIGINT to the loader, `scp` of the remote reports, the sleeps | `Interrupt`, `CopyNext`, `Settle` |
| `collect-period-tput.sh` | `Period` |
| end of the loop body | `EndRun` |
| `collect-*-stats.py`, `report-tput-metrics.py` | `Collect`, `Report` |

A file of `Reports` keeps what its readers tell apart: whether its value is there
(`good`), was never written (`empty`), is blank or zero, the machine it was
measured on, and whether it is of this invocation (`new`), an earlier one (`old`)
or both (`mixed`, for the csv that is appended to). The parsers are functions of
what can be wrong with their logs (`CpuReport`, `RetxReport`, `PcieReport`,
`PeriodReport`), the collectors of the files (`CollectFails`, `Collected`).

*Plots.* A result is the experiment it comes from, so that a bar *is* the
directory its value was read from. `FigureTables` states for each figure function
of the four families of scripts the lists it reads and the figures it saves;
`PlotLibrary` has `get_data` (`Readable`, `GetData`), `get_ebpf_stats` (`EbpfStats`,
with no entry for an experiment without traces; `Savable`, that the directory it
writes the averages to is there), the choice of subplots and the drawing,
with the skip of series whose length does not match the labels; `Figures` runs them:
`ReadList`, `ReadFails` (the exception nobody catches), `DrawPlot`. The lists of the
bare-metal functions are read without traces (`WithoutTraces`).

## 3. Runs and bounds

| Run | Question | Instance |
|---|---|---|
| `iova` | Is the allocator right for mixed sizes? | 8 page frames, largest class 4, sizes 1 (a class), 3 (rounded up), 4 (the largest class): fragmentation, exhaustion, flush and spill all occur |
| `rx_happy` | Is the batched path right when nothing fails, for which reason, and does the exposure window close? | two queues with one descriptor each, 2 slots, 4 pages, page frames to 6, fair softirq |
| `rx_faults` | Are pages conserved under failures and header pages, and do refills end? | one queue, 3 pages, page frames to 3, failures of page and IOVA allocation, header pages, fair softirq |
| `rx_xdp` | ... and under XDP and map failures? | one queue, 2 pages, page frames to 3, XDP, failing mappings |
| `paging` | Is the hint safe and precise? | 2 CPUs, 3 ordered regions, 2 slots, every contiguous range (one that covers a region whole and its neighbours in part among them), 2 tables (fewer than regions: allocation can fail, tables are reused) |
| `trace` | Is a latency that of its call, and never too long? | a task with up to 2 nested calls, two idle tasks sharing a key, one function, a map of one entry, clock to 4, 3 buckets |
| `experiment` | Are the statistics of this invocation, of the right machine, one per run; does it end? | all four scripts, with and without files of an earlier invocation, two runs, one failure anywhere, a loader that takes up to one unit to attach and one to write |
| `figures` | Are figures whole, fresh and rightly labelled? | every script's main and every other figure function, empty or old figure directories, any one experiment without results or without traces, or no directory for the averages |
| `rx_unwind`, `rx_header`, `trace_variance`, `figures_labels` | Four statements of the code that it does not keep (section 5) | |

*Receive path.* `PagesPerWqe` stands for 64 and is 2: a first slot that is not last and a last
slot that is not first, with `63` and `64` written as `PagesPerWqe - 1` and
`PagesPerWqe`. Two queues suffice for interference, because a queue meets the
others only through the allocator and the page table. `CacheSize` is 1, so the
cache is both found full and found non-empty. The runs with failures use one
queue and few pages because an abandoned range stays mapped for ever and the
state space grows with every combination of leftovers; page frames 1 to 3 give an
allocation that succeeds, one that is exhausted and slots that map outside
their range. `rx_faults` and `rx_xdp` split the fault kinds for the same reason.
There are no counters to bound.

*Tracers.* `MaxClock`, `MaxDepth` and `MaxSamples` bound the run. Depth 2 is the
least with recursion; one map entry for two keys makes the map full; two idle
tasks are the least that share a key; a sampled duration of 0, of 1, 2 and 3
units falls into no bucket, the first two and the open-ended last one. The bounds stop
the system, so deadlock is not checked in the two tracer runs. The proofs hold without the
bounds' particular values.

*Experiment.* Two runs are the least in which a run follows another and a later
cleanup can hit an earlier loader. One failure is enough for every single-fault
statement; which failure, on which machine and in which run, is open. `MaxAttach = MaxDump = 1` are
the longest delays for which the script's own waits suffice (section 4).

*Figures.* The tables are the real ones; nothing is bounded but what is missing at a
time (the results or the traces of one experiment, or the directory of the averages).

Deadlock is checked in all other runs; the two sequential models end in an
explicit stuttering step.

Properties and the hazards they are about:

- `NoDoubleOwner`, `Consistent`, `NoLostBlock`, `KeepsPromise`: rounding, caching, flushing.
- `PageInOnePlace`: through every fault, unwind, recycle, XDP verdict and
  teardown a page is in exactly one place.
- `PostedMapped`: no other unmap takes a posted page's mapping away.
- `FaultFreeInv`: the bookkeeping behind the properties of the batched path: who holds
  which block, which slots are mapped where, and what a page remembers.
- `IotlbCoherent`: a stale translation exists only inside a pending invalidation.
- `MappedIsAllocated`: the device reaches nothing through a free IOVA.
- `ProtectedAtRest`, `ExposureEnds`: the free loop gives slots 0..62 back before
  slot 63 unmaps (lines 562-571); a page that the kernel has back is reachable
  only inside that batch free, and the batch free ends.
- `KeepsStrictPromise`: the same as a refinement, with the order in which a range is
  cleared, invalidated and freed: each step of the driver, interleaved with the
  other queues and the device, is one that `StrictDma` allows.
- `NoIovaLeak`: every allocated block has an owner that will free it.
- `UnmapsOwnRange`: the computed base is the descriptor's own range.
- `RefillEnds`: a refill that meets failures ends in a posted descriptor, or in an
  empty one with its queue open and at rest, so that it can be tried again.
- `NoFreedWalk`, `WalkIsCurrent`, `NoStaleTranslation`: a table freed or reused while
  another CPU or the device still holds its entry.
- `ExactUnlessDisturbed`, `ExactOrNothing`: an interrupt or a recursion between
  entry and exit, a time left behind by a missed return.
- `HistoBracketsTotal`: the logarithm's boundaries, against the sum.
- `ImplementsSampler`: every step is one of `CallSampler`, with shared keys,
  probes attached while functions run, and a full map.
- `TraceSurvivesCleanup`: SIGINT with SIGKILL right behind it, and a SIGINT that
  comes before the handler is there.
- `RetxFromSender`, `LocalNeverStale`, `OneFreshSamplePerRun`: reports missing,
  left over, copied too early or opened and never filled.
- `InvocationEnds`: no failure keeps a script waiting.
- `AllOrNothing`, `OneInvocation`, `NothingOverwritten`, `OthersAsLabelled`: lost
  results and traces, skipped figures, colliding names, lists against labels.

- `HintPrecise`: an entry of a table still in the tree is dropped only by the flush
  of a range that covers another region whole, so never by that of a descriptor's
  batch, which covers none.

`PostedMapped`, `MappedIsAllocated`, `ProtectedAtRest`, `NoIovaLeak`,
`UnmapsOwnRange` and `ExposureEnds` are claimed for runs without failures, XDP
or header pages only: with any of these the code does not keep the first five (TLC finds a short
counterexample for each), because each lets single pages leave a batch that is
unmapped only as a whole: the unwind and the header page for the reasons of
section 5, XDP because a redirected or transmitted page is unmapped and freed
alone inside the range its descriptor's last slot frees later, or never, when
XDP took that slot too.

`RetxFromSender` and `OneFreshSamplePerRun` say nothing of the `Rx` script:
`run-dctcp-tput-experiment.sh` never computes the throughput report its collector
opens first, so the collector never writes. `OneInvocation` is about runs that
get to their end: one that stops at a missing result leaves new figures beside
old ones.

### Fairness

`FairSpec` of `RxMpwqe` assumes weak fairness of `Continue(r)`: a softirq that
has begun a loop or an unmap runs it through, and the hardware completes an
invalidation. Nothing is assumed of the device, of new packets, of the calls that
begin work or of closing a queue. `Experiment` assumes `WF_vars(Next)`: programs
and shells run on. No branch of it is favoured, so `InvocationEnds` holds
whatever fails and however late a recorder begins.

## 4. Proofs

The theorems hold for every address space, every largest cached class, any
numbers of queues, descriptors, pages, slots, CPUs, contexts, functions and runs;
they assume only the named `ASSUME`s of the modules (each is evaluated by the
runs).

`IovaProofs`. The inductive invariant `IInv` is `TypeOK /\ NoDoubleOwner /\
Consistent`. `NoDoubleOwner` alone is not inductive: a cached range handed out
again overlaps nothing only because it is one whole block of the tree and that
block has no holder, which is what `Consistent` says; and a lookup by first
page frame (`free_iova`) removes one block only because blocks are apart. The
argument: `AllocEffect`, `FreeEffect` and `ShedEffect` say what each operation
does to the blocks in use; `FreshRange` carries it to held ranges through
`AllocSizeBounds` (a block covers the request, and for a cached size is exactly
one class). Theorems `IovaInvariant`, `IovaTypeOK`, `IovaConsistent`,
`IovaNoDoubleOwner`, `IovaNoLostBlock` (relative to `IInv`: an allocation adds a block with its
holder, a free passes the block to the cache or removes it) and `IovaKeepsPromise` (the refinement of
`RangeAlloc`, step by step).

`RxProofs`. The inductive invariant `RxInv` is `TypeOK /\ OwnedArePages /\
OneAtATime /\ IotlbCoherent`, with failures, XDP and header pages included.
`TypeOK` needs `OwnedArePages` (the page in the slot a loop stands at is a page,
so addresses computed from it are addresses) and `IotlbCoherent` needs
`OneAtATime`: one descriptor of a queue at a time is in a loop, and while an unmap
runs none is but one that unwinds. So a job that starts does not overwrite one that
still waits for its invalidation. One lemma per action, with common effects factored out
(`StartUnmapEffect`, `PhaseMoves`, `JobMoves`, `FewerSlots`). Theorems
`RxInvariant`, `RxTypeOK`, `RxIotlbCoherent`. `RxIotlbCoherent` is the part of
strict protection that survives every error path.

`RxPageProofs`. `RxPageInOnePlace`: conservation of pages, for all instances and
all failures, relative to `RxInv`. The places of a page are a disjoint union over
the kinds of place; each step either leaves every page where it is or moves one
page from a place of one kind to a place of another, and the two are matched by
the step's guard. There is one lemma per kind of place (what adds to it, what
takes from it) and one per action; the cardinality the property states is
derived at the end (`OnePlaceCounted`).

`RxFaultFreeProofs`. The protection the patch promises, for every number of queues,
descriptors, pages and slots, when nothing fails (`FaultFreeAssumption`): no fault, XDP
program or header split; a descriptor's range of a size the IOVA cache serves, which
is what the patch raises `IOVA_RANGE_CACHE_MAX_SIZE` for; and pages and ranges for every
descriptor of the machine, as a pool sized for its ring and an address space of gigabytes provide.
Each part is needed: section 5 and the end of section 3 say what happens without.

- *The invariant*, `FaultFreeInv`, relative to `RxInv` and page conservation. The blocks
  the allocator has in use are exactly those of the active descriptors and of the unmaps
  under way, each with one holder (`BlocksHeld`, `OneHolder`); a filled slot `i` is mapped at
  page `i` of its range, and nothing else is mapped (`SlotsMapped`, `OnlySlotsMapped`);
  and a page a descriptor still owes remembers that address (`AddressKept`). The
  last is what the free path relies on when it computes the base of the range
  from the address kept in slot 63's page. No property is inductive alone: that
  an unmap takes no mapping of another descriptor needs that ranges have one holder, which
  needs that the computed base is right, which needs the addresses kept.
- *Counting.* A refill that finds no page or no range would unwind, and an
  unwinding descriptor breaks all of this. `SparePage` and `SpareHome` show by the pigeonhole
  principle that it finds them: a descriptor that is not yet full leaves a page with the kernel, and an
  inactive one leaves a home, a place for an aligned block that nobody holds.
  `SpareHome` needs that a holder is a descriptor: a queue's unmap is of
  a descriptor that is off the ring (`JobIsBatch`).
- *Theorems* `RxFaultFree`, `RxPostedMapped`, `RxMappedIsAllocated`, `RxProtectedAtRest`,
  `RxNoIovaLeak`, `RxUnmapsOwnRange`; and `RxSubtractsToBeginning`: the two statements that `rx_header` and
  `rx_unwind` refute (section 5) are true here, so header pages and error paths are the only
  things that make them false.

- *The refinement* of `StrictDma`, `RxKeepsStrictPromise`, from the same invariant. There is one
  lemma per action of the driver that shows (`AllocOpens` to `ReturnReleases`) and
  one for the rest (`OthersUnseen`). Each needs to know where an address can be seen from:
  a filled slot, or a job that still waits for its invalidation (`SeenFrom`). Thus the
  address a slot is mapped at was unreachable before, through the IOTLB as well; a
  range whose invalidation has completed is unreachable (`JobSpan`); and a page that goes
  back, which no slot owes any more, is seen in ranges being freed only (`SeenClosing`).
- *What is promised*. `StrictDmaProtects` proves of `StrictDma`'s behaviours, and so of whatever
  implements it, that batches are apart, that the device reaches nothing else, that a posted batch shows
  the driver's pages only and that a page it has given back is seen in batches being
  closed only (`Protected`). `DmaInv` adds that no batch is in two phases, without which
  a page of a posted batch could go back. `RxStrictlyProtected` is the conclusion
  for the receive path.

`PagingProofs`. The inductive invariant `PagingInv` says that a cached directory
entry is current or waits for the invalidation of the CPU that has unlinked its
table (`CachedIsCurrentOrPending`), that no address has two owners (`Ownership`),
that a table is free, on one freelist or in one region (`TableInOnePlace`), and
that the regions a CPU has unlinked stay out of the tree until it is done
(`Unlinked`). `NoFreedWalk` alone is not inductive: it does not say who
invalidates an entry whose table is on a freelist. `PagingTypeOK`,
`PagingNoFreedWalk`, `PagingWalkIsCurrent`, `PagingNoStaleTranslation` and
`PagingHintPrecise` follow, for any number of regions, slots and tables and any
order of the addresses (`OrderAssumption`). The precision needs `Unlinked`: a flush
drops a live table's entry only without IH, so with a table on the CPU's
freelist, and the region of that table is one its range covers whole.

`FuncLatencyProofs`. The inductive invariant `TracerInv` adds to the types that
a stored time is past and was stored by an attached entry program (`StoreOK`),
and for each open call that the time under its key is not before the call, once
the call's entry program has run and if an exit program is to run for it
(`NotBefore`). This is not inductive without `Nested`: calls that begin while a
program runs return before it goes on, and no program runs for them, which is why
a call whose entry was suppressed never takes an older time. Theorems
`TracerTypeOK` and `TracerImplementsSampler`: with calls stripped of the probes'
state, each step of the tracer is a step of `CallSampler` or a stutter.

*Exactness.* For a context with a key of its own, `ExactInv` adds to
`TracerInv` for each open call: the stored time is its own while no nested call of
the function has stored one (`OwnTime`); it is its own, that of a nested call that has not
returned, or none, while no nested return was missed (`OwnOrInner`); what
the two marks imply (`Marks`); and that an entry program still to run has stored
nothing (`NotYet`). `TracerExactUnlessDisturbed` and `TracerExactOrNothing` are
what it says of the innermost call at its exit program.

*The histogram.* `TracerHistoBracketsTotal` follows from what each step adds to both sides
(`HistoSampled`): a sample adds its duration to the total and the ends of its
bucket to the sums, and `BucketHolds` says that the duration lies between these, up to the
open-ended bucket. The sum over the buckets is a recursive function. Induction
over it is out of the provers' reach, but not a least counterexample: by `LeastNat` (from the library's
well-foundedness of strict inclusion on finite sets) running sums exist and are unique
(`SumsExist`, `SumsUnique`), so the sum is the last of any running sums one can
name (`SumIs`), and for a histogram with one sample more these are written down (`SumCounted`).

`ExperimentProofs`. `ExperimentStats` is the provenance of reports: what lies
under a name in the script's directories was written by its own recorder, or
copied from the machine the name stands for (`Origins`, with `FromRemote` for the
machines' own directories), and what the own machine records has been opened anew
in each run that has been measured (`FreshWhenMeasured`; while recording, up to the metric the
recorder is at: `FreshWhileRecording`). `ExperimentLocalNeverStale` and
`ExperimentRetxFromSender` follow when the collector has read the files; the latter also needs
`NoTput`, that a script which never computes the throughput has a collector that never writes.
`ExperimentTypeOK` completes the types. `NumRuns` and the number of failures are
arbitrary; the table of the four scripts is the code's.

- *The loader*, `TraceInv` (theorems `ExperimentTrace`, `ExperimentTraceSurvivesCleanup`), with
  all failures. The scripts only sleep, so nothing tells them that the loader is done;
  `LoaderInTime` relates its clock to theirs. While it attaches, its clock is the number of
  metrics the local recorder has measured (`Elapsed`), so it cannot be attaching when the
  recorder returns and the SIGINT is sent; once it writes, its clock and what remains of the settling
  wait add up to at least the whole wait, so it cannot be writing when the wait is over.
  `TraceWritten` adds that a loader that is off has written the report of its run. This
  is the one argument that needs `WaitsAssumption`: the loader attaches in fewer units than there are local
  metrics and writes in fewer than the settling wait has. The code cannot guarantee it, its
  sleeps take it for granted, and it is tight: with `MaxAttach` or `MaxDump` at 2 TLC finds
  a run without its report.
- *Whole statistics*, `WholeInv` (theorems `ExperimentWhole`, `ExperimentOneFreshSamplePerRun`),
  when nothing failed and no copy came too early, however long the loader takes. It follows
  a report on its way: a machine's own directory has it whole unless its recorder has it still to
  write (`RecordersGood`), so a copy that is not too early is whole (`CopiesGood`), so a run
  that is over has all of them (`RunsGood`) and the collector neither ends early
  nor skips one (`Printed`). It rests on `AtRest`: the script waits for its own recorder, and the
  last cleanup ends the loader before the statistics are made.

Model-checked only:

- `Figures`: its only parameter is a set of rows of a finite table, and the run takes
  all of them: a proof for every value would say no more. What a figure shows is
  decided by that table, entry by entry, and the plots of a function are put in a row by
  recursive operators on sequences, which only an induction over data could reason about.
- All liveness, which is out of the prover's reach, as is ENABLED.

No module declares a recursive operator.

## 5. Disagreements with the code's own statements

- `rx_unwind`: `iommu_dma_unmap_page_iova` expects the batch's first page to be
  mapped (`WARN_ON(!phys)`, line 196). After a failed page allocation the unwind
  (669-676) leaves the pages it had taken from the pool mapped and does not free the
  range, and pages it caches keep addresses of that range. A later descriptor takes one for its first slot, so the
  first page of its own range is never mapped: its free warns and skips the unmap.
- `rx_header`: "It will automatically subtract to get the beginning" (line 570).
  A recycled header page is handed to the last slot with an address of its own;
  the subtraction then gives another range.
- `trace_variance`: the loader calls what it reports "variance in µs units =
  E[x²] – (E[x])²" (`guest_loader.c:357`). The program squares durations cut to
  whole microseconds (`guest_tracer.bpf.c:124-125`) while the mean is exact, so
  the result can be negative; the output recorded in
  `scripts/report-tput-metrics.py:38-51` shows one.
- `figures_labels`: `siyuan_Evaluation_main.py` makes the list `z_val_100` of the
  directories of z=1 (2152-2153) and draws it under "z=100" (2250); the second
  sensitivity figure gives one legend to three values of z (2286-2289), and the
  transmit motivation figure puts values of 4 to 24 cores under labels that start
  at one core (1209, 1229). `OthersAsLabelled` shows that no other modelled figure function differs.

## 6. Not modelled

- *Kernel*: non-strict mode (the flush queue is code outside the repository);
  caching mode, where alone the place of `iotlb_sync_map` matters: what is
  invalidated there is outside the repository and nothing in it says what a batch
  should see; identity domains; swiotlb bounce buffers, unaligned buffers, devices
  outside the IOMMU (`fands` false: the upstream path, with `recycle`), AF_XDP,
  scatterlists, eviction from the IOTLB (it would only remove stale entries
  sooner), the fragment bookkeeping of the cyclic queue, the contents of packets.
- *Tracers*: `func_call_counts` (a plain counter), the layout of the loaders'
  reports, `reader.c`, the host's and the server's loaders, which are the guest's
  with other probes.
- *Experiments*: perf, ftrace, the MLC tool, the host's loader and the network setup of a run; RDMA,
  membw and IIO recorders (switched off by every script); the latency and RDMA collectors,
  `parse_kvm_perf.py`, `parse_tcplog.py`.
- *Plots*: functions that are copies of a modelled one in another script, the
  single-purpose scripts (`plot_3virt.py`, `siyuan_plot_VM_exit.py`,
  `siyuan_invalidation_breakdown.py`, `plot_mem.py`, `plot_vm.py`,
  `sosp24-experiments/plot.py`), layout, colours, error bars. Scripts that write figures of the same name
  in the same directory are not run after one another: nothing says which should
  win.
- *Setup*: host and network configuration.

## 7. What could follow

1. The cyclic receive queue's fragments, once its code is in the repository and
   not only its two calls.
2. A refinement of a weaker abstract protection by the receive path with failures: of
   `StrictDma` it keeps only what `IotlbCoherent` says.
