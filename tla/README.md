# TLA+ models of the DeepSeek-V4.1 TP4 serving stack

The repository serves a large model on four nodes: an SGLang engine whose
behaviour is changed by the adapters in `src/adapter/`, a RoCE all-reduce
library in `src/runtime/b12x/b12x/comm/roce_twoshot/`, Engram tables (up to
hundreds of GB) read row by row from NVMe by `src/adapter/row_store.cpp`, and
scripts that pack those tables and start the nodes. This directory models the
parts in which threads, streams, network writes, crashes or schedulers
interleave; numeric kernels are out of scope.

Run a model with `tlc -config X.cfg MCModule`, check proofs with
`tlapm ModuleProofs.tla`.

## Inventory

| Component | State | Operations | What is hard | Correct means |
|---|---|---|---|---|
| Engram worker pool (`row_store.cpp`, `Pool`) | job, ticket counter, two counters waited on, generation, two locks, two condition variables | `run`, `drain`, `loop`, `row_store_lookup` | `remaining_` changes outside the lock; workers join late; `Work` objects are reused | each row once, all rows at return, no write afterwards, every call returns |
| Engram row store (`row_store.cpp`, `engram_backend.py`) | owned range, pinned scales, packed shard, set-associative cache, set locks | open, range, attach, `serve`, `fetch_row`, close | bytes read outside the lock and inserted later; three sources for one row | a row delivered is the checkpoint's row of that id |
| Engram streams (`engram_backend.py`, `engram_prefetch.py`) | staging buffers, pending prefetch per layer, disabled flag, CUDA streams | hash, prefetch, owned, error handler | host runs ahead of the device; two streams share one staging set | a gather reads its own forward's rows |
| Packed shard (`pack_engram.py`, `row_store_attach_packed`) | `.partial`, target, what the disk would bring back | pack, fsync, rename, attach | kill or power loss between any two steps; raw writes that come short; checkpoint opened twice and replaced | torn only where the size shows it, never served torn, eventually there, never another checkpoint's |
| RoCE one-shot all-reduce (`_oneshot_cute.py`, `roce_oneshot.py`, `_roce_proxy.c`) | epoch, poison, grid counters, doorbell, two send and receive slots, flags, send queues | launch, kernel blocks, proxy poll, post, stop, start, health check | kernel, proxy and NIC run on their own; one-sided writes; timeouts; wrap of the sequence | a rank reduces the payload of its own operation, all of it, or reports an error |
| RoCE idle parking (`_roce_idle_park.h`, `roce_idle_park.py`) | `allow`, `gen` (futex), `running`, doorbell | idle, wake, kick, park | check-then-sleep against a concurrent wake | no lost wakeup, stop returns |
| RoCE two-shot all-reduce (`_twoshot_cute.py`, `_twoshot_plan.py`, `_roce_proxy.c`) | chunk-ready words, one set of pipe buffers, two flags per chunk and phase, the kind word of a slot | pipelined reduce-scatter and all-gather, release of the buffers | staging reused by operations of other lengths and kinds; failure in the middle of a pipeline | every chunk read or sent is the operation's own, a healthy rank has the whole result |
| RoCE all-gather (`_allgather_cute.py`) | that of the one-shot operation | copy in place of the sum | the one-shot operation's | not modelled apart |
| Decode yield, prefill bypass (`decode_yield.py`, `prefill_bypass.py`) | yield budget, chunked request and its parked flag, queue, middle chunks in flight | deferral, bypass scan, solo pass, resume | results a round late, aborts, stale fields of reused batches, endless short requests | no token skipped, chunks as on an idle server, streams get their share, no starvation |
| SWA thinning and cone replay (`swa_thin.py`, `swa_cone.py`) | radix-cache tombstones, windows | thin, replay | freed pages against later matches | planned |
| Loop abort (`loop_abort.py`) | history window per request | observe committed tokens | overlap of results and aborts | planned |
| Fast load (`fast_load.py`) | slab pool, reader threads | read, release | buffers recycled while read | planned |
| Heap trim (`heap_trim2.py`) | trim state | idle trim | trim against a new batch | planned |
| Spec-decoding results (`folded_result_fence.py`, `verify_cap.py`, `spec_sync_free.py`, `history_repair.py`) | result views, verify length | fence, cap | in-graph overwrite of a view still being copied | planned in part |
| A/B variants, autotune (`ab_variant.py`, `autotune_keep.py`) | chosen variant, cache files | switch, keep | all ranks must switch at the same request | planned |
| Launcher (`start.sh`, `start-tp4.sh`, `boot.py`) | containers, marker files | start, stop | partial start over ssh | planned in part |
| Numeric kernels, weight transforms | tensors | kernels | rounding | not modelled: real-valued |
| Import hooks, source patchers | none after import | text edits | none | not modelled |
| Tool-call detector (`deepseekv41_detector.py`) | parser buffer | incremental parse | split tokens | planned last |
| Vendored kernels | - | - | - | third-party |

How they meet: a forward's host callback (streams) calls `row_store_lookup`
(pool), whose threads call `serve` (row store), which reads the packed shard.
The scheduler parks and wakes the proxy; the proxy posts what the all-reduce
kernels ring; kernels of different ranks meet only through one-sided writes,
and one-shot and two-shot operations share the epoch, the doorbell and the
slots. The yield and the bypass are hooks in one scheduler: a solo pass arms no
yield, a yield defers solo passes.
`PROJECT.json` lists the hazards with the line where each one bites.

## Modules

`MC*.tla` hold only the finite values of the constants; `*Proofs.tla` only
theorems. Mutants (definitions with a comment "Mutant of X") are plausible bugs:
with X replaced by one of them, the property named with it in `PROJECT.json`
fails.

* **RowPool** - threads are program counters through `run`, `drain` and `loop`.
  A critical section without a wait is one step; a wait is two (evaluate the
  predicate under `mutex_`, then retire or sleep), which is where a notification
  could get lost. `Work` is named by its caller, so `written[c]` is a caller's
  buffer and a stale `work[t]` would write into it. Spurious wakeups happen.
  The shutdown path is not modelled: the pool is never destroyed. The NVMe
  keepalive thread shares nothing with a lookup.
* **RowLookup** - the abstract specification: between call and return each row
  is written, nothing at any other time. RowPool implements it with
  `busy[c] = (pc[c] # "idle")`.
* **RowStore** - a row is the pair of positions its weight and scale bytes came
  from, so a mix of two rows, or a scale from another row, is visible. The
  memory copy into a way and the publication of its key are separate steps.
  `-1` and `NumRows` are among the ids asked for: the code aborts there.
* **EngramStreams** - queues of work per stream; a copy or a callback reads its
  source in one step and writes its result in a later one. A buffer holds the
  number of the forward its content belongs to, and a piece of work the number
  of the forward that enqueued it.
* **PackedShard** - a file is measured in units, the grain at which a write may
  be cut (a byte in the code): its header, and a body each of whose units names
  the checkpoint it was read from, the checkpoint whose offsets it was read at,
  and its place. The packer opens the checkpoint twice, for the offsets
  (`StartPack`) and for the rows (`OpenFiles`); a replacement may come in
  between. `.partial` is written without a buffer and nobody looks at the counts,
  so `WriteChunk` may write any part of a chunk, and the header may be cut too;
  a short write counts as a fault. `durable` is what a power loss may bring back;
  it turns any unit of unsynced data to `Lost`. `Replace` puts a new file in
  place, so a file that is open stays what it is. Failed writes that raise are a
  `Kill`.
* **RoceOneShot** - per rank: blocks of a kernel, the proxy thread, the queue
  pairs to every peer on every HCA. Payload is the sequence number, per block
  cell and per stripe. The two 32-bit grid counters are never reset and are kept
  modulo the largest grid, as only arrival modulo the grid is looked at (grid
  sizes are powers of two). RC queue pairs are external: in order, exactly once,
  payload before flag, until the pair breaks. A dead proxy, a throttled post, a
  stop in the middle of an operation and a restart from `last_seq` are all
  there. The doorbell's acquire/release pairs are taken as what the code's
  fences make them: sequentially consistent.
* **IdlePark** - every shared access of scheduler and proxy is a step. The park
  clock is a choice. The futex compares and sleeps atomically. Statistics are
  left out. `Ring` uses the result of RoceOneShot that at most two doorbells are
  pending.

* **RoceTwoShot** - extends RoceOneShot, whose proxy, poison and epoch it uses,
  with the second kind of operation on the same doorbell. A `Plan` gives the
  length of every operation in packs (0 is a one-shot), and `shard_start` and
  `chunk_packs` are the code's arithmetic, so that shards really move when the
  length changes. Blocks stage, wait, reduce and copy chunk by chunk; the proxy's
  pipe loop posts what the ready words allow, waits for its completions and
  releases the kernel through `pipe_done`. A cell of a buffer holds the operation
  and the phase of its content. A launch after a failure does nothing, so a
  poisoned rank is not launched again. A two-shot operation at sequence 0 is not
  reachable: the kernels refuse it, as they do in RoceOneShot.
* **PrefillScheduler** - one step is one round of the scheduler: stash, merge,
  deferral, prefill pass or decode, launch, results. The adapters' parts are
  translated; the engine around them (`stash_chunked_request`, the merge,
  `add_chunked_req`, stock admission, results under overlap, the abort of a
  chunked request) is external and follows what the patches' anchors and the
  mocks of `tests/test_decode_yield.py` and `tests/test_prefill_bypass*.py` show
  of it. What memory admits is a choice, except that a chunk of the prompt in
  flight always fits. `computed` is history: how far batches have really
  computed the prompt, without a gap. Requests that left may arrive again, so
  arrivals never end.

## Runs

Sizes are distinct states.

| Run | Checks | Instance and why it is enough |
|---|---|---|
| `row_pool` (377 k) | `TypeOK`, `NoStaleDrain`, `ServedOnce`, `ReturnedComplete`, `NoLateWrite`, refinement `LookupSpec`, liveness `EveryLookupReturns` | two callers, two workers, two pool jobs, counts 1 (serial path) and 2 (pool). Two generations are needed for a worker of the first to meet the second; with two workers one can be last finisher while the other comes late |
| `row_store_exact` | `TypeOK`, `RowExact`, `CacheCoherent` | nine rows over two ranks: five owned rows for two sets of two ways, so ways are evicted; one lock shared by both sets; five lookups by two threads |
| `roce_ranks` (849 k) | `ReducesOwnOp`, `SendSlotIntact`, `LockStep` | three ranks, so a rank can be ahead of one peer and level with another; three operations: each slot is used again before the guard |
| `roce_faults` (1.7 M) | `TypeOK`, `ReducesOwnOp`, `HealthyIsComplete`, `EpochOverFailure` | two ranks, grids of one and two blocks on one runtime, any spin may expire at any time, one queue pair breaks, the proxy of rank 0 is stopped and restarted at any point |
| `roce_twoshot` (427 k) | `PipeReadsOwnOp`, `PipeSendIntact`, `OpensAsLaunched`, `HealthyIsWhole` | three plans: operations of 4 and 3 packs in two chunks (shards move, one lacks its second chunk) with two blocks; 2 and 1 packs with timeouts and a broken queue pair; a two-shot and two one-shot operations, so that a slot is used by both kinds |
| `roce_complete` (184 k) | `ReducesOwnOp`, `PipeReadsOwnOp`, `PipeSendIntact`, liveness `PipeComplete` | two HCAs, send queues of depth one, the proxy of rank 0 stopped anywhere in operations of either kind and restarted |
| `prefill_scheduler` (32 k) | `PrefixComputed`, `ChunkAlone`, `FirstToken`, `ShareHonoured`, `YieldIsOwed`, liveness `LongServed` | prompts of three, two and a half chunks; both modes of the bypass; results at once and a round late. A yield lasts two or three rounds, so that rows join and leave inside it, and the cap of three steps binds for some of them. The smallest batch for the stock interval is 1, so both sides of that test occur |
| `idle_park` (15 k) | `TypeOK`, `SleepsOnlyIdle`, liveness `EveryDoorbellPosted`, `StopReturns` | five doorbells, four idle periods: a whole wake, forward and idle mark fits between two steps of the proxy |
| `packed_shard_safe` (961 k) | `ServedWhole`, `TornIsShort`, liveness `PackCompletes` | three checkpoints of 3, 3 and 2 units, chunks of 2: two have the same size, and a shard of one that lacks a unit has the size of the third; two faults, so a short write can be followed by a power loss and a recovery is interrupted too |
| `packed_shard_stale` | `ServedCurrent`, violated | no fault needed |
| `engram_prefetch` (8 k) | `GatherExact`, `LookupUndisturbed` | two layers, three forwards, check mode, a raise in the last one |
| `engram_raise` | `GatherExact`, violated | a raise in any of two forwards |

`CHECK_DEADLOCK FALSE` is given where a bounded workload ends, a rank stops after
an error, or the process aborts. The packer's run checks deadlock.

### What the violations show

* `packed_shard_stale`: nothing in a packed shard names the checkpoint it was
  made from. If the checkpoint is replaced by one of the same geometry, the
  packer sees a file of the expected size and skips it, and the server attaches
  it. `row_store.cpp:497` says a wrong shard "must never be served". Nor does
  anything tie the rows to the header: the checkpoint is opened once for its
  offsets and again for its rows, and a replacement in between packs one
  checkpoint's bytes at the other's offsets.
* `engram_raise`: when `_prefetch` raises, the handler drops `_pending` of every
  layer without joining the side streams. The synchronous path of the next
  forward then shares staging with a side stream that may still hold an ids copy
  or a lookup. It needs an error in the prefetch and a side stream delayed by a
  forward. In the forward in which it raises, the gather is still exact, which
  `engram_prefetch` shows.

`pack_engram.py:86` ignores the count of a raw write (`buffering=0` at line 70).
If one comes short (the disk fills up within the last block, or `--chunk-rows`
makes a block larger than one call takes), the file is synced, renamed and
reported as "wrote ... GiB" with its expected size, rows missing. So the name may
stand over a torn file, and no property says otherwise. `TornIsShort` and
`ServedWhole` say what limits the damage: such a file is shorter than its header
says, so the server refuses it (it aborts), and `PackCompletes`: the packer, when
run again, replaces it. A short shard that happens to have the size of another
checkpoint's is skipped by the packer once that checkpoint is in place, as the
packer compares sizes only; the server refuses it by its row count.

Two sentences of `decode_yield.py:17-18` say more than the code does, in cases
far from the production profile: "never shorter than the configured interval"
and "never longer than 128 decode steps". Both limits are turned into time at
the batch size the chunk ran beside, and each step is charged at the current
size: if rows join (short requests admitted beside the chunk), a yield near the
lower limit can end after fewer steps, and if rows leave, one near the upper
limit runs more. `ShareHonoured` states the limit in time, which is what holds.
A yield is also charged for rows that have finished and are dropped in the same
round, so the round in which the last stream ends may be idle once.

Two comments are outdated without consequences: `_roce_proxy.c:54-56` says that
one-shot operations are unaffected by the wrap, while the kernel fails closed
there (`_oneshot_cute.py:241-247`, modelled in `StartBlock`); and
`_roce_idle_park.h:174` defines the `late` statistic by wakes "while we were
parked", while `parked` is set before the base generation is read.

### Fairness

* RowPool: callers are scheduled; a worker that holds `mutex_` or took a job
  continues. A worker asleep, or woken and not yet running, gets none: the
  code's comment claims that progress never depends on a wakeup, and this checks
  it. Spurious wakeups are finitely many in each behaviour (an endless series of
  them is not fairness the code could rely on or against).
* RoceTwoShot: one weak fairness condition on "some rank makes progress" (a step
  of a block, the proxy, the network, a launch or a restart). The instance is
  finite and no such step can be undone or repeated for ever, so this says that
  nobody stops for good, without saying who runs when: blocks of a kernel are
  co-resident on the GPU (the grid is bounded for that), the proxy is a running
  thread, the NIC delivers, the host launches and restarts a stopped proxy.
  Spins have no fairness: nothing depends on a timeout.
* PrefillScheduler: the event loop calls the scheduler again and again. Nothing
  is assumed of arrivals, of the end of a stream, or of aborts.
* IdlePark: the proxy's steps and a begun wake. The backstop poll has none, so
  the wake protocol must do without it.
* PackedShard: the packer is run again after each fault; finitely many faults
  (kills, power losses, short reads and short writes).

## Proofs

All for every value of the constants allowed by the assumptions named in the
modules.

* **RowPoolProofs** (any finite sets of callers and workers, any counts, any
  number of jobs). The properties are not inductive: `ServedOnce` depends on
  which tickets are out, and `NoStaleDrain` on what `active_` counts. `PoolInv`
  adds: `LockInv` (who holds which lock at which place), `JobInv` (`active_` is
  the number of workers between take and leave, all on `job_`), `TicketInv`
  (tickets held are distinct and below `next_`; `written[job_]` is exactly the
  tickets given out and not still held for serving; `remaining_` is the number
  of rows whose server has not said so), `BufferInv`. One lemma per action shows
  it preserved. From it: `TypeCorrect`, `DrainsOnlyTheJob`, `EachRowServedOnce`,
  `ReturnsComplete`, `BuffersQuietAfterReturn` (an action property), and
  `PoolImplementsLookup`, the refinement of `RowLookup` (safety).
* **RowStoreProofs** (any table, rank, cache geometry and number of locks,
  locks may be shared between sets). `StoreInv` adds to the properties where the
  shards are indexed from (`ShardInv`), that a thread at work in a set holds its
  lock (`LockInv`), and what each thread carries (`CarryInv`). From it:
  `StoreTypes`, `RowsAreExact`, `CacheIsCoherent`.
* **IdleParkProofs** (any number of doorbells and idle periods). `IdleInv` says
  that for as long as `gen` is what the proxy read, what it has checked since
  still holds, because the engine clears `allow` and `running` before it bumps
  `gen` and rings only when busy. From it: `ParkTypes`, `NoLostWakeup`.
* **PackedShardProofs** (any checkpoints, sizes, chunk size and number of
  faults). `TornIsShort` is not inductive: a short write followed by further
  chunks leaves a body with a gap, and what makes the gap visible is that the
  file can never catch up with the loop. `ShardInv` says so of `.partial`: its
  rows are of one file and one set of offsets, it is no longer than the loop has
  come, and if it is as long, its header is there and every unit in its place;
  after the loop it is synced before it is renamed. Of the named files, now and
  after a power loss, it says that they are synced, of one pack, no longer than
  their header promises, and whole if as long. From it: `TornOnlyByShortWrite`
  (`TornIsShort`), and `ServesWholeShards` (`ServedWhole`), for which the length
  check of the server is needed.
* **RoceOneShotProofs** (any ranks, HCAs, blocks and grids, any number of
  operations, expired spins, broken queue pairs and stopped proxies). The
  properties speak of two ranks that share no memory, so `RoceInv` follows an
  operation from one to the other: `KernelInv` (blocks, slots and doorbell of
  the operation after the epoch), `StageInv` and `TailInv` (a counter that is
  never reset, modulo a grid size, counts the current operation's arrivals if
  it has that size and is 0 otherwise: this is where grids of several sizes
  share a runtime), `ProxyInv` (the operation the proxy has open), `LinkInv`
  (every write in flight and every flag was posted; a queue is in order, except
  that a rank with a broken pair may post its open operation again; a receive
  slot holds what its flag names until the head of the queue overwrites it) and
  `EpochInv` (an epoch was seen from every peer, and a broken link holds its
  peer back, which is why posting again does no harm). From it: `RoceTypes`,
  `RoceReducesOwnOp`, `RoceSendSlotIntact`, `RoceLockStep`,
  `RoceHealthyIsComplete` and the action property `RoceEpochOverFailure`.

  These theorems assume `Depth >= 2`, a send queue of at least two operations;
  the code has 64 (`ROCE_SEND_DEPTH / 4`). The assumption is needed: with depth
  one, two HCAs and a proxy stopped while it is throttled on one of them, the
  operation is posted again on the other after the restart, with its first copy
  still in the queue and no queue pair broken, and TLC finds `SendSlotIntact`
  violated. With depth two the throttle and the two-slot protocol exclude it.
  (`roce_complete` has depth one, so that a few operations meet the throttle;
  what it checks holds there.)
* **RoceTwoShotProofs** (as above, and any plan of operations of both kinds, any
  number of packs, chunk size and number of pipe blocks). The invariant has three
  layers; each is inductive given the ones before it.

  `KernelLayer` is a rank's kernel by itself: where a block may be (`PlaceInv`),
  what the never-reset counters count when grids of one-shot operations and the
  pipe's blocks share a runtime (`CounterInv`), and that a chunk whose ready word
  names the operation has been filled (`ReadyInv`). It rests on the geometry:
  the chunks of a shard are disjoint and make it up, the shards make up the
  message, there are at most `MaxChunks`, and the blocks' shares make up a
  chunk. It needs no assumption on `Depth`.

  `OrderLayer` follows an operation to the peers: what the proxy has open
  (`OpenInv`), that `pipe_done` is not set before the queues are empty
  (`DoneInv`), which writes and flags were posted, in order (`PostedInv`,
  `BrokenInv`), and which flags a kernel has waited for (`AwaitedInv`), hence
  that ranks are at most one operation apart.

  `DataLayer` says that a chunk which was delivered, and which its receiver has
  still to read, holds its operation's data. The pipe has one set of receive
  buffers and no acknowledgement, so the proof must show that nobody overwrites
  an unread chunk: a rank writes the reduce-scatter chunks of an operation only
  after every peer has sent it the all-gather of the previous one, which that
  peer could do only when it had read the previous reduce-scatter; it writes
  all-gather chunks only after the peers' reduce-scatter flags of this operation,
  which they send only when they have copied the previous result.

  From the first: `TwoShotHealthyIsWhole`. From the second, with `Depth >= 2`:
  `TwoShotOpensAsLaunched`, `TwoShotSendIntact`. From the third, with
  `Depth >= 2`: `TwoShotReadsOwnOp`. The proof of `PipeSendIntact` showed that it
  needs no exception for a broken queue pair, and it is now stated without one.
* **EngramStreamsProofs** (any layers and forwards, check mode on or off). Work
  on one stream is safe because of where it stands behind work on another, so
  `StreamsInv` describes the queues: what the host has enqueued of the current
  forward (`HostInv`), the order of the main stream (`MainOrder`, `MainWork`)
  and of a side stream (`SideWork`), that a side stream's wait is for the hash
  of its own forward (`Forked`), that each piece of side work is joined in its
  own forward or will be (`Joined`), that a prefetch of the device's forward is
  queued or has arrived (`Fetched`), and what the copy that is running has read
  (`Reads`). From it: `ExactUntilRaise` and `LookupsUndisturbed` without any
  hypothesis, and `PrefetchGathersExact`, which is `GatherExact` for runs in
  which no forward follows the first that may raise. Beyond that nothing is
  claimed, since `engram_raise` shows it false.
* **PrefillSchedulerProofs** (any finite set of requests, prompt lengths, chunk
  size, limits, percentage, cap and cost model; solo passes and overlap on or
  off). `SchedInv` says that a request is in one place (`Places`: free, queued,
  running, in the last batch, or the chunked one), what its record says there
  (`Recorded`: among others `inflight_middle_chunks` is 1 exactly for a chunk
  whose result is still to come), that one solo pass leaves the parked mark
  (`Alternating`), and that the time left of a yield and the time given make up
  the time owed, and beside a chunked request no time is left unless some is owed
  (`Shared`). The three prefill passes are shown to be instances
  of one description of what a pass may do to a record (`Admits`), and the
  invariant is proved once for that. The removal of a batch from the queue and
  the sum of a batch's tokens are recursive functions; what they return is
  proved from a least counterexample. From the invariant:
  `SchedulerPrefixComputed`, `SchedulerFirstToken`, `SchedulerChunkAlone`,
  `SchedulerAlternate` and the action properties `SchedulerShare` and
  `SchedulerYieldIsOwed`. The last needs that a token of a chunk costs at least
  one unit of time (`ChunkBase >= ChunkSize`; 165 us per token in the code).

Each inductive invariant was first checked with TLC on small instances like
those of the runs.

Only model-checked: all liveness (`EveryLookupReturns`, `PipeComplete`,
`EveryDoorbellPosted`, `StopReturns`, `PackCompletes`, `LongServed`), which is
out of the prover's reach. Every invariant and every action property of a passing
run is stated by a theorem (`GatherExact` as far as it holds, see above).
`SchedulerAlternate` (at most one solo pass between two chunks) is proved only;
what it is for, that solo passes do not starve the prompt, is part of
`LongServed`.

## Not modelled

The components marked so in the table. Inside modelled components: queue-pair
setup and address exchange; the memory the cache is allocated from; statistics
and logging; size classes of the staging (one set of buffers per layer);
addresses of ids tensors (`_pending` is matched by forward number, not by
address and shape: every forward overwrites it for all layers before any gather,
and the error handler clears it); share by request id (test only) and the
refusals to install of the yield and the bypass; retraction and preemption of
requests in the scheduler.

One read is coarser than the code's: the all-reduce kernel loads the poison word
in every thread (`_oneshot_cute.py:248`, `:302`), the model once per block. The
two agree unless another block of the same kernel reaches its spin limit between
the loads of two threads of one block, which start together. The models take it
that this does not happen, although otherwise a spin may expire at any time. If
it did at `:248`, thread 0 could ring the doorbell for a cell that the late
threads skipped, and the peers would sum what was there before; at `:302`, the
block would store a part of its sum under an error word that is already set.

Most of the repository is vendored kernels (`src/runtime/b12x*`,
`src/runtime/flashinfer_*`) and floating-point code, of which TLC could check
nothing that matters; the models cover the repository's own control logic.

## Plan

1. SwaThin and SwaCone: tombstones and replay windows against a reference
   definition of which positions a query may read.
2. FastLoad: pacing of the copies by slab, descriptors closed under running
   reads; folded_result_fence, VerifyCap, AbVariant and AutotuneKeep; LoopAbort
   and HeapTrim on the scheduler; the launcher's order of steps.
3. An abstract all-reduce, of which RoceOneShot and RoceTwoShot are two
   refinements, with the inductive invariants proved here.
