# Verification of the block layer

The repository is a qemu-kvm 1.5.3 tree used to reallocate the I/O bandwidth of
running guests. Its live interface for that is `block_set_io_throttle`. This
directory holds TLA+ models of the code that decides when a guest's block
request runs, and of what must stay true of its data on the way to the disk,
with TLC configurations that check them on small instances, and TLAPS
proofs for every value of the constants. Paths below are relative to `src/`.

## The system and its parts

A guest request enters the block layer as a coroutine. On its way it may

1. sleep in `bs->throttled_reqs` because it exceeds the limits (`block.c`,
   `bdrv_io_limits_intercept`), to be woken by `block_timer`, by the request
   served before it, or by `bdrv_drain_all`;
2. wait for overlapping requests in `wait_serialising_requests`, if it or they
   must read before they write;
3. take a `CoMutex` or `CoRwlock` of a driver (`qemu-coroutine-lock.c`);
4. be executed by a thread of the pool (`thread-pool.c`), whose completion comes
   back through an event notifier to the event loop (`async.c`, `aio-posix.c`,
   `main-loop.c`);
5. change the metadata of a qcow2 image, cached in memory and written back in an
   order that a power failure must not harm (`block/qcow2*.c`);
6. make a chunk of the drive dirty in a bitmap (`util/hbitmap.c`), from which a
   mirror job copies it to another image (`block/mirror.c`, `blockjob.c`).

All waking goes through bottom halves of the event loop (`async.c`), which can
be nested: `qemu_aio_wait` is called from `bdrv_drain_all`, from synchronous I/O
and from callbacks. That is where most of the difficulty lies: between a wake-up
and the code it causes, other code runs.

| part | source | specification | TLC instance | proofs |
|---|---|---|---|---|
| coroutine queue | `qemu-coroutine-lock.c` | `CoQueue` | – | in the next two |
| coroutine mutex | `qemu-coroutine-lock.c` | `CoMutex`, abstract `RWLock` | `CoMutex.cfg` | `CoMutexProofs` |
| coroutine rwlock | `qemu-coroutine-lock.c` | `CoRwlock`, abstract `RWLock` | `CoRwlock.cfg` | `CoRwlockProofs` |
| limit arithmetic | `block.c`, `blockdev.c` | `IoLimits` | in the next two | in the next two |
| rate let through | `block.c`, `blockdev.c` | `ThrottleRate` | `MCThrottleRate` | `ThrottleRateProofs` |
| throttled requests | `block.c`, `blockdev.c`, `async.c` | `Throttle` | `MCThrottle` | `ThrottleProofs` |
| thread pool | `thread-pool.c` | `ThreadPool` | `MCThreadPool` | `ThreadPoolProofs` |
| overlapping requests | `block.c` | `TrackedRequests` | `MCTrackedRequests` | `TrackedRequestsProofs` |
| event loop | `async.c`, `aio-posix.c`, `main-loop.c` | `AioContext` | `AioContext.cfg` | – |
| mirror job | `block/mirror.c`, `blockjob.c` | `Mirror` | `Mirror.cfg` | – |
| dirty bitmap | `util/hbitmap.c` | `HBitmap`, abstract `BitSet` | `HBitmap.cfg` | – |
| qcow2 metadata caches | `block/qcow2-cache.c` | `Qcow2Cache` | in the next | in the next |
| qcow2 requests | `block/qcow2.c`, `block/qcow2-cluster.c`, `block/qcow2-refcount.c` | `Qcow2Requests` | `MCQcow2Requests` | `Qcow2RequestsProofs`, `Qcow2DurableProofs` |

`Cardinalities` states the facts about finite sets that two of the proof modules
start from. `PROJECT.json` maps every definition to its lines and lists all other parts of
the system with the reason they are not modelled.

## How the models correspond to the code

Everything but the worker threads runs under the global mutex, and a coroutine
runs alone between two yields. So an action is a whole stretch of code from one
point where the event loop (or another thread) may choose what runs next to the
following one. A definition that is called a mutant of another one is a
plausible wrong version of it; no specification uses it. The mutants show that each property can fail.

**CoQueue, CoMutex, CoRwlock.** `queue` is the linked list, `woken` the
coroutines on the entry list of a scheduled `CoQueueNextData` bottom half,
`state` where each coroutine is. `LockLoop`, `RdlockLoop` and `WrlockLoop` are one pass
through the `while` loop of a lock function; `Resume*` is the bottom half that
enters a woken coroutine, which tests its loop again. Unlocking does not hand
the lock over, so a coroutine may be overtaken between wake-up and resumption.
Which bottom half is polled first is left open.

**IoLimits.** `ExceedIoLimits` is `bdrv_exceed_io_limits` with the two functions
it calls, as one operator from limits, slice, clock and request to a verdict, a
waiting time and a new slice. The code computes in `double` seconds. The model
cross-multiplies, so comparisons are exact; the conversion to integer
nanoseconds truncates as the cast does; rounding errors of `double` are not
modelled. `LimitsValid` is `do_check_io_limits`.

**ThrottleRate** evaluates requests at any time and counts what is let through
(`granted` since `epoch`, `inSlice` in the present slice, both history
variables). **Throttle** is the machine around it: `queue`
(`throttled_reqs`), `timer` (`block_timer`), `bhs` and `walk` (scheduled bottom
halves in list order, and those the present `aio_bh_poll` has yet to meet),
`mode` (which function waits in the event loop), and one action for each of
`bdrv_co_do_preadv`/`pwritev` up to the driver (`Arrive`), the driver's answer
(`Complete`), `aio_bh_poll` (`Poll`, `NextBh`), `bdrv_block_timer`,
`qmp_block_set_io_throttle`, `bdrv_prwv_co` (`SyncIo`), `bdrv_read_unthrottled`,
`bdrv_drain_all`, `bdrv_close`, `bdrv_open`. A timer that was pending when
`block_timer` was replaced stays pending in the clock and calls the function
later: that is `StrayTimer`. Timers that expire together run one after the other
before bottom halves are polled again.

**ThreadPool.** Workers step on their own; the owner of the global mutex has a
call `stack`, because completion callbacks submit, cancel and drain. A section
of code that holds `pool->lock` is one action and `qemu_cond_wait` ends one.
The semaphore, the notifier and the bottom half `new_thread_bh` are variables.
`state` is written by a worker outside the lock (`Done`), before the broadcast
and the notifier (`Finish`), as in the code.

**TrackedRequests.** A request is the list of driver calls that
`bdrv_co_do_preadv`, `bdrv_co_do_pwritev` or `bdrv_co_do_zero_pwritev` makes for
it, each after `wait_serialising_requests`; the padding reads are marked with
the alignment, a copy on read with the cluster size. Data are abstracted to
"whose write does this unit hold", which is what tells a stale padding from a
fresh one. `Fetch` and `Store` are the driver and external.

**AioContext.** The lists are sequences of memory cells, so that a freed cell
can be told from one that is linked. Each call of `aio_poll` in progress is a
frame of `stack` with the pointer it walks with; `walking_bh` and
`walking_handlers` follow from the frames. A callback is user code: it may
create, schedule, cancel and delete bottom halves, set and remove handlers,
start an operation or call `aio_poll` again. `loop` is the main loop with its
g_poll (timeout, descriptors, result) and `bql` says who has the global mutex,
which the main loop gives up while it sleeps. A thread schedules in two steps, because
`qemu_bh_schedule` sets the flag first and notifies afterwards.

**Mirror.** The job's coroutine has the control while `run` is TRUE, and `pc`
names the yield it goes on from: a completion enters it wherever that is, as
`mirror_iteration_done` does. Chunks are units; their contents are the number of
the write that produced them, so "the target is a copy" can be said. The
iterator of the dirty bitmap is kept as in `hbitmap.c`, one level deep: a copy of
its word, and which later words were not zero. `Partial` makes the last chunk
smaller than the granularity, `Cow` gives the target clusters without a backing
file, `MaxDiscards` lets the guest discard part of a chunk.

**HBitmap** has all levels, the recursion of `hb_set_between` and
`hb_reset_between`, `hb_count_between` and the iterator; words are sets of bits.
`BitSet` is the promise of `include/qemu/hbitmap.h`: a set, its count, and an
iterator that returns what was there when it began, in order, as long as nobody
resets bits ahead of it. `at` and `owed` are history variables that say this.

**Qcow2Cache** and **Qcow2Requests.** The functions of the cache call each other
and do I/O in between, so calls are frames of `stack` and each write or flush of
`bs->file` is a step, at which the host may fail or the power may. `disk` has at
each offset what a read returns and the set of what a power failure may leave
there; a flush reduces the set to one. A write covers part of a cluster or all of
it. It gives up `s->lock` for its data and for the copy of the rest of the
cluster, and then links the cluster. If there was a rest, `perform_cow` makes the
L2 tables depend on a flush of the file (`CowDone`); if the write covered the
cluster it returns before that. Data and rest are one step, and so is their
failure: nothing is recorded between them. Reads change nothing. L2 tables
and refcount blocks exist from the start. `Crash` starts over with what the disk
kept and repairs an image that is marked dirty, as `qcow2_open` does.

## Runs

| run | instance | what it shows |
|---|---|---|
| `co_mutex` | 4 coroutines | no lost wake-up, implements `RWLock`, waiters are served |
| `co_rwlock` | 4 coroutines | readers queue only behind a writer, implements `RWLock`, waiters are served |
| `throttle_rate` | clock to 5, 6 settings of limits | what is let through fits the rate to the end of the slice; no negative wait is cast to `uint64_t` |
| `throttle` | 2 requests, 3 calls | no request lost or left without a timer, none outlives its medium, draining drains; throttled requests are served and `bdrv_drain_all` returns |
| `thread_pool` | 4 requests, 2 threads | lists, semaphore and counters agree; threads come; no completion is forgotten; cancelling releases; freeing leaves no thread |
| `thread_pool_live` | 2 requests, 2 threads | requests complete; cancelling, freeing and draining return |
| `thread_pool_nested` | 2 requests, 2 threads | violation: a draining callback hangs (disagreement 1) |
| `tracked_requests` | 3 requests of 7 shapes, 84 workloads | a serialising request is alone, waits have no cycle, assertions hold, no write is undone by stale data, every request is completed |
| `aio_context` | 2 bottom halves, 1 driver, 3 calls deep, 5 operations | no walk is left with a freed element; the main loop does not sleep on a scheduled bottom half; what is scheduled is called |
| `mirror` | 3 chunks, clusters of 2, 1 write, 1 error, 1 discard | a completed job leaves a copy; no assertion fails, since the iterator's rest stays dirty; operations are apart, buffers suffice, and only waits for operations are entered by them; jobs become ready, complete, and end when cancelled |
| `hbitmap` | 4 levels of 2-bit words, 7 groups of 2 items | the levels agree; implements `BitSet` |
| `qcow2_requests` | 4 requests, 2 + 2 tables, 1 error, 1 crash | no cluster has two users; references are counted and data copied whatever a power failure keeps; dependencies have no cycle; a successful flush is durable |

Where the code is known not to keep a promise, the property says so in its
guard: `CompletedInSync` and `NeverAborts` speak of a guest that has not discarded
part of a chunk, `CrashSafe` of an image without I/O errors, `ClustersOwned` of one
without errors before a power failure. `CowSafe` speaks of clusters given to
writes of a part of them. A cluster that is written as a whole is on the disk
before the L2 entry only because the L2 tables wait for a flush of the refcounts;
with lazy refcounts or after a failure nothing orders the two, so for it the
property has that guard. (What the guest wrote and did not flush may be lost; it
is the copied rest that must not be.) `Copied`, `AssertionsHold` and
`RefcountsFirst` are the promises without the guard. The configurations named
under "Disagreements" show what happens then.

**Bounds.** Four coroutines give a lock an owner, a woken waiter, a queued one
and one that overtakes. The throttling clock has four ticks to the second and
two to the slice, so a request can be smaller than, equal to or larger than
what a slice allows; three calls are what it takes to replace a pending timer
and have the old one fire. Two requests are one that waits and one that overtakes
or wakes it; for more of them the safety properties are proved. `FreeTicks` bounds time that passes with no timer
pending and `TimerSlack` the lateness of a timer. Four elements and two threads
let requests be queued behind, stolen, active and completed together. Blocks
of two units and clusters of two blocks give requests with and without head,
middle and tail; three of them make a wait with one that arrives late, and the
longest cycle of waits that a mistake in the order of marking would give. Which
request has which shape makes no difference, so each choice of shapes is taken once.
`TypeOK` of the locks and of the throttling is proved, and so are `LinkedOnce` and
`OwnersCounted` of the locks and `EnableLosesNobody` and `EnabledHasTimer` of the
throttling, so the runs do not repeat them. Two bottom halves and one
spare handler are enough for a callback to delete what an outer walk has next
and to have its memory used again; three calls deep is a walk inside a walk
inside the main loop's. The mirror's words hold two chunks and its buffers
three, so that an operation can end at a word, at a cluster and at the last
buffer, and the last cluster is cut short. The bitmap
has ranges that cover, cut and miss words at three levels. With one entry per
qcow2 cache, every change of table writes one back; two tables of each kind
make that happen in both caches, and a third cluster is there to be taken while
a freed one may still be referred to on the disk. Of the two guest clusters one is
written in part and one as a whole (`FirstInPart`); with both kinds of write to
both the run passes too, in 3 million states and a quarter of an hour. `OneFault`
lets one I/O or the power fail. Symmetry is used only in runs without liveness properties, over
identities that the specification does not order.

**Deadlock** is not checked where the system may stop: when all requests have
been made (`throttle`, `tracked_requests`, `qcow2_requests`), when the program
sleeps and nothing more happens (`aio_context`), when the job is done or an
assertion has failed (`mirror`) and, in `thread_pool` and `thread_pool_nested`,
because of disagreement 1.

**Fairness.** The event loop keeps polling scheduled bottom halves, expired
timers and ready notifiers; a driver answers; a lock's owner releases it; the
clock advances while the main loop runs, but not inside a nested loop, since
`vm_clock` may be stopped. Nothing is assumed of guests, of management calls or
of timeouts. `ThreadPool` needs strong fairness in four places: for some worker to get
the semaphore (cancellations take from it too), for a callback to return
whatever it calls, and for the bottom half and the notifier, which the main loop
serves although it is kept busy with submissions. In `AioContext` code runs on,
g_poll returns when a descriptor is ready, and threads and the host finish what
they began; the number of operations is bounded, so a vCPU thread does not keep
the mutex for ever. In `Mirror` the job's coroutine, its timer and the I/O go on;
nothing is assumed of the user or the guest.

## Proofs

All theorems hold for any set of coroutines, limits, sizes, slice lengths and
clocks that satisfy the assumptions named in the modules (the constants have
their types; slices and seconds are not empty; `CoRwlock` counts, so its set of
coroutines is finite; there are `MaxThreads` workers and finitely many tracked
requests; alignment and cluster divide the size of the drive; L2 tables, refcount
blocks and clusters of an image are at different offsets).

- `CoMutexProofs`: `Invariance`, `Safety`, `Refinement`. The inductive invariant
  is the conjunction of type, list integrity, no lost wake-up and single
  ownership: the first says that a resumed coroutine is not queued already,
  the last that a queue that builds up has an owner who will wake it.
- `CoRwlockProofs`: the same with `OwnersCounted` and `QueuedReaderHasWriter`.
  The latter carries the argument: the last reader wakes one entry only, which
  suffices because no reader can be in the queue while readers own the lock.
- `ThrottleRateProofs`: `RateIsBounded`, `WaitIsNeverNegative`. The bound alone
  is not inductive. The invariant splits it at the start of the slice: what
  earlier slices let through fits the time before the slice, what this one let
  through fits its length, and the code's counters are at least the history's.
  The module also has `RefusedThenGranted`: a request refused for its bytes, and
  earned in whole ticks, is granted by the next evaluation within the extended
  slice, even at the same instant. This is why `bdrv_drain_all` ends although no
  timer runs in it.
- `ThrottleProofs`: `Invariance`, `Safety`, `LinkedOnceHolds`, `MediumIsKept`,
  `DrainDrains`. The invariant adds to
  the properties that the slice begins in the past (so a waiting time is a
  number), that throttling that is off has neither timer nor queue
  (`bdrv_read_unthrottled` only hides what is on), and that a throttled request
  has its medium, which keeps a bottom half from queueing a request on a drive
  that is closed.
- `ThreadPoolProofs`: `PoolAgreesHolds`, `TokenPerRequestHolds`,
  `CompletionNoticedHolds`, `FreedIsQuietHolds`, `CancelReleasesHolds`. The
  invariant has three parts. `Elements` says in which lists an element of each
  state is, which calls may be on the stack above which others, and that a
  callback on the stack is the only one of its element. `Numbers` says what the
  semaphore and each counter count; its conjuncts change together, since a worker
  that starts, grabs, finishes or leaves moves from one count to the next.
  `CompletionNoticed` is the property itself. `WorkersKeep`, `CallsKeep` and
  `FreesKeep` show that the steps of a worker, of the calls and of
  `thread_pool_free` keep all three.
- `TrackedRequestsProofs`: `SerialisingSafe`, `WaitsSafe`, `AssertionsHold`,
  `OthersKeptHolds`. `SerialisingAlone` and `NoWaitCycle` are conjuncts of `Core`, and
  need the rest of it: that `waiting_for` is set exactly while a request waits,
  that a request serialises from its first call with padding on and keeps its
  widened span (`Marked`), and that it waits only before that call (`WaitsOnce`), so
  that who has begun to wait gets no new one to wait for it in turn. `Fresh` says
  that what a request has read around its own span is still what the image holds,
  until it has written it back; that is what `OthersKept` needs.
- `Qcow2RequestsProofs`: `Safety`, that `CacheConsistent`
  holds for any tables, sizes of the caches, requests, numbers of failures and of
  power failures. It is not inductive. That two dependencies are never flushed one
  inside the other depends on which functions may be on the stack above which
  others, and on what the callers below them have found: `CacheInv` says that a
  flush called for a dependency is of the cache that is depended on, which
  itself depends on nothing, that only `qcow2_cache_set_dependency` returns with
  a new dependency and only after the opposite one is gone, and that the slot
  to be replaced by `qcow2_cache_get` belongs to no other table. The requests add
  `DataInv`: what an L2 table holds is a cluster or 0, so that a discard asks for
  the refcount block of a cluster that exists. There is a lemma for each
  function of the cache, one for each step of a request,
  which calls a function on an empty stack, and one for a power failure.
- `Qcow2DurableProofs`: `FlushDurableHolds`. `FlushInv` adds that an entry that is
  not dirty agrees with the disk (`Agree`), that a flush in progress has left the
  entries behind it clean or will report a failure (`FlushCalls`), that a
  dependency that has been flushed is saved (`Flushed`), and what the flush of the
  L2 tables has reported while the one of the refcounts runs (`Reported`): the
  second flush must not make the first cache dirty again.

`ThreadPoolProofs` and `TrackedRequestsProofs` reason about cardinalities from
two statements of `Cardinalities`, `Counting` and `LeastNumber`, assumed by the lemmas
that need them. `CountingHolds` and `LeastHolds` prove the statements from the
library's theorems at the end, so the theorems assume nothing of the kind.

Only model-checked:

- all liveness (fairness and `ENABLED` are outside the prover);
- `AioContext`: `WalkSafe` and `MainLoopInterrupted` need an invariant over nested
  walks of lists whose cells are used again, which is not worked out;
- `Mirror` and `HBitmap`: their recursive operators are outside the prover;
- `CrashSafe`, `CowSafe` and `ClustersOwned` of qcow2: they relate the contents of
  both caches, all that the disk may keep, and the requests on their way.

## Disagreements

Each configuration below checks one statement of a comment, a header or an
assertion, and TLC finds a behaviour of the model that contradicts it. The first
is among the runs; the others are kept beside them and take seconds.

1. Run `thread_pool_nested` (`thread-pool.c:175`). The notifier is cleared before the
   callbacks run. A callback that waits in `qemu_aio_wait` for a request that had
   completed with its own waits for ever, although `aio_poll` is
   documented to wait only until something has completed.
2. `MCThrottleSync.cfg` on `MCThrottle`, `NoNullTimer` (`block.c:180`). Synchronous
   I/O disables throttling, which frees `block_timer`, but leaves the limits. A
   request woken by it goes round the loop of `bdrv_io_limits_intercept`, which
   looks at the limits only, and arms a NULL timer if it is refused again.
   `block.c:2559` says that throttling is disabled in this case.
3. `MCThrottleFifo.cfg` on `MCThrottle`, `Fifo` (`block.c:168`). The comment at
   `block.c:172` hopes for FIFO order. A request on its way in a bottom half is
   not in `throttled_reqs`, so one that arrives in between is tested first and may
   overtake it.
4. `AioContextSleep.cfg` on `AioContext`, `SleepsIdle` (`aio-posix.c:194`). Whether
   `aio_poll` blocks is settled before the first walk of the handlers. A callback
   of that walk may schedule a bottom half, the notifier's handler after it clears
   the notification, and g_poll sleeps on it; `include/block/aio.h:141` says that
   scheduling interrupts the main loop.
5. `AioContextVcpu.cfg` on `AioContext`, `MainLoopInterrupted` (`aio-posix.c:149`). A
   vCPU thread that calls `aio_poll` clears the notifier on which the sleeping main
   loop depends; a bottom half it leaves behind is announced to nobody.
6. `AioContextInstant.cfg` on `AioContext`, `InstantlyInvoked` (`async.c:68`).
   `include/block/aio.h:144` says that what a bottom half schedules is invoked
   instantly; the walk calls it only if it lies ahead.
7. `AioContextIdle.cfg` on `AioContext`, `IdlePolled` (`async.c:116`). A bottom half
   scheduled as idle while the main loop sleeps without a timeout is not polled
   "at least every 10ms" (`async.c:163`), nor ever.
8. `MirrorSwap.cfg` on `Mirror`, `SwappedInSync` (`block/mirror.c:487`). After
   `block-job-complete`, an error clears `synced`; if the job is then cancelled it
   leaves its loop with `ret` 0 and `should_complete` set, and the guest is switched
   to a target that is no copy.
9. `MirrorBusy.cfg` on `Mirror`, `QuiescentIdle` (`block/mirror.c:453`). The job sleeps
   as not busy with operations in flight, which `include/block/blockjob.h:88`
   excludes.
10. `MirrorDiscard.cfg` on `Mirror`, `Copied` (`block.c:5035`). A discard of some
    sectors of a chunk clears its dirty bit, even if the discard itself is disabled,
    and the job still reports that the disks are in sync (`block/mirror.c:461`).
11. `MirrorAssert.cfg` on `Mirror`, `AssertionsHold` (`block/mirror.c:189`). A discard
    clears the bit of the chunk that `mirror_iteration` waits for.
12. `MirrorTail.cfg` on `Mirror`, `CancelEnds` (`block/mirror.c:92`). The number of
    chunks of an operation is rounded down, so the in-flight bit of a smaller last
    chunk stays set and the next operation on it waits for ever;
    `qapi-schema.json:2361` says that a job "will cancel as soon as possible".
13. `MCQcow2RequestsOrder.cfg` on `MCQcow2Requests`, `RefcountsFirst`
    (`block/qcow2-cluster.c:738`). That a dependency could not be recorded is
    ignored; the L2 table may reach the disk before the refcount.

## Not modelled

`PROJECT.json` has the list. Device models, CPU emulation, targets, network,
display, audio and tools do not take part in scheduling block requests; image
formats and host drivers are the environment of the models (a driver answers at
any time, with or without error); parsing and formatting of QMP and options is
left out. Rounding errors of `double` and the width of `int64_t` nanoseconds
are not modelled. `bdrv_swap`, which moves the throttling fields between two
`BlockDriverState`s, is not part of `Throttle`.

Of the parts that are modelled in part: the main loop's own descriptors
(`iohandler.c`) and timers; of the mirror a source of length zero, `sync=none`, the
rate limit, separate policies for source and target, and the opening of the
target's backing file; of qcow2 the growth of the L1 table and of the refcount
structures, snapshots, compressed and zero clusters, the pins of cache entries,
discards that are passed on to the host file, and a write that overlaps a discard.
The streaming and committing jobs need the image chains.

## Plan

1. Image chains: `bdrv_swap`, `bdrv_append`, reopen queues and transactions with
   their rollback, together with the throttling state they carry; then
   `stream` and `commit`.
2. A composition of `Throttle` and `TrackedRequests`: the two places where one
   request sleeps before it reaches the driver, and `bdrv_drain_all` over both.
3. The asynchronous wrappers of `block.c` on top of `AioContext`.
4. qcow2: growth of the refcount structures, which allocate from themselves.
5. Timers, migration phases.
6. Theorems: `ClustersOwned`, `CrashSafe` and `CowSafe` on top of `CacheInv`,
   `DataInv` and `FlushInv`; the walks of `AioContext`.
