# OPTIMUZ / NEXUS-ARM: TLA+ verification project

This directory models the concurrent core of the `neuroswarm_arm` runtime in
TLA+, checks it with TLC on small instances and proves theorems about it with
TLAPS for every value of the constants. `PROJECT.json` is the machine-readable
index: components, runs, the lines each definition translates (`map`), the
findings and the hazards.

    tlc -workers 2 -config SpecTools_gateway.cfg MCSpecTools
    tlapm SpecTools_proofs.tla

## 1. The system

`02-ARCHITECTURE.md` describes five planes. What matters for a model is the
state each part keeps, who touches it, and at which awaits or locks control
changes hands.

| Part | State | Operations | Who runs it |
|---|---|---|---|
| Speculative tool engine (plane 3.5, `runtime/dipa/speculative/engine.py`, `executor.py`) | speculations of a request by key, futures, `_inflight_sem` | generate, dispatch, match, await, cancel, synchronous fallback | one asyncio loop and thread per request |
| Tool output cache (`tool_cache.py`) | `OrderedDict` key -> (expiry, value) | get, set, invalidate | all requests |
| Gateway (`gateway.py`) | the engine and HAOE | `handle_chat`, `_run_coro_sync` | HTTP worker threads |
| KV block manager (plane 2, `runtime/kv/manager`, `block`) | physical table with reference counts, hash index, prefix cache, sessions and their logical tables | allocate, reuse_prefix, release_session | request threads (`anyio.run` in `haoe/integration/chat.py`) and the HTTP router's loop |
| KV tiering (`runtime/kv/migration`, `scheduler`, `providers`) | payloads per tier, tier of each record, job queues | migrate_block, demote_under_pressure | `MigrationScheduler` thread, `migrate` calls |
| KV checkpoint and recovery (`runtime/kv/checkpoint`, `recovery`, `manager/runtime.py`) | `meta.json` and payload files per session, a journal; the tables it restores into | checkpoint, restore, resume | calls on one event loop; the process may die between two files |
| Task graph executor (plane 4, `runtime/swarm/task_graph`) | status and attempts of nodes, cancellation token | run, cancel | one asyncio loop |
| HAOE worker pool (plane 4, `runtime/haoe/scheduling`) | a queue per worker, registered workers, the overflow queue, members and stop events of the pool | submit, poll, take, steal, start, stop | any thread submits, the pool's threads poll, one thread starts and stops |
| HAOE workflow executor (`runtime/haoe/workflow`, `execution`) | node states, graph context, set of completed nodes, checkpoint files, a token for the loop and one for the tasks | execute, retry, checkpoint, cancel | one thread per workflow, others cancel |
| DIPA recovery (`runtime/dipa/recovery`) | a breaker per backend: failures, state, opened_at | handle_failure, allow, record_success, record_failure | request threads, without a lock |
| MAKS, swarm rollback and checkpoint, meta orchestrator | registries, reference counts, logs | - | mixed |
| Routing, ranking, AQR, ACR, AWPP, ARMORA, AROP, evolution, metrics | scores, profiles, reports | - | mostly sequential or offline |

Interactions: the gateway calls the engine through an event loop of its own;
the engine drives the draft model, the cascade and the MCP tools and shares the
semaphore and the cache across requests; HAOE's chat workflow calls the KV
manager from request threads while the migration thread moves the blocks under
it; checkpoints and restores suspend at every file while allocations and
releases go on; the swarm's graph executor runs handlers concurrently within a
layer while other tasks cancel; HAOE's workflow executor resumes from the
checkpoints of a process that died; request threads of DIPA share the circuit
breakers when their plan fails.

What is hard: cancellation that a shield swallows, timers that race results, an
`asyncio` primitive used by several loops, lookups whose result is used under
another lock, records read before an await and used after it, the release of an
object another thread holds, files that a crash leaves half written, cancels
that race the end of a handler, threads that die or are stopped with tasks in
their queues, and the retries in between. `PROJECT.json` lists these places
under `hazards`, each with the properties aimed at it.

What makes each part correct:
* engine: answers carry only the output of the call that was made; no permit is
  made up; failed outputs are not cached; the fallback does not run beside the
  speculation it replaces; every request is answered (the code breaks this:
  `spec_stuck`);
* cache: it is a lossy map with LRU eviction and no hit past its expiry;
* block manager: a session keeps reading the payloads it asked for; reference
  counts are never short; equal payloads share one block;
* tiering: the payload is where the record says, also when a provider raises;
* checkpoints: what returned ok can be restored after any crash, and a restore
  leaves reference counts, deduplication and payloads consistent with the
  sessions that are live;
* graph executor: dependencies are respected, a run ends, what it reports is
  what happened, no attempt begins after a cancel;
* worker pool: no take drops or doubles an accepted task, it gets its turn while
  a worker of the running pool lives, and a stopped worker takes nothing;
* workflow executor: order and conditions are respected across crashes, what has
  been read from a checkpoint is not repeated, a result is whole, every run ends;
* recovery: a breaker does not stay half open once its probe is over, none closes
  but on a success, and every request is answered, in degraded mode only when no
  fallback is left.

## 2. Modules

| Module | Models | Kind |
|---|---|---|
| `LossyMap` | what the cache promises | abstract specification |
| `ToolCache` | `tool_cache.py` | component, refines `LossyMap` |
| `ToolService` | what a request to the engine is promised | abstract specification |
| `SpecTools` | `engine.py`, `executor.py`, `_run_coro_sync`; uses `LossyMap` for the cache | component, refines `ToolService` |
| `SpecTools_proofs` | theorems about `SpecTools` | proofs |
| `KVSessions` | what the block manager promises a session | abstract specification |
| `KVBlocks` | block manager, dedup, prefix cache, migration | component, refines `KVSessions` |
| `KVCheckpoint` | checkpoint, restore, resume, files and crashes | component |
| `TaskGraph` | the graph executor | component |
| `WorkerPool` | HAOE's queues, work stealing and one worker pool | component |
| `Workflow` | HAOE's workflow executor, retries and checkpoints | component |
| `Recovery` | `dipa/recovery`: the walk over the fallbacks and the breakers | component |
| `KVBlocks_proofs`, `KVCheckpoint_proofs`, `ToolCache_proofs`, `TaskGraph_proofs`, `WorkerPool_proofs`, `Workflow_proofs`, `Recovery_proofs` | theorems about the module of that name | proofs |
| `MCSpecTools`, `MCKVBlocks`, `MCKVCheckpoint`, `MCTaskGraph`, `MCWorkflow`, `MCRecovery` | symmetry sets, example graphs and plans | for TLC |

`SpecTools` is composed with the cache through the abstract map: `ToolCache` is
shown to implement `LossyMap`, and `SpecTools` uses only `LossyMap`'s actions,
so LRU order and clocks do not multiply its states.

### SpecTools: state and actions

`SpecTools` models the engine as `gateway.py` runs it: both branches of
`_run_coro_sync` call `asyncio.run`, so every request has an event loop and a
thread of its own, and all share one `asyncio.Semaphore` and one cache. Driving
the engine on one shared loop, as some tests do, is not modelled.

A request `r` is at `pc[r]`; `dispatch[r]` is the state of
`_dispatch_predictions`, `specs[r]` is `spec_by_key`. A `SpeculativeTask` `<<r,
i>>` (the last index is the synchronous fallback) has two parts, as in the code:
`fut` is the task of `_run_mcp`, before its first step, inside its first
`shield`, inside its second (a cancel has reached the first), or done; `task` is
the `_body` that it creates. `sem` is the semaphore: its value, its waiters and
the loop it is bound to.

On one loop, the code between two awaits is one step:

* `Start`, `Dispatch`, `CascadeEmit`, `CascadeFail`: the concurrent beginning;
* `NoToolCall`/`DrainEnd`, `MatchDone`, `MatchWait`/`AwaitHit`/`AwaitMiss`,
  `NoMatch`, `SyncDone`: the four ways to an answer;
* `AfterCancel`: what a cancel does to a future. Before its first step the
  coroutine never runs; the first shield swallows the cancel and waits again; in
  the second it ends the future. The body goes on in any case. `WaitTimer`, the
  `wait_for` timer, cancels so and then waits until the future is done.

Inside the semaphore, which is not made for threads, a step ends wherever
CPython 3.11 may change threads and the order matters:

* `AcquireTest` is the test of `locked()`; `AcquireTake` the decrement,
  `AcquireWait` the append of the waiter, and `AcquireForeign` the
  `RuntimeError` of a wait on a second loop, each a step of its own;
* `ToolReturns` puts the permit back; `WakeChoose` picks the first waiter that is
  not done, `WakeGive` takes the permit for it and sets its future (or meets a
  future that another thread has set, which raises `InvalidStateError`),
  `WakeNobody` finds none; `AcquireResume` is a woken waiter going on;
* a waiter of another loop is put in the ready queue of that loop by `call_soon`,
  which does not end its `select()`: it is `asleep` until its loop makes a turn
  for another reason (`Iterates`);
* `LoopCancelIdle`, `LoopCancelHolder`, `LoopClosed`: `asyncio.run` cancels what
  is left of a request before the answer is returned;
* `CacheForgets`: eviction, expiry, invalidation.

An uncontended `asyncio.Lock` does not suspend, so cache calls and `speculate`
are part of the step around them; each cache operation is atomic also between
threads. Metrics, the debug ring and latency figures are left out, and so are
the `RuntimeError` that iterating over the waiters raises when another thread
changes them, and the moment in which the deque of waiters is created.

### KVBlocks: state and actions

`refcount`, `hash`, `tier` and `byHash` are the physical table (a block is
registered while its count is positive), `store` the providers, `live`,
`blocks` and `logical` the sessions, `prefix` the prefix cache. A worker's
`pc` and `job` are the program counter and locals of its call. A step is what
runs under one lock or between two awaits:

* allocate: `AllocateHit` / `AllocateMiss` (session and lookup),
  `AcquireFound`, `PutPayload`, `Register` / `RegisterLost`, `Reacquire`,
  `DiscardOwn`, `ReadIndex`, `AttachTo` / `AttachToDead`, `InsertPrefix`;
* reuse_prefix: `ReusePrefix`, then `AcquireFound` and the attachment;
* release_session: `ReleaseSession`, `ReleaseBegins`, `DropReference`,
  `PurgeTier`, `ReleaseEnd`;
* migrate_block: `MigrateBlock`, `MigrateGet`, `MigratePut`, `MigrateDelete`,
  `MigrateUpdate`, and `MigrateFails` when a provider raises: a failed put may
  leave anything of the payload in the new tier.

`register_or_reuse` holds the engine's lock between its lookup and its acquire
while the physical table can be changed by others: `DedupLockFree` is that lock.
`AttachToDead` is an allocate whose session was released after it fetched it:
a release that has not begun to iterate (`ReleaseBegins`) still finds the block,
one that is iterating ends with a RuntimeError, and after the release the
reference is never given back. `Payload` is what `read_payload` finds of a block:
the table must know it, and the store must have it in the tier that the record
names. Between the delete and the `update_tier` of a migration, `Where` looks in
the tier the block is moving to; a read in that very moment raises `KeyError`.
Abstractions: a payload is its content hash (taken as injective); prefix
matches have one block (a longer match repeats the step); which entry the
prefix cache evicts, the order in which a release visits blocks, and which
blocks migrate when are left open; create_session and the lookup that follows
are one step; `exists` and `delete` of a purge are one step per tier, which is
passed over when its provider raises. An operation that raises has had no
effect, but for a put: a Redis delete that raises after the server has carried
it out is not modelled. A failed put, and a delete that fails, leave a payload
in a tier that no record names; it is never removed.

### TaskGraph: state and actions

`status`, `attempts` and `requested` are `NodeRuntimeState`, `token` the
`CancellationToken`, `completed` and `layer` the locals of `run`, and `at` the
place of each node's coroutine. `Run` and `LayerEnd` execute the loop of `run`
up to its next await (`Advance`: verdict, cancellation, workflow deadline or
next layer; `FailFastStop`: the fail-fast branch). `NodeStart`, `CallStarts`,
`CallReturns`, `CallTimesOut`, `CallRaises`, `CallCancelled` and `Wake` are
`_run_node`. A handler is scheduled by `create_task` in the step of the last
check of the token, and starts in a later one (`CallStarts`), whatever has been
cancelled in between. A handler that times out is cancelled and not awaited: it
may go on as one of `lingering` (`LingererEnds`) while its node is retried or
the run ends. A handler that raises `CancellationError` itself is taken for a
cancel, and a condition that raises ends `run` with an exception (`RunRaises`).
`Cancel` is `cancel` with `_apply_cancel`. Conditions, handler outcomes and
deadlines are nondeterministic. The branch of `run` for a graph without a ready
node has no action: `NeverStuck` shows that it is unreachable. A handler that
raises `asyncio.CancelledError` is left out. When fail-fast stops a graph that
still has other nodes, `run` ends in phase CANCELLED, not FAILED, because the
nodes that `cancel` has just marked are not added to `completed` and the loop
throws; the model has that as the code does.

### KVCheckpoint: state and actions

`table` is the physical table with its index, `ram` the RAM provider, `sess`
the live sessions; `meta` and `files` are what is on disk. The calls run on one
event loop and the RAM provider does not suspend, so `Allocate` and `Release`
are one step each; the races of threads inside the block manager are
`KVBlocks`'. A checkpoint (`Checkpoint`, `OpenPayload`, `WritePayload`,
`OpenMeta`, `WriteMeta`) suspends at each file. `write_bytes` does not replace a
file atomically: it is `Torn` from the moment it is opened until it is written,
both for a concurrent reader and for a crash. Two checkpoints of one session
that overlap may leave a mixture of their `meta.json` (`alone` says that a call
has overlapped with none). A restore (`Restore`, `LoadPayload`,
`RestoreCorrupt`, `RestoreEnd`) reads each file, compares the hashes, and merges
the records twice, because `recover_from_checkpoint` and `restore` both call
`rebuild_tables`. `Crash` keeps the disk and nothing else.

### WorkerPool: state and actions

A submission is a snapshot of the registered workers (`Submit`), the choice of
one (`Pick`; the lengths are read one by one from queues in use, so which is the
least loaded is left open), the lookup of its queue (`GetQueue`) and the `Push`.
A worker's loop is `CheckStop`, `PopOwn` (newest first), `PopOverflow`, `Steal`
(oldest first, one victim at a time, also from a queue that is unregistered after
it was fetched), `NothingFound`, and `TaskEnds`: a payload that raises, or the
pinning before it, ends the thread, while its queue stays registered. `Start`,
`StartWorker`, `Stop` and `JoinWorker` are the pool; a join may time out under
a payload. Scores, ageing and locality only choose, and are left open.

### Workflow: state and actions

`Execute` takes the nodes with a checkpoint file as completed, but for those
whose file `load` cannot read in this run (`unread`). `Round` looks at the token
of the loop and takes the ready nodes, `Begin` one of them; `Try`,
`CallReturns`, `CallRaises` and `CallCancelled` are `RetryManager.run`, `Save`
the checkpoint of a completed node, `RoundEnds` the end of the round. There are
two tokens: the one the loop looks at, and the one the tasks hang from; they are
the same unless `execute` was given a parent context (`shared`). `Cancel` comes
from other threads, `Crash` may come at any time, and `Execute` may be called
again. A result is kept for what the conditions read in it; a condition whose
result is not in the context may be false, or raise and with it `execute`
(`Unanswered`). Of the exceptions of a function, those that
`TaskExecutor.execute` catches are modelled. A checkpoint file is written under
another name and renamed: it appears whole or not at all.

### Recovery: state and actions

A request makes its plan and runs it (`Arrive`, `PlanFails`, `PrimarySucceeds`,
`PrimaryFails`), then walks its fallbacks: `Ask` and `LetThrough` or `Refuse`
are `allow`, `Lookup` and `LookupMissing` the registry, `CallSucceeds`,
`CallFailsRetryable` and `CallFailsForGood` the call with its retries, `Degrade`
the answer when no target is left. No lock protects the breakers. The
interpreter changes threads at calls and backward jumps, so a step ends where
the code calls something: `_entry` finds no breaker and makes one
(`EntryMissing`), then stores it over whatever another thread has stored
meanwhile (`Entered`); `allow` decides on a state that may have changed while it
called the clock; and `record_failure` writes `opened_at` (`Stamp`) after it has
opened the breaker. Time is one bit per breaker, `cooled`. The other strategies
of `FallbackManager` only change the parameters of the call.

## 3. Runs

All passing runs check deadlock but `recovery`, whose instance ends when the
bounded number of requests is used up. `WorkerPool` and `Workflow` stutter
explicitly (`Idle`) where everything bounded is used up, and `SpecTools` where
every request is answered or waits for a permit, so that any other stop is a
deadlock.

| Run | Instance | Shows |
|---|---|---|
| `tool_cache` | 3 keys, 2 entries, a clock | `StoreConsistent`, `HitIsFresh`, `EvictsOldest`, refinement of `LossyMap` |
| `spec_gateway` | 2 requests, 2 keys, 1 prediction each, 2 permits, a loop and thread per request | `NoPermitInvented`, cache contents, cancels, `FallbackAlone`, refinement of `ToolService` |
| `kv_dedup` | 2 workers, 2 sessions, 2 payloads, 3 block ids, 1 tier | `HoldersCounted`, `OneBlockPerContent`, refinement of `KVSessions` |
| `kv_tiers` | 2 workers, 1 migrator, 2 sessions, 1 payload, 2 block ids, 2 tiers whose providers may raise | `LiveBlockReadable`, refinement of `KVSessions` while blocks move |
| `kv_checkpoint` | 2 callers, 2 sessions, 2 payloads, 2 block ids, crashes | `HoldersCounted`, `OneBlockPerContent` and `RegisteredReadable` after restores, `AckedRestorable` |
| `graph_run` | 4 nodes in 3 layers, 2 attempts, fail_fast or not, all cancel modes, fair | `NeverStuck`, `AncestorsEnded`, `VerdictHonest`, `FailureStopsGraph`, `NothingBeginsAfterCancel`, `RunEnds` |
| `worker_pool` | 2 tasks, 2 workers, 4 worker ids (a stop and a restart), fair | `TaskConserved`, `TakesOnlyWhileMember`, `EveryTaskRuns` |
| `workflow` | a diamond of 4 nodes with a condition and a node without function, 2 checkpoints, 2 attempts, 3 executions, crashes and checkpoints that cannot be read, fair | `RunsInOrder`, `ReturnsWhole`, `NothingLeftRunning`, `SavedNotRepeated`, `EveryRunEnds` |
| `recovery` | 2 requests, 3 backends, one of them not registered, threshold 2, 1 retry, 2 requests a thread, fair | `ProbeUnderWay`, `DegradedIsLast`, `ClosesOnSuccess`, `EveryRequestAnswered` |

Runs that expect a violation each show a disagreement between the code and
what a comment, document or test of the repository says of it; the quotation
is in `PROJECT.json`.

| Run | What TLC finds |
|---|---|
| `spec_stuck` | a waiter is queued while another thread releases the permit, or is woken while its loop sleeps: its request is never answered (2 requests, 1 key, no predictions, 1 permit, fair) |
| `kv_migrators` | two migrations of one block lose its payload |
| `kv_restore` | a restore into a table that has a payload under another id leaves the session with a block that does not exist |

Met while modelling, in the model as in the code, and without a run of their
own:

* Speculative engine: `tool_timeout_s` does not end the wait for a matched call
  (`executor.py:141`: the cancel is swallowed), although `engine.py:17-18` says
  it does; request threads exceed the cap of the shared semaphore
  (`gateway.py:39`), whose value may become negative; two threads that wake one
  waiter lose a permit; a `cancel` does not keep the shielded body from calling
  the tool later, and the end of a request takes such a body down before it has
  persisted its output.
* Block manager: the prefix cache goes on naming a freed block
  (`prefix.py:48`); a session that has a payload twice takes two references and
  gives one back (`block_manager.py:221`); two threads that allocate for one
  session map the same logical index.
* Checkpoints: the references of a block grow by one with every crash and
  restore, since `rebuild_tables` runs twice, so it is never freed; a crash
  during a checkpoint destroys the previous good one; two overlapping
  checkpoints may both return ok over a torn `meta.json`; the journal is written
  and never read.
* Graph executor: a handler may start after a `cancel` that a handler of its own
  layer has called (`executor.py:441`); one that times out may outlive the run;
  one that raises `CancellationError` leaves a cancelled node in a run that
  reports SUCCEEDED; a condition that raises makes `run` raise with its phase
  still RUNNING; a forced cancel of a running node is overwritten when its
  handler ends before the next poll; a cancel of one node sets the token of the
  whole run.
* Workflow executor: the context is not restored on resume, so the conditional
  successor of a checkpointed node is shut off, or its condition raises; a
  checkpoint that cannot be read makes its node run again; the wait between two
  attempts is on a token nobody cancels; a node cancelled before its first try
  stays READY; nodes without a function complete after a cancel; a checkpoint
  that cannot be written makes `execute` raise although the node is COMPLETED.
* Worker pool: no caller in the program uses `Dispatcher.enqueue`, it is an
  interface only; `submit` may raise `KeyError` when a worker is unregistered
  meanwhile, and a task in the queue of an unregistered worker is lost.
* Recovery: `_entry` may replace a breaker that has counted failures, or opened,
  by a fresh one (`circuit_breaker.py:32`); a breaker is OPEN before its
  `opened_at` is written, so it may let a probe through before its window has
  passed (`circuit_breaker.py:60`); HALF_OPEN lets every caller through; the
  breaker of the primary backend is neither asked nor reset; a late success
  closes an OPEN breaker.

### Bounds

`MaxPreds`, `MaxInflight`, `MaxTime`, `MaxLogical`, `MaxRefs`, `MaxMapped`,
`NumTiers`, `PrefixCapacity`, `MaxAttempts`, `MaxRuns`, `Size`, `MaxWorkers`,
`MaxRetries`, `FailureThreshold` and `MaxServed` are the named bounds. They are
the smallest with which the interesting cases occur: two permits for the four
tasks of two requests are contended and let an execution, a waiter and a
fallback meet; two keys make a wrong speculation possible; one prediction and
the fallback make a request compete with itself; two payloads and one prefix
entry make the prefix cache evict; three block ids let an id be freed and its
content allocated anew while another allocation of it is under way; two calls
that begin at once grow a session to two blocks although `MaxLogical` is one,
and so let it hold one block twice (with `MaxLogical` two, `kv_dedup` has 1.9
million states and passes as well); which payload a session gets is the question
of `kv_dedup`, whether it can still be read that of `kv_tiers`, so one payload
is enough there (with two payloads and one session it has 2.6 million states and
passes as well); two callers, two sessions and two ids let a checkpoint overlap
a restore, and a restore meet its contents under other ids (with two blocks per
session rather than in all, `kv_checkpoint` has 6.8 million states and passes as
well); two attempts make a retry and its exhaustion; three executions make a run
resume from the checkpoints of one that resumed; four worker ids make a pool
that is stopped and started again; two requests per thread with a threshold of
two let a breaker open, cool, be probed and close. `MaxRefs`, `MaxMapped` and
`MaxLogical` only refuse new calls, never a step of a call that has begun.
Symmetry is used for interchangeable model values in safety runs only.

### Fairness

`SpecTools!Fairness`: an event loop runs its ready callbacks and its timers, but
not what was put in its queue while it sleeps in `select()`; cascade and draft
model are HTTP calls with client timeouts; `execute` runs under `wait_for`; the
operating system runs every thread, also inside the semaphore. It is assumed in
`spec_stuck` only. `spec_gateway` checks deadlock instead: where nothing can
happen any more, every request is answered or waits for a permit (`Idle`).
`TaskGraph!FairSpec`: the loop runs ready coroutines, and handlers return, raise
or are timed out. A handler without a timeout that never returns is outside the
assumption. `WorkerPool!FairSpec`: the threads of the pool run, and payloads
return or raise; nobody is obliged to submit, start or stop.
`Workflow!FairSpec`: the thread of `execute` runs on and functions return or
raise; cancels and crashes are never obliged. `Recovery!FairSpec`: request
threads run, the primary plan ends, and a call of the walk ends since
`TimeoutManager.run` limits it; the end of a reset window is not promised.
`KVBlocks` and `KVCheckpoint` have safety properties only.

## 4. Proofs

`SpecTools_proofs` proves, for every finite set of requests, every set of keys
and every `MaxPreds` and `MaxInflight`, with a loop and a thread per request:

* `TypeCorrect`: `Spec => []TypeOK`;
* `PermitsSafe`: `Spec => []NoPermitInvented`;
* `CacheGenuine`: `Spec => []OnlySuccessCached`;
* `AnswerCancels`: `Spec => []NothingLeftUncancelled`;
* `FallbackSafe`: `Spec => []FallbackAlone`;
* `ServesRequests`: `Spec => ImplementsToolService`;
* `UsesLossyMap`: the cache moves only by steps of `LossyMap`, which
  `ToolCache_proofs!Refinement` shows `ToolOutputCache` to implement.

All come from `Invariance`, `Spec => []IInv`. For the permits, every step moves
the value of the semaphore against the cardinality of `Holders`, or gives up a
permit that nobody holds; the lemmas on finite sets count the holders. Equality
does not hold: two threads may wake the same waiter. Only a future inside one of
its shields has a body under way (`Begun`), which is what `FallbackAlone` rests
on. Further parts say that `spec_by_key` has predictions under their own keys
(`Named`), how the response relates to the place of the request (`Over`), and
what may be open and uncancelled at each place: only what is in `spec_by_key`
before the match (`Filed`), only the matched task while it is awaited
(`Awaits`), no prediction of the call while the fallback runs (`Syncs`), nothing
at the end (`Over`). Without these, `NothingLeftUncancelled` is not inductive:
that an answer leaves nothing behind depends on which tasks `_cancel_all` could
see. `Genuine`, that an output of a task is one an execution of its key
returned, is what the cache and the refinement need. The module assumes that
`None` is no key, request or task; `OpenIsNoCall` belongs to the mapping, which
writes `"open"` for a call that is not known yet.

`KVBlocks_proofs` proves, for every finite set of workers and of sessions,
every set of migrators among the workers, and any payloads, block ids, tiers
and bounds:

* `TypeCorrect`: `Spec => []TypeOK`;
* `ReferencesSafe`: `Spec => []HoldersCounted`. A block is never freed while a
  session maps it, a call has acquired it, or a release has yet to drop it;
* `DeduplicationExact`: `Spec => []OneBlockPerContent`;
* `MovesSafe`: `Spec => []LiveBlockReadable` when there is one migrator
  (`OneMigrator`). With two it is false (`kv_migrators`).

Here too one invariant carries the first three. `Locals` says what a call knows at
each of its steps. `Fresh` says that the id of a block about to be registered
is issued, unregistered and used by one call only: without it, registering a
block with one reference could overwrite a larger count. `Indexed` says that
`byHash` names the registered block of every content; exactness follows, and it
is kept because the lookup and the registration of `register_or_reuse` are one
step under the lock. For `HoldersCounted` every step moves the set of holders by
at most one: acquire adds one holder and one reference, attaching and releasing
hand a block from call to session and from session to call, dropping takes a
holder and a reference away (`CountGrow`, `CountSwap`, `CountLeave`). The
assumptions are those of the module: finitely many workers and sessions, no
name is both, `None` is no block, payload or request for one, there is a tier.
`MovesSafe` adds the invariant `Stored`: a block that is moved or purged is
nobody's new block, and a purged one is unregistered (`Aside`); a new block has
its payload before it is registered (`Written`); a registered block is readable
but between delete and update_tier (`Kept`); and what a migration remembers of
its block is still so while the block is registered (`Moves`), which is where a
second migrator would break it. A migration that fails leaves the record naming
a tier it has not yet deleted from.

`DeliversToSessions` is the refinement, `Spec => ImplementsKVSessions`, with one
migrator: what `read_payload` finds under the blocks of a session is the list of
the payloads it asked for, each delivered once. It needs all of the above. A
block that a session maps is registered, since it has a holder
(`HoldersCounted`); it has a payload where `Where` looks, since it is registered
(`Stored`); and the payload is the one asked for, since the block that a call
has been given, that the prefix cache or the index names, or that a session maps
has the content it was named for (`Meant`), and what the store has of a block is
its content. So attaching is `Deliver`, releasing is `Release`, a call's start
is `Ask` and its exception `Fail`; all else, a migration or its failure
included, is a stutter.

`KVCheckpoint_proofs`, for any callers, sessions, payloads and blocks and a
crash between any two steps:

* `AckedSafe` (`AckedRestorable`) and `PayloadsFirst`. The invariant says what a
  checkpoint under way has on disk (`Saves`), that the one that is `alone` is
  the only writer of its session (`AloneSaves`), and that a session whose last
  checkpoint is acknowledged has no checkpoint under way (`AckedIsOver`);
* `ReleaseSafe` (`HoldersCounted`), `DedupSafe` (`OneBlockPerContent`) and
  `RestoreSafe` (`RegisteredReadable`): what a restore does to the tables.

The last three rest on `Ledger`: some assignment of one content to each block id
fits the tables, the sessions, every readable `meta.json` and every call under
way. It has to be stated over disk and memory together, since a restore merges
what an earlier process wrote into what this one has. `HoldersCounted` counts
the sessions per block id, and that is not inductive: merging a record whose
content is already registered under another id adds references there, while the
restored session keeps mapping the old id. The invariant therefore counts per
content, under all its ids, and the count per id follows. `rebuild_tables` is
the recursive function `Rebuild`; `RebuildUnfold` unfolds it, and the facts about
it (no count shrinks, the index stays exact, every record's content is
registered: `RebuildGrows`) are proved for records of any length by `Induct`,
the induction over numbers that well-foundedness of their order gives, stated
for a set of numbers and so without an operator parameter.

`ToolCache_proofs`: `StoreSafe`, `FreshHits`, `EvictionOrder` and `Refinement`
of `LossyMap`, from an order without repetition whose keys are those of the
dictionary, and entries that are what was last stored under their key.

`TaskGraph_proofs`: `NotStuck`, `AncestorsFirst`, `VerdictSafe`, `FailFastSafe`,
`CancelSafe`, for every acyclic graph of any size. Acyclicity is stated as every
set of nodes having one without a predecessor in the set, which is what `is_dag`
decides for finite graphs; no induction is needed to use it. `VerdictSafe` and
`CancelSafe` say what is true of handlers that start late, outlive their node or
raise `CancellationError`: no attempt begins after a cancel, and no node is in a
call when `run` returns. The invariant relates each coroutine to the status of
its node (`Coroutines`), the layer to what has completed (`Layers`), and says
that nothing runs between two layers (`Quiet`).

`WorkerPool_proofs`: `TasksSafe` and `StopSafe`, for any number of tasks,
workers and restarts. Queues repeat nothing (`NoRepeats`), an accepted task has
exactly one holder and any other none (`Held`), and what a thread's place says
of its hand, its event and its membership (`Threads`, `Members`).

`Workflow_proofs`: `OrderSafe`, `ResultWhole`, `CleanupSafe`, `ResumeSafe`, for
every acyclic graph, conditions and checkpoints. The invariant says what the
local set counts (`Counted`, which leaves out what this run could not read),
that what is left of a round was ready and still is (`TodoReady`, `CurReady`),
and that only the current node is RUNNING (`RunningIsCur`).

`Recovery_proofs`: `ProbesEnd`, `WalkIsWhole`, `BreakersClose`, for any requests,
plans, threshold and retries, from the type invariant and how far the walk of a
request is at each of its places (`Walks`). `ProbeUnderWay` is inductive beside
these: a step of `allow` that makes the stored breaker half open leaves its thread
with a probe to end, and a step that ends a probe writes the stored breaker.

So every invariant, action property and refinement that the runs check is a
theorem. Only model-checked are the liveness properties (`RunEnds`,
`EveryTaskRuns`, `EveryRunEnds` and `EveryRequestAnswered` of `Recovery`), because
fairness is beyond the prover, and the three violations, `spec_stuck`,
`kv_migrators` and `kv_restore`, which need a behaviour and not a proof. Two of
the theorems carry a hypothesis of their own, one migrator (`MovesSafe`,
`DeliversToSessions`); without it they are false.

## 5. Not modelled

`PROJECT.json` lists every component with the reason. Left out for good:
numeric scoring and routing, HTTP and storage adapters, metrics, hardware
detection, offline optimisation. They are most of the repository's lines, and
have no state that several actors change. Of the modelled parts:

* the block manager's `write_cow`, which nothing calls;
* the engine on one loop shared by several requests, which only tests set up;
* a handler of a graph, or a function of a workflow, that raises what is no
  `Exception` and is not caught by name;
* a provider whose operation takes effect and raises all the same;
* the journal of the checkpoints, which nothing reads, and `delete_session`;
* the HAOE path of `handle_chat` in the gateway: its parts are modelled
  (`Workflow`, `KVBlocks`), their composition is not;
* `reset` of a breaker, which nothing calls.

Candidates for further modules, in this order: MAKS with its reference counts
and TTL cleanup; swarm rollback and checkpoint; DIPA's stream buffer and warm
pool; the restart policy of the control plane; the meta orchestrator over HAOE.
