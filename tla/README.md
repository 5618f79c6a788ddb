# Agent Diaries: TLA+ models, checks and proofs

Agent Diaries (`src/`) is a TypeScript library that keeps a *diary* per agent: which tasks were
claimed, which are done, with which result. Its promise is exactly-once execution by any number of
concurrent callers, over interchangeable storage. This directory models the parts that make or break
the promise, checks them with TLC on small instances, and proves what TLAPS can prove for all sizes.

Line numbers below are those of the repository's `src/` directory (`diary.ts:187` is `src/diary.ts`,
line 187) and of its top-level documents.

## 1. Inventory

| component | state | operations | hard about it |
|---|---|---|---|
| `MemoryStorage.withLock`, `MemoryLockProvider.withLock` (`memory/storage.ts:139`, `memory/MemoryProviders.ts:123`; the same code) | one promise per key, the tail of a queue | `withLock(key, fn)` | microtask order, exceptions, a call from inside the holder |
| `AgentDiary` (`diary.ts`) | per agent one `AgentState`: history of task records, seenSignatures, runCount, lastRun | `executeOnce`, `claimTask`, `batchClaimTasks`, `writeTaskResult`, `failTask`, `deleteTask`, `pruneExpiredTasks`, `importHistory`, `clearHistory` under the lock; `getTaskResult`, `exportHistory` and the views without | read-modify-write over awaits, callbacks in the middle, TTL, eviction at `maxHistory`, errors between the writes |
| `LocalFileStorage` (`memory/storage.ts:42-83`) | a JSON file per key, a lock directory | `get`, `set`, `withLock` | torn writes, crashed holders, creation before the lock |
| distributed adapters (`adapters/{redis,postgres,sqlite,mongo}.ts`) | a value and a lock row per key | `get`, `set`, `withLock` | leases that nobody renews, theft, TTL sweeps, unowned deletes, lost answers |
| workflow: `WorkflowRepository`, `WorkflowStateMachine`, `WorkflowCoordinator` (`core/`) | workflow records with a state and a worker | create, claim, complete, fail, cancel, release, submit, execute | claims by several workers, reuse by signature without a lock, errors that replace errors |
| `WorkerRegistry` (`core/workers`) | a map of workers: status, heartbeat | register, heartbeat, set status, prune | pruned by heartbeat whatever the status says |
| `EventBus` (`core/events`) | handlers per event | `on`, `off`, `once`, `emit` | re-entrancy; one-time handlers; `emit` awaits its handlers |
| caches: `MemoryCacheProvider`, `LruMemoryProvider`; `StorageManager` and its bridge to the adapters | key-value maps | `get`, `set`, `delete`, `clear` | filling a cache after an await; lists kept by read-modify-write |
| leases of `MemoryLockProvider` (`memory/MemoryProviders.ts:81-112`) | a token and an expiry per key | `acquireLock`, `renewLease`, `releaseLock` | late renewals and releases with an old token |
| tracing, timeline, metrics (`core/tracing`, `core/timeline`, `core/metrics`) | traces with spans, event and metric lists | start/finish, append | unlocked read-modify-write |
| agent runtime (`runtime/`) | environment state, active executions, a ring buffer of measurements | run, cancel, warm up, shut down, health check | timeouts against late results, aborts, flags set after awaits |
| agents and tools (`agents/`, `tools/`) | registries by name and id | register, unregister, lookups; `ToolExecutor.run` | loops over live Maps that await, retries, pauses, aborts |
| LangChain integration (`langchain/`) | a diary each; an event log and counters | cache lookup/update, deduplicated tool, callback handler | check-then-act over two diary calls, keys made of the time |
| plugins, search providers (`core/plugins`, `core/providers`) | a map, a list, health records | initialise all, search with fallback | a list that changes, or a failure, in the middle of a loop |
| placeholders (`redis/`, `postgres/`), logging, codec, dashboard, benchmark, distributed contracts | none worth a property | | |
| `packages/` | an older copy of the core | | |

How they interact: every `AgentDiary` operation runs under `storage.withLock("diary_<agent>", ...)`;
its reads and writes go through `DiaryRepository` and the `StorageManager` bridge to the same
adapter's `get` and `set`; a write is followed by the event `DiaryUpdated`, whose handlers are
awaited and whose errors are swallowed. The caller's function runs *inside* the lock. The workflow
repository does the same under `wf_lock_<id>`. Tracing, timeline and metrics are listeners of the
event bus. An agent's run goes through the lifecycle (timeout, trace, events); its tool calls through
the executor (attempts, signals, events); the collector listens to both on the bus. The LangChain
classes are callers of `executeOnce`.

What makes each correct, in a sentence: the mutex excludes, is fair and never wedges by itself; the
diary runs a task once, keeps what it recorded and counts right; a storage lets nothing break that
short of what its README concedes; a workflow's operations are atomic and its execution tells the
truth; what has been recorded (events, traces, metrics, cached values) is neither lost nor doubled by
the awaits in between; a run and everything it started ends, and is told in one way. `PROJECT.json` lists the hazards line by line.

## 2. Modules

| module | models | on top of |
|---|---|---|
| `PromiseMutex` | `withLock` in memory, promise by promise | |
| `FifoMutex` | what its comments promise: a FIFO lock | |
| `PromiseMutexProof` | theorems about `PromiseMutex` | `PromiseMutex`, `FifoMutex` |
| `Calls` | the calls under way and the clock | |
| `Diary` | the bodies of the diary's operations, cut at every await; no lock | `Calls` |
| `MemoryDiary` | the diary in one process | `Diary` + `FifoMutex` |
| `OnceRegister` | what `executeOnce` promises | |
| `DiaryProof` | lemmas about the operators of `Diary` and the steps of `executeOnce`, for the three diaries | `Diary` |
| `MemoryDiaryProof` | theorems about `MemoryDiary` | `MemoryDiary`, `OnceRegister`, `DiaryProof` |
| `LeaseLock` | `withLock` of the four database adapters, one statement per step | `Calls` |
| `LeaseDiary` | the diary on them | `Diary` + `LeaseLock` |
| `FileDiary` | `LocalFileStorage`, with the diary on it | `Diary` |
| `WorkflowStateMachine` | workflow records, the allowed transitions, what each operation writes | |
| `WorkflowRegister` | what `WorkflowRepository` promises: operations at one moment | `WorkflowStateMachine` |
| `WorkflowCoordinator` | submission, claim, execution and the repository's operations, with faults | `WorkflowStateMachine`; implements `WorkflowRegister` |
| `WorkflowCoordinatorProof` | theorems about `WorkflowCoordinator` | `WorkflowCoordinator`, `WorkflowRegister` |
| `DiaryViews` | the queries of `AgentDiary` and `DiaryRepository`, as functions of the stored diary | `Diary` |
| `LeaseDiaryProof` | theorems about `LeaseLock` and `LeaseDiary` | `LeaseDiary`, `DiaryProof` |
| `FileDiaryProof` | theorems about `FileDiary` | `FileDiary`, `DiaryProof` |
| `RuntimeMetrics` | `RuntimeMetricsCollector`: counters, windows, snapshots, rankings | |
| `ToolEnvironment` | `ToolRegistry`, `AgentRegistry` and the lifecycle of `ExecutionEnvironment` | |
| `AgentRun` | `AgentLifecycle.run` and `ToolExecutor.run`: pipeline, timers, signals, attempts | `RuntimeMetrics`, `ToolEnvironment` |
| `AgentRuntime` | the runtime: runs beside changes of the environment | `AgentRun` |
| `RegistryViews` | the lookups of both registries | `AgentRuntime` |
| `AgentRuntimeProof` | theorems about `AgentRuntime`, `RuntimeMetrics` and `RegistryViews` | `RegistryViews` |
| `ServiceCalls` | the callers of the services | |
| `EventBus`, `CacheStack`, `MemoryLease`, `Observability`, `LangChain`, `Plugins`, `WorkerRegistry` | one service each, see below | `ServiceCalls` |
| `Services` | the services side by side | all seven |
| `ServicesProof` | theorems about `Services` | `Services` |
| `MC*` | constants' values, symmetry and operations for TLC | |

### PromiseMutex and FifoMutex

A member of `Call` is one invocation of `withLock`. `tail` is `mutexQueues.get(mutexKey)`, `prev[c]`
the promise the call found there; the promise it puts there, `prev.then(() => hold)`, is named by the
call and `settled[c]` says whether it has settled. `Enqueue` is the code up to `await prev`, which
runs without a break; `Enter` is the continuation; `Leave` the return or exception of `fn` with the
`finally`; `Settle` the microtask in which the chained promise settles. `Nested` calls are made from
inside another's function and awaited by it. `FifoMutex` is the contract of the comments
(`storage.ts:86-137`) with one step each for asking, being let in and leaving.

### Diary

`store` is the state under the diary's key; `local[c]` the variable `state` of a running operation;
`at[c]` its `now`; `todo[c]` the rest of its loop. An operation is cut where it awaits something
another caller could interfere with: the read (`ReadForClaim`, `RecordResult`, ...), each
`onTaskExpired` (`NotifyExpired` .. `ReplaceExpired`), each write (`Save*`), the caller's function
(`running` .. `FnReturns`). The three claiming operations have the same steps and share their
actions; `executeOnce` and `claimTask` are a batch of one. Operations that only replace a record read
and change in one step, as the code does between two awaits, and write in the next.

Data that no property distinguishes is left out: titles other than their signature, result texts
(a value is named by the call that produced it, and its `form` says whether it is the string, the
object, or the object's JSON text, `diary.ts:245`), fail reasons. `hashFn` and
`normalizeSignature` are the constant function `SignatureOf`. A title with no signature of its own
shows that two spellings are one task. `DiaryViews` states the queries that read without the lock
(`hasProcessedTask`, `filterNewTasks`, the lists by status, pages, statistics, and the repository's
own list and search) as functions of `store` and the time, and that they agree with one another.

Faults are chosen per run: `fn` (the caller's function throws), `callback` (`onTaskExpired` throws),
`storage` (`set` throws), `get` (`get` throws), `read` (`get` swallows its error and returns null,
which reads as an empty diary: `postgres.ts:99`, `sqlite.ts:58`), `crash`.

### LeaseLock and LeaseDiary

One lock row, as a record of who took it and the time in it. An attempt reads the clock (`Attempt`)
and sends its statement later (`Insert`, `InsertConflict`), because the time may pass between the two;
Redis counts the TTL from the arrival. Postgres and SQLite then look at the row (`Inspect`) and steal
it (`Steal`); SQLite takes every error of that transaction for a miss (`StealFails`), so that a caller
may end in "Lock timeout" before a row that is too old. MongoDB's TTL monitor sweeps (`Sweep`), if there
is the index: `EnsureIndex` tries to create it when a process makes its first call, and after an error
(fault `index`) that process does not try again. `ReleaseDeletes` says whether a release looks
at the owner: it does with Redis and Postgres. `AttemptFails` is any other database error or a lost
answer, `ReleaseFails` a release that fails, `Die` a crash. The clock is one for all: skewed clocks are
not modelled.

### FileDiary

`SetOpen` and `SetWrite` are the two file-system steps of `writeFile`; in between the file is empty
and reads as no diary. `CreateOpen` and `CreateWrite` are the same for the `"null"` that `withLock`
writes into a missing file before it takes the lock. proper-lockfile is external: its lock directory
is taken if there is none or if its maker is dead (staleness, ten seconds without an update), and a
live maker keeps it fresh; a maker whose event loop is blocked beyond that is not modelled.

### WorkflowStateMachine, WorkflowRegister, WorkflowCoordinator

A member of `Call` is one call of `submitWorkflow`, `claimWorkflow`, `executeWorkflow` or of the
repository's complete, fail, cancel and release. The five operations that change a workflow are the
same code with another target state: take `wf_lock_<id>` (`Acquire`), read and check
(`ReadWorkflow`: `validateTransition` and the changes to the copy, `repositories/index.ts:55-62`),
write (`SaveWorkflow`), leave (`Leave`, by return or exception). `FirstWanted`, `NotFound` and `Moved`
hold what differs. `executeWorkflow` is a claim, `fn`, and then a completion or, from its catch block,
a failure; `Throw` and `Continue` say where an error or a return goes on. The lock is only required to
exclude, in any order of entry: that is what `FifoMutex` gives in memory and `LeaseLock` elsewhere
while leases are kept. `releaseWorkflow` asks no state machine (`MaySet`), and `docs/advanced.md:80`
notwithstanding, no code sets RUNNING.

`persistence` is `memory` or `bridge`. Over the bridge `listWorkflows` returns nothing, so no
submission is ever a reuse, and calls of the adapter may fail: `lock` (no lock to be had), `get`, `save` (the write may have
landed), `log` (an append to the timeline or the metrics); a process may `crash`. In memory only `fn`
may throw. The contents of timeline and metrics are left out, as are names, payloads, reasons, ages
(any of the reusable workflows may be the youngest) and the heartbeat of a claim.


### RuntimeMetrics, ToolEnvironment, AgentRun, AgentRuntime, RegistryViews

Each client makes one call: a run of an agent, with one tool call in it, or an operation on the
environment. `runPc` is the pipeline of `AgentLifecycle.run`: `StartRun` (lookup, context, timer,
validation), `BeginTrace`, the agent's own end (`AgentReturns`, `AgentThrows`), `Finish` (event,
trace). `callPc` is the loop of `ToolExecutor.run`: `BeginAttempt` combines the run's signal with the
attempt's timer, `ToolThrows` decides between cancelled, exhausted and another attempt after a pause
(`Retry`). `aborted` and `merged` are the two signals; `Timeout`, `Cancel`, `AttemptTimeout` set them.
A call goes on when its run has ended: nothing in the code stops it but its signal.

A `Map` of tools is the list `entries` with gaps where entries were deleted, so that an iterator of
the loops in `initializeAll`, `healthCheck` and `cleanupAll` is an index that sees insertions and
deletions made while it awaits a hook, as JavaScript's does. `hook` is what was last called on a tool.
`RegistryViews` has the lookups (`find`, `findByTag`, `findCompatible`, `recommend`, ...) as functions
of the registries, the metadata and the noted health; an answer that is a list in the order of the
`Map` is the set of its places there, which says the same and can be reasoned about.

The collector's state is kept per tool name and agent; `toolLog` and `agentLog` are the history of
events it must agree with. Its handlers are synchronous, so an event is counted where it is emitted. `ForeignEvent` is an
event of another runtime: the bus is shared unless the options name one. Times are members of a small
set; percentiles are computed as in the code (`ceil`, `RuntimeMetricsCollector.ts:57`), means are kept
as sum and count, rounding is left out.

### The services

`ServiceCalls` has the callers, one call each; the services share nothing else.

* `EventBus`: one event. `emit` calls the handlers of a snapshot up to each one's first await without a
  break; a handler may use the bus meanwhile (`Resubscribe`, `EmitInside`), hence the `stack` of
  emissions. `OnceHandler` are the wrappers of `once`.
* `CacheStack`: `LruMemoryProvider` over a provider that answers in order, as the one in memory does,
  or when it likes. One key; eviction for another key's sake may come any time.
* `MemoryLease`: the leases of `MemoryLockProvider`, and the bridge's, which are always granted.
* `Observability`: the listeners of workflow events, which append and start traces, and spans and
  traces that are loaded, changed and saved; in memory an append is one step, over the bridge a read
  and a write.
* `LangChain`: prompts, tools and callbacks as callers of a diary, which is what `OnceRegister` promises
  with expiry and the bound of the history added. `KeyOf` is the normalisation of keys; the handler's
  key has the clock in it, and its events go to the diary only with `persistEvents`, which the
  constructor sets or leaves off.
* `Plugins`: the loops of `initializeAll` and `search` over lists that grow, and the health records.
* `WorkerRegistry`: the map of workers over time. A claim's heartbeat is one of its calls.

## 3. Runs

| run | question | bounds |
|---|---|---|
| `promise_mutex` | is the promise queue a fair FIFO mutex, and what does a nested call do? | 3 calls and a nested one |
| `diary_once` | does `executeOnce` implement the once-register, with liveness? | 3 calls, 2 tasks, 3 titles, functions that fail, one that returns an object |
| `diary` | do all operations together keep the diary consistent? | 3 calls out of 14 operations, 3 signatures, `maxHistory` 2, times 0..2, TTLs 0, 1 and none, a snapshot of 3 records, all errors |
| `lease_lock` | do the four lock tables exclude, and do they recover? | 3 calls, lease 1, times 0..2, 2 attempts, crashes, lost answers, swallowed errors, failed releases, a missing index |
| `lease_diary` | does `executeOnce` stay at-most-once on them? | 3 calls, 2 tasks, times 0..3, crashes, lost answers, failed reads and releases |
| `file_diary` | the same on files, and does every call end? | 3 calls, 2 tasks, file there or not, crashes, failing functions and writes |
| `workflow` | are the operations on a workflow atomic, does an execution tell the truth, does everybody end? | 2 calls out of 8 operations, 2 workflows, one of them submitted before, 2 workers, a signature or none, both providers, all faults |
| `runtime` | do metrics, traces and events tell one story of a run, does an abort end it, is the environment opened and closed in pairs, does everything end? | 3 clients: a run beside two other calls, or three of 7 changes; once 4: a warm-up, two registrations, a removal; 3 tools with 2 names, 2 agents, 1 retry, windows of 2 |
| `services` | does each service keep its promise at every order of its awaits? | 3 calls of one service, from 1 to 7 kinds, both kinds of provider |
| `workflow_double` | finding: two workers run one workflow | 2 executions, in memory, no faults |
| `diary_no_result` | finding: an answer without a result | 2 calls |
| `file_create` | finding: two executions when the file is created late | 3 calls, no file at the start |

Why the bounds are enough: a conflict of the locks needs a holder, a successor and a third that
profits from what the successor was robbed of, hence three calls; of signatures the properties
distinguish the same, another, and one that does not fit (`maxHistory` 2 with three signatures). One
unit of time is a lease, and a second one makes a row stealable (`>` against `>=`), a third lets the
thief's own lease run out. Symmetry over the calls is used where no liveness is checked
(`diary`, `lease_diary`). `lease_diary` stops exploring once a call has overstayed its lease
(`NoOverrun`): its properties claim nothing of what follows. Every property of `workflow` relates a
call to at most one other that interferes, hence two calls; atomicity is proved for any number.
`HasRoom` keeps submissions to the ids there are. In `runtime` two tools share a name, so that one
replaces the other, and a third comes after them in the loops; two durations and windows of two make a
full window and distinct percentiles; runs take one duration, as no property compares theirs. Four
clients meet in one workload, the shortest way for a tool to be replaced, removed and registered again
while a warm-up waits for it. The
services' properties relate a call to at most two others (who reads, who writes in between, who asks
after). Deadlock is not checked: a run ends when
all its calls have ended.

What the properties say, beside one type invariant per module:

* `MutualExclusion`, `FirstInFirstOut`, `Fifo`: one function at a time, in order of arrival, in the
  sense of the contract. `EveryCallRuns`: with the microtasks run and functions that end, everybody's
  turn comes, after exceptions too, unless a call was made from inside the holder;
  `NestedCallBlocksForGood` is what happens then.
* `ExecutesOnce`: the refinement of `OnceRegister`.
* `DiaryAgrees`: the history is a set, `seenSignatures` begins with the history, `runCount` is the number
  of claims until an import or a clear, and all queries tell one story of it. `ReportedAreGone` (a record
  that is being reported is gone; that a throwing callback leaves the others unreported, `diary.ts:670`,
  is in the model and in no property, since nothing promises more),
  `ExclusiveClaim`, `OnlyClaimsAddRecords`, `ResultsAreKept`: what the operations rely on of each
  other, in any order, with callbacks and writes that fail; a result stays unless it expired, was
  deleted, rewritten or replaced by name, or did not fit.
* `ExclusiveUnlessOverrun`, `LeaseIsRespected`, `AbandonedLockIsTaken`: leases. The second, with its
  owner check, concerns Redis and Postgres; SQLite and MongoDB delete the row whoever it belongs to
  (`sqlite.ts:153`, `mongo.ts:88`), and a late holder there opens the lock of its successor: the first
  property does not speak of that, since it takes an overrun. The third exempts, besides callers that
  fail themselves, the two ways to stay blocked that the code has: a caller whose last attempt met a
  swallowed error of SQLite's theft (the history `swallowed`; `sqlite.ts:126`), and a MongoDB collection
  whose index was never created (`indexed`; `mongo.ts:21-33`). Without either exemption TLC finds the
  row of a dead holder in place and its caller timed out.
* `SoundUnlessOverrun`, `SoundUnlessWiped`: README.md:35 (one execution) and the permanence of results,
  with the exact conditions under which each storage gives them. `OneBody`, `EveryCallEnds`: the file's
  lock excludes, is taken over from the dead, and comes back.
* `OperationsAreAtomic`: the refinement of `WorkflowRegister`, which a lost update or a check against
  a stale copy would break. `ExecutionIsSound`: the workflow is in the name of the worker that runs it
  until another call claims or releases it; undisturbed, `executeWorkflow` returns only what is
  stored as the result of a completed workflow, and throws `fn`'s error only of a failed one; through
  a failing append it may yet throw `storage` of a completed one.
  `EveryCallEnds`, `ClaimedIsSettled`: no call stays inside, no executed workflow stays CLAIMED, short
  of storage errors and crashes.
* `CollectorExact`: counters and windows are what one computes from all events since the reset, and
  the queries agree with them. `OneStory`: one event per run and per tool call; trace, event and result
  agree. `AbortEndsRetries`: after an abort one more attempt at most, and none after an attempt that
  has heard the signal. `EnvironmentSound`: no tool is initialised twice or left open after a
  shutdown, except in the races the comment names; a name has one tool and every lookup speaks of it.
  `EverythingEnds`: runs, their calls and the loops of the environment end.
* `BusDelivers`: each emission calls whom it found subscribed, once; one-time handlers once in all,
  unless emissions nest. `CacheIsFresh`: the LRU does not contradict the provider below, unless
  answers overtook a write or a copy outlived its original's ttl. `LeaseIsExclusive`: who was granted
  the lease in memory has it alone until its time. `NothingIsLost`: what was recorded stays recorded
  unless saves crossed (crossed saves do lose one, `StorageManager.ts:83`), which those of the lists in
  memory never do. `EventsAreKept`: the handler's log and counters are of what came in; with
  `persistEvents` (off by default) a returned handler was answered with its own event or with one of the
  same type, run and millisecond, and that one is stored, or the diary is full of records that were all
  claimed later (the history `newer`), so that only the oldest are ever cut off. `AnswersAgree`: one value
  per prompt or input until its record goes.
  `ListsAreWalked`: who was there when a loop began is initialised, or asked. `WorkersAreTracked`: a
  worker's status is what it gave last, or offline if it was silent too long.

### Fairness

`PromiseMutex`: the event loop runs ready microtasks, and `fn` settles. `MemoryDiary`, `FileDiary`:
every await of a body ends, and functions settle; in `FileDiary` a waiter that retries eventually
finds a free or stale lock, or gives up. `LeaseLock`: a call that has begun goes on, the clock and the
TTL monitor of a collection that has its index do not stop. `WorkflowCoordinator`: every await of a call ends, the one for the lock
included when it can be had (with two calls a waiter has no rival; the order among many is the lock's
affair). `AgentRuntime`: timers fire, the
runtime's own awaits end, and agents and tools honour an aborted signal, as `AgentContext.ts:51` asks of
them; nothing makes an agent or a tool end before. `Services` needs none: its properties are safety.
No fairness is put on making calls, on faults or on crashes.

### Findings

1. `diary_no_result`: `executeOnce` answers from any live record (`diary.ts:199`): after a failure
   (or a crash that left a record pending) all later calls get `undefined` and the function is never
   tried again, whereas README.md:74 promises the cached result or an execution.
2. `file_create`: the creation of a missing file happens before the lock is taken (`storage.ts:71`)
   and empties a diary that another caller has written by then.
3. `workflow_double`: a state may always go to itself (`WorkflowStateMachine.ts:86`), so a claimed
   workflow can be claimed again: two workers run it at once, against docs/advanced.md:11.

### Seen while modelling

What the models show of the code without a run of its own, because it is a matter of taste, of a
comment's wording or of an exception that a property names:

* Leases are not renewed while a function runs (`redis.ts:55` and its siblings): `SoundUnlessOverrun`
  needs its condition. A late call's write drops claims made meanwhile, and a task may run twice.
* An agent that returns `success: false` counts as completed (`AgentLifecycle.ts:272`), and one that
  ignores its timeout completes.
* `ToolExecutor.run` and `AgentLifecycle.run` are documented never to throw, and do when validation
  throws or the agent is unknown. `timedOut` is true for aborts (`ToolExecutor.ts:128`), and an exhausted
  call reports one retry too many (`:141-150`).
* Two warm-ups at once, or a warm-up after an `autoInit`, initialise a tool twice; a warm-up after a
  shutdown opens tools again; `unregister` deletes whatever has the name after its await
  (`ToolRegistry.ts:81`), a newer tool without a cleanup included.
* A tool that was replaced by a namesake while it was open, or removed in that one's stead, and is
  registered again is initialised twice without a cleanup (`ToolRegistry.ts:49-62`). This came out of
  the proof of `EnvironmentSound`, which did not go through with three clients' freedom; TLC then showed
  it with four calls, and the property exempts it as one more race.
* A `get` through the LRU caches a value with a ttl as one without (`LruMemoryProvider.ts:27`).
* The bridge grants every lease (`StorageManager.ts:46`) and loses events when appends cross (`:83`).
* `listDiaryEntries` takes a ttl of 0 for none (`repositories/index.ts:229`), the diary for an expired one.

## 4. Proofs

`PromiseMutexProof` proves about `PromiseMutex`, for every set of calls and every choice of the nested
ones (assumptions: `NoCall` is no call, nested calls are calls):

* `TypeCorrect`: `SafeSpec => []TypeOK`;
* `MutexTheorem`: `SafeSpec => []MutualExclusion`;
* `FifoOrder`: `SafeSpec => []FirstInFirstOut`;
* `Refinement`: `SafeSpec => F!FifoSafeSpec`. `MemoryDiary` composes the diary with `FifoMutex`, so this
  is what carries its results over to the code's lock.

Neither safety property is inductive: that nobody else is inside says nothing of what a promise in
the queue will do. The invariant `IInv` adds what the code's comment calls "the next caller must wait
for prev AND our hold": tickets number the calls along the `prev` pointers without a gap
(`TicketsInv`, `ChainInv`); a promise settles only after its own call has left and after those of all
earlier calls, so the settled ones are an initial segment (`SettledInv`); nobody was let in before
the promise it awaits had settled (`EnteredInv`). Then of two calls inside the earlier one would have
left. Each action has its lemma.

`WorkflowCoordinatorProof` proves about `WorkflowCoordinator`, for all sets of calls, workers,
signatures and workflows and under every fault (assumptions: operations are well-formed, the no-values
are no values):

* `WorkflowTypeCorrect`: `SafeSpec => []TypeOK`;
* `Atomicity`: `SafeSpec => OperationsAreAtomic`, the refinement of `WorkflowRegister`.

That a save is one allowed change of the *stored* record needs to know that the copy is not stale. The
invariant `IInv` says so: who is between `Acquire` and `Leave` holds the lock of its workflow
(`HolderInv`), what is about to be saved is the stored record with an allowed change (`CopyInv`), and
its target state is one the repository sets, with a worker if it is a claim (`WantInv`). `CopyInv` is
kept by the steps of others because a writer holds the lock and a submission only writes where there
was no record. Then initial states map to initial states (`InitIsRegisterInit`), a submission to
`Create`, a save that lands to `Set`, and the rest to stutters.

It proves further, under the same assumptions:

* `ExecutionSoundness`: `SafeSpec => []ExecutionIsSound`.

The property speaks of the moment the function runs and of the answer; the invariant `AllSound` follows
an execution from the save of its claim. From then on the workflow exists and has the worker of the
execution, and only the save of another call's claim or release takes it away (`OwnInv`); that call
exists from then on, so that the property can name it. A workflow no other call is about is changed by
the execution's own saves alone (`SoleInv`), so the state it reports is the stored one.

`MemoryDiaryProof` proves about `MemoryDiary`, for any number of calls, titles and tasks, under the
conditions `OnceAlone` of the run `diary_once`: `executeOnce` alone, no TTL, a history with room for all
tasks, and no adapter that takes a failed read for an empty diary:

* `RunsAtMostOnce`: `SafeSpec => []AtMostOnce`, also where functions, reads and writes throw;
* `AnswersAreStored`: `SafeSpec => []CompletedIsStored`, likewise;
* `ImplementsRegister`: where only functions throw, `SafeSpec` implies the initial condition and the
  steps of `OnceRegister` under the refinement mapping of `MemoryDiary`. `ExecutesOnce` is this and the
  register's fairness, which stays with TLC.

That no task runs twice follows from what is stored, and what is written was read some steps before. The
invariant `OnceInv` says that one call at a time is in its body (`LockInv`), that from the read to the
write its copy is the stored diary with its own change (`StageInv`: `Prepares`, `Rewrites`), and that the
history has one record per task (`Distinct`), from which follows that `slice(0, maxHistory)` cuts
nothing (`NothingIsCut`). A claim is then only written where the task has no record, and a record stays.
Where a write may throw, a task may stay pending with nobody left to settle it; `PendingInv`, which the
register's `Recall` needs, holds where only functions throw.

It proves further, for all operations together in any order, with everything that may throw, under
`NoBlindReads` (no read error is taken for an empty diary, which is so in memory: an error of that kind
loses the diary, and nothing below would hold):

* `TypeCorrect`: `SafeSpec => []TypeOK`; `HistoryStaysASet`: one record per signature and at most
  `maxHistory` of them, imports and merges included;
* `ReportsAreOfTheGone`: `SafeSpec => []ReportedAreGone`;
* `ClaimsAreExclusive`, `RecordsComeByClaims`, `ResultsStay`: `SafeSpec` implies the action properties
  `ExclusiveClaim`, `OnlyClaimsAddRecords` and `ResultsAreKept`.

Each is about the moment of a write, when the record that matters was read several awaits before. The
invariant `WorkInv` (checked by TLC with the operations of `diary` before it was proved) is `LockInv`
with, for the one call at work, what its copy has in common with the stored diary at each stage of its
body: a claim in progress has found or made room for each signature in `claimed` and kept everything
else that is live (`ClaimStage`); a function's result changes its own record alone (`RunStage`); a change
about to be saved keeps all but what its operation may remove (`SaveStage`). `KeepsAll` and `AddsNone`
are these relations between two histories, and the lemmas show each list operation of the code (prepend,
replace, filter, merge by signature, cut at `maxHistory`) to keep them.

* `DiaryAgreesAlways`: `SafeSpec => []DiaryAgrees`, with its four parts: the history is a bounded set,
  `SeenMatchesHistory`, `RunCountExact` and `ViewsAgree`.

The second and the third need an invariant of their own, `BooksInv` (`BooksInvariance`; checked by TLC
with the operations of `diary` before it was proved), because neither is about one record. What is
written was copied several awaits before, so each copy on its way to the storage is said to begin its
`seenSignatures` with its history, and a claiming copy to have the stored `runCount` plus the size of
`claimed`; until an import, a merge or a clear is called, the stored count is the number of pairs of a
call and a task in the set `Written`, to which a step adds the claims of one call or nothing
(`BooksMove`). That a claim is counted once rests on its signature being new to `claimed`, which
`ClaimStage` has. `ViewsAgree` needs no more than the bounded history: every query is a filter of it,
two filters with the same records are equally long (`SameLength`), and pages follow one another
(`Pages`). What an exported diary brings with it is assumed as `SnapshotAssumption` has it: one record
per signature and a `seenSignatures` that begins with them, which is what these theorems say of every
diary that exports.

`DiaryProof` has the lemmas that the diaries share, with the diary as a parameter (`d` before a step, `e`
after it), because it is not always what the storage holds: a file that is being written reads as empty.
`StepKeeps` is the step of `executeOnce` under any lock that admits one call at a time.

`LeaseDiaryProof` proves about `LeaseLock`, for each adapter, any number of calls and any lease:

* `LeaseTypeCorrect`: `LeaseSafeSpec => []LeaseTypeOK`;
* `LeaseExclusion`: `LeaseSafeSpec => []ExclusiveUnlessOverrun`;
* `LeaseRespect`: `LeaseSafeSpec => LeaseIsRespected`.

Exclusion is not inductive: it says nothing of the row. The invariant `IInv` says that, while no lease
was overrun, who is inside owns the row and is in time (`HolderInv`), that the row of an owner inside has
the time of its own clock (`RowInv`), which is not in the future (`StampInv`), and that a thief holds a
time that is out of date for good (`StealInv`). Such a row is `Young`: not free, not swept, not stolen.
On top of it, about `LeaseDiary` under `OnceAlone`:

* `SoundUnlessOverrunTheorem`: `SafeSpec => []SoundUnlessOverrun`. While no lease is overrun and no failed
  read was taken for an empty diary, one call is in its body, and the lemmas of `DiaryProof` apply. What
  the invariant adds is the calls that died or failed inside and are neither there nor done.

`FileDiaryProof` proves about `FileDiary`, for any calls and titles:

* `OneBodyTheorem`: `SafeSpec => []OneBody`, under every fault, because every step of a body stays in it
  with the lock held (`HolderInv`, `Within`). Who holds the lock directory is alive or dead; only a dead
  one is robbed;
* `SoundUnlessWipedTheorem`: under `OnceAlone` and without blind reads, `SafeSpec => []SoundUnlessWiped`.
  The diary of the argument is the file's content or, between the opening and the writing, what the
  writer holds (`FileInv`, `OpenedInv`); a crash there, or a creation that comes late, is what `wiped`
  excepts.

`AgentRuntimeProof` proves about `AgentRuntime`, for any number of runs, agents, tools and retries, and
windows of any length (assumptions: the workload is well-formed, names and metadata have their types):

* `AbortTheorem`: `SafeSpec => AbortEndsRetries`. The invariant `LateInv`: an attempt that began after the
  abort has its signal set, and a call that may be tried again has had no such attempt;
* `EnvironmentTheorem`: `SafeSpec => []EnvironmentSound`. The loops of the registry await a hook with an
  iterator open on a `Map` that others change. The invariant `EnvInv` says where each iterator may be: a
  name has one place in the list of entries (`EnvTypes`); a warm-up has only tools that are not ready, or
  raced for, ahead of it (`OnceInv`); a clean-up has none ready behind it that was there when it began
  (`CloseInv`). Lemmas say what insertion, replacement and deletion do to the places of a `Map`
  (`PlaceIs`, `SetIs`, `DeleteIs`), and that the registries' lookups agree (`LookupsAgree`, `AgentsAgree`);
* `RuntimeTypesTheorem`: `SafeSpec => []TypeOK`;
* `OneStoryTheorem`: `SafeSpec => []OneStory`. By `StoryInv` a client has no event in any log until its
  run, or its tool call, emits the one that its state then says it has emitted; events are only appended,
  and a reset forgets all;
* `CollectorTheorem`: `SafeSpec => []CollectorExact`. A step of the runtime does one of four things to the
  collector (`MetricMove`: nothing, a run's event, a tool call's event, a reset), and an event changes the
  counters of one subject and pushes one duration. The invariant `CollectorInv` adds to the agreement of
  counters and events that a window is the end of the durations seen (`WindowHolds`) and that finitely many
  tools were seen, without which no ranking of them exists. Sums, order statistics and the two rankings
  are computed by operators the provers can reason about (`SumUp`, `AtRank`, `Ranked`); that `AtRank` is
  what sorting gives is an assumption of `MCAgentRuntime`, which TLC evaluates on short windows.
  This attempt corrected the property: a conjunct said that the mean is at most the 99th percentile, which
  the run's windows of two cannot refute and a window of a hundred durations or more does (the collector
  keeps a thousand): one extreme value is above that percentile and still weighs in the mean.

`ServicesProof` proves about `Services`, for any number of callers and values (assumption: the inputs and
handlers that callers name are declared ones, and the events of a callback handler have keys of their own, since
each class has its own diary):

* `LeaseTheorem`: `Spec => []LeaseIsExclusive`;
* `WorkersTheorem`: `Spec => []WorkersAreTracked`;
* `PluginsTheorem`: `Spec => []ListsAreWalked`; its invariants `InitInv` and `SearchInv` say what each loop
  has behind it;
* `CacheTheorem`: `Spec => []CacheIsFresh`; a call between the provider's answer and the filling of the
  cache carries what was true then, and the write that outdates it is recorded as one that overtook;
* `AnswersTheorem`, `EventsTheorem`: `Spec => []AnswersAgree`, `Spec => []EventsAreKept`. `LangInv`: one record
  per key, executions counted by renewals of the record and its presence (`CountInv`), every answer given
  or about to be given the record's (`RecordsInv`). For the
  events it adds that the record of an event has only newer ones in front of it, that a claim pushes it
  back by one or cuts it off when a full diary of newer ones remains, and that it is the claim of the call
  in the lock that is in front (`KeptFor`, `ClaimOf`). `HandlerInv`: the log is the end of what came in;
* `TracesTheorem`: `Spec => []NothingIsLost`. `ObsInv` says of each save on its way what it was loaded from;
* `BusTheorem`: `Spec => []BusDelivers`, under the assumption `IsNew` that `once()` makes a wrapper that
  nobody has subscribed before (it is a new closure). Emissions nest, and each walks a copy of the list it
  found. The invariant `BusInv` says of each, counted from the outermost, that whom it chose has been
  called or is still ahead of it, and that a one-time handler that was called is off the list.

The services share no variable, so the lemmas named `Moves` first show that a step of one leaves the others as
they are. The attempt at `CacheTheorem` showed that two cases of one definition of the model overlapped;
they now exclude each other.

On induction: the provers cannot instantiate the library's induction theorems, but `WFMin` with the
well-foundedness of `<` on the naturals gives a least counterexample, which serves for a recursive
*function* (`Filter` in `Diary`). What the community modules compute by `SelectSeq`, `SortSeq` or a fold
stays opaque; where it stood in the way of a proof the model says the same with `Filter`, `RemoveAt` or
a set of places.

Only model-checked: liveness and everything that depends on fairness or on `ENABLED` (out of the
prover's reach; `ExecutesOnce` has such a part, and `FirstInFirstOut`'s companion `EveryCallRuns`,
`EveryCallEnds`, `ClaimedIsSettled`, `AbandonedLockIsTaken` and `EverythingEnds` are nothing else).

## 5. State of the plan

The plan's steps are done: the mutex with its proof, the diary and its storages; the workflow with its
refinement proof; the runtime with tools, registries and metrics; the services, LangChain included. The
invariants that the passing runs check are theorems, and so are the action properties. What would come
next: the composition of `WorkflowCoordinator` with `Observability`, whose appends are single steps that
may fail there.

## 6. Not modelled

`globalTtlMs` of Redis (a whole diary expires; off by default); clock skew; blocked event loops that
let a live proper-lockfile lock go stale; `findTasksByKeyword` and other work on texts; `searchKeys`
and listings; replacing a provider of a running `StorageManager`; `recordReuse`, which nothing calls;
listeners of the runtime's events other than the collector. A `writeTaskResult` by a claimer whose
claim has expired and was taken by another completes the other's claim (records have no owner): the
model has the behaviour, no property forbids it, since nothing in the code does. The Redis and Postgres
*providers* (`redis/`, `postgres/`) are placeholders whose methods throw; logging, codec, dashboard,
benchmark and the distributed contracts have no state a property could be about; `packages/` is an
older copy of `src/`.
