# Senkani: specifications of the concurrent core

TLA+ specifications of the parts of Senkani where several actors meet: processes that
share one SQLite file, tasks and timers of one process, workers that crash, statements
that fail. TLC checks them on small instances; TLAPS proves every safety property the passing
runs check, invariants and action properties, for every value of the constants.

## The system and its parts

Senkani is a set of processes (macOS app, MCP server, hook helper, command line) that
share per-session state in a SQLite database in WAL mode (`SessionDatabase`). In a
process every store uses one serial dispatch queue and one connection; between processes
only SQLite's own locking applies.

| Part | State | Operations | Hard behaviour | What makes it correct |
|---|---|---|---|---|
| Work queue (`SessionWorkQueueStore`, `ackWorkOnCommit`) | `session_work_queue`; the leases workers hold | enqueue, lease, renew/heartbeat, ack, ackWorkOnCommit, retry, deadLetter, reap, replay | leases expire while work runs; `lease` is several statements; stale clocks; crashes | a live lease is exclusive, an expired one stays expired, an effect is persisted once, every job settles |
| Event stream (`SessionEventStreamStore`, `EventStreamDispatcher`, consumers) | stream, offsets, claim cursors, tasks | append, pull, claim, commit, start, stop | cancelled tasks overlap their successors; a crash between claim, effect and commit | at most one effect per event; only faults lose one; offsets never go back; every event passes |
| Auto-validate (`AutoValidateQueue`, worker, configuration) | pending items, debounce timers, running count, one configuration for all projects | enqueue, timer, startValidation, validationCompleted | a timer that ends while it is cancelled; spent timers of deferred items; configuration of another project | the last edit is never dropped; nothing that waits is stranded; every item starts once other files' edits stop |
| Validation delivery (`ValidationStore`, `ValidationStreamConsumer`, producer, browser validations, gate and advisory leg of `HookRouter`) | `validation_results`, `delivered` and `surfaced_at`; jobs on the database queue | insert (with outbox), fetch, mark, claim, gate, prune | two legs deliver the same rows, one asynchronously and unguarded; jobs that die with the app; a gate that reads what was only queued | an advisory is shown once but for faults, and counted once but for faults and claims between a hook call's read and its mark; every advisory is taken; a reported failure closes the gate |
| Hook router | configuration, budgets, confirmations, trust | `handle` of one hook event | a long sequence of decisions; advisory leg shared with the bus | fail-closed decisions |
| Pane refresh (`PaneRefreshScheduler`, `PaneRefreshCoordinator`, store) | tiles, their next update and cache, worker pool | tick, fetch, apply outcome, rehydrate | overlapping fetches, restart | no lost slot, back-off |
| Inference lock and engines (`MLXInferenceLock`, `EmbedEngine`, `VisionEngine`, `GemmaInferenceAdapter`) | holder, FIFO of waiters, unload handlers; each engine's model; one index of a project's files | acquire, release, ensureModel, indexProject, search, memory warning | hand-over of the lock; actors that are re-entered while a load or an inference is awaited; unloads at any time | one inference at a time, no lost wake-up, a loaded model can be unloaded, an index is of the root it is taken for |
| Browser pane | lock state, dispatch state | take, release, dispatch | two drivers of one pane | one driver |
| Audit chain (`ChainState`, `ValidationStore`, `ChainVerifier`, `ChainRepairer`) | chained rows, anchors, a cached anchor and tail per process | append, open an anchor, roll back, repair, verify | processes that interleave statement by statement; rollback with a warm cache; a change of the hashed columns; repair while rows are appended | what was written verifies; no row escapes the walk; no hash of a rolled-back row is chained to; a repair heals |
| Migrations (`MigrationRunner`) | `schema_migrations`, `user_version`, flock, kill switch | run, baseline, apply, roll back, clear | processes of one or two releases start at once; kills; no busy timeout | each migration once, log and schema agree, nobody hangs |
| MCP server, hook relay | connections, sessions, read cache | accept, call, close | admission limits, stale cache | |
| Egress proxy, OpenAI endpoint, model manager, knowledge store, compound learning, autorun, workstreams, schedules, packs and vaults, telemetry, indexer, filters, benchmarks, CLI, app | see `PROJECT.json` | | mostly I/O, parsing and sequential logic | |

The parts interact through the database: an edit reaches `HookRouter`, which enqueues it
on `AutoValidateQueue`; a validation inserts result rows and, with the dual-write flag,
appends to the event stream and enqueues on the work queue in one outbox transaction;
the dispatcher's consumers drain the stream; the next hook event picks up advisories.

`PROJECT.json` lists every component with its sources and status, and every hazard at
its line.

## The modules

| Module | Models |
|---|---|
| `WorkLedger` | what the work queue promises: a job is submitted, settled once, its effect persisted at most once; an operator may reopen a buried job |
| `WorkQueue` | `SessionWorkQueueStore` and `ackWorkOnCommit`, with workers, processes, clock, crashes |
| `MCWorkQueue` | homes of the workers and kinds of the rows for TLC |
| `WorkQueueProofs` | theorems about `WorkQueue` and the refinement of `WorkLedger` |
| `EventStream` | stream store, dispatcher tasks, claim-cursor consumers |
| `MCEventStream` | tasks and consumers for TLC |
| `EventStreamProofs` | theorems about `EventStream` |
| `AutoValidateQueue` | the actor's debounce, capacity and pick-up logic |
| `MCAutoValidateQueue` | configurations for TLC |
| `AutoValidateProofs` | theorems about `AutoValidateQueue` |
| `InferenceEngines` | `MLXInferenceLock` and the engines that load and run models |
| `MCInferenceEngines` | the clients of the engines for TLC |
| `InferenceProofs` | theorems about the lock and the unload handlers of `InferenceEngines` |
| `ValidationDelivery` | the hook leg, the bus consumer and the gate over one table and one serial queue |
| `MCValidationDelivery` | its module for TLC |
| `DeliveryProofs` | theorems about `ValidationDelivery` |
| `AuditChain` | the hash chain of `validation_results`: writers, anchors, cache, repair, verifier |
| `MCAuditChain` | what the two processes do |
| `ChainProofs` | theorems about `AuditChain` |
| `MigrationRunner` | `MigrationRunner.run` in several processes |
| `MCMigrationRunner` | their releases |
| `MigrationProofs` | theorems about `MigrationRunner` |

The components meet in the rows they share: `Outbox` of `AuditChain` is the insert whose
stream row `EventStream` drains and whose `Claim` is in `ValidationDelivery`; the updates of
`RunMark` and `Claim` there are `Surface` in `AuditChain`; migration 29 of
`MigrationRunner` is applied to the old databases `AuditChain` starts from.

### WorkQueue

`row` is the table. A date is kept as its distance from the clock (`left` of the lease,
`delay` of the wake-up), so that the state space is finite; `Tick` moves the clock. A
caller computes `now` before it waits for the serial queue, so the model lets the `now`
of a statement be up to `MaxLag` old. What is not later than `Past` is kept at `Past`: the
epoch, a NULL and a date long gone answer every comparison alike.

Each UPDATE is a step; so is each BEGIN IMMEDIATE transaction, because it holds SQLite's
write lock. `lease` has no transaction: `LeaseSelect` is its SELECT and each `LeaseClaim`
one UPDATE, during which callers of the same process wait (`QueueFree`), and other
processes do not. `held` and `trust` are what a worker knows: the leases it was handed and
how long it believes they run. `Crash` empties them and leaves the rows.
`StatementFails` stands for work that throws, a refused BEGIN or COMMIT, and SQLITE_BUSY:
the store sets no busy timeout. `replay` updates any row; `ReplayedStates` says which
rows operators replay. A lease of `limit` rows with no eligible row changes nothing and
is no step.

The code in `Sources` calls only `enqueue` (the dual-write legs); the workers are those
of the tests and of the contract in the docs: lease, work, renew, settle.

### EventStream

A task's `drainOnce` is a pull, one claim per event, and a commit; each is a turn of the
serial queue. The bump of a won claim (`owes`) is queued by `recordEvent` after the claim
returned: it runs before the task's next turn, other tasks may run in between, a crash
loses it. `stop` cancels without waiting: a draining task goes on to the head of the
stream (`cancelled`), while `start` already runs its successor. In a pull, a failed lookup of the
offset reads as offset 0 and a failed step ends the batch early (`PullFails`), so a task may be
handed events again that it is through with, or a part of what is due. `counted` and `struck`
are history: what was counted, and which events a fault hit. The 1000-drain bound of
`drainToHead` and the poll interval are left out: a task that ends early is started or
woken again.

### AutoValidateQueue

Each action is a turn of the actor or a step of a task outside it. An accepted edit is
known by its number, which also names its debounce task and its validation; a number nothing
refers to any more is given out again, so edits need not end. `owed` is history: the newest
accepted edit of a file until its own validation starts. A timer that
has passed its cancellation check is `firing`: cancelling it has no effect any more. The
configuration that `enqueue` loads may be another at each call, and is shared by all keys.
What a validation does (subprocess, result rows) is outside this module.

### InferenceEngines

A task's step is what it does on one actor between two suspension points, so two tasks
can both be inside `ensureModel` or `indexProject` while each awaits. `task[t].at` is the
suspension point; `Inside` is the closure of `run`. `EmbedEngine` loads before it takes
the lock, the engines in `Engines` inside it. `index.root`, `index.of` and
`index.current` are `projectRoot`, the project the embeddings are of, and a fresh
`indexedAt`. The file counts that `isIndexFresh` compares are taken to be alike for all
roots; a root in `Unreadable` has no file to read, and `indexProject` returns early.
One memory warning is handled at a time. The fallback tiers of a load, the start-up
prefetch and the `ml-eval` adapter are left out. Tasks do not give up while they wait:
`acquire` uses a continuation that ignores cancellation.

### ValidationDelivery

One session, one app. Rows are numbered by `created_at`, which a writer reads before its
insert is queued, so they are stored in any order. A `sync` turn of the database queue is
an action guarded by `Turn`: the queue is FIFO, so the jobs put there before have run. An
`async` block is an entry of `jobs`; it runs (`RunJob`), its statement fails (`FailJob`,
logged only), or the app dies with it (`Crash`). `hook` is the one call on `hookQueue`:
past the gate, or holding the batch it read until it ends in `Deny` (one of the denials
that append the text) or `LetPass`; which one is left open, since budget, confirmation,
credentials and packs are not modelled. `Claim` stands for any delivery of the row's event, first
or repeated (`EventStream` says when). A browser validation is stored by the app or by a
standalone `senkani-mcp`, whose insert the app's queue does not order. `shown`,
`hookCount`, `busCount`, `gap` and `struck` are history. Fetch and show limits (10 and 5)
are constants.

### AuditChain

A hash is the id of its row: two rows have the same `entry_hash` only if they are the same
row, so hashing is left out, and what matters is which columns were hashed (`v22`), which
row's hash is stored as `prev_hash`, and whether hashed columns were updated since
(`surfaced`). The steps are SQL statements: the database queue excludes the others of its
own process, not those of another. An outbox insert and the commit of a repair are one step
each, under BEGIN IMMEDIATE. A rolled-back insert leaves the cache as its lookups and
`recordWrite` set it until `Catch` gets its own turn (`aborting`). Any statement that writes may
fail, since no busy timeout is set. `Walked` and `Recomputes` are the verifier's SELECT
and its recomputation; it uses the stored `prev_hash` and does not compare it with the
row before, so `Broken` says nothing about forks. Only `validation_results` is modelled: the
other chained tables use the same `ChainState`, and have one writer's shape per anchor.

`ChainInit` is a new database or one that a release before v29 left, with rows. Its first
anchor is the one `anchorBackfill` opened behind the rows there were (`v5`), or a
fresh-install one, which migration 29 renames to `legacy`; a repair may have added a second.
Rows behind those anchors were hashed without the columns of v22, and rows before them not at
all. Left out are two fresh-install anchors from two processes that started at once, more than
one old repair, rows pruned before v5, and chains with gaps, which `Prune` leads to.

### MigrationRunner

A step is a statement, a file operation or a transaction. `Target` is the last version of
the release a process runs; `seen` is the set `readAppliedVersions` returned, extended as the loop
goes on. A process that is done, refused or has failed is `serving`: SessionDatabase logs
the error and goes on, and its writes may meet another's BEGIN IMMEDIATE (`BeginBusy`).
`Stop` is an exit or a kill anywhere; the system releases the flock and SQLite rolls back.
`RollBack` also covers an INSERT of a version that is already there. The operator removes
the kill switch at any time. What a migration does to the schema is one step; `ups` counts
how often its statements were committed.

## What the runs check

| Run | Instance | Result |
|---|---|---|
| `queue_safety` | 2 processes, 1 worker each, 1 row, lease of 1 or 2 ticks, clocks up to 1 tick stale, 2 faults, 2 retries, 2 replays of dead letters | leases exclusive (`LiveLeaseBacked`), `NoResurrection`, `EffectAtMostOnce`, refinement of `WorkLedger` |
| `queue_service` | 1 process, 2 workers, 2 rows of 2 kinds, limits 1 and 2, 1 retry, 1 fault, fairness | `WakeupRespected`, `EveryJobSettles` |
| `stream` | 2 task names in one process and 1 in another, 2 events of 2 tables, pulls of 2, 1 fault, fairness | `AtMostOnce`, `OnlyStruckAreLost`, `NeverRewinds`, `EveryEventPasses` |
| `stream_exactly_once` | 1 task, 1 event, 1 fault | `ExactlyOnce` is violated: a failed claim or a crash loses the effect |
| `auto_validate` | 2 files, 4 accepted edits alive at a time and edits without end, configurations that are disabled or allow 1 or 2 validations, fairness | `NewestKept`, `NeverStranded`, `EveryItemStarts` |
| `inference` | a vision client, an embed client, a client of every embedding call; 2 roots, one without files; memory warnings and ageing at any time, fairness | `OneAtATime`, `NobodyForgotten`, `LoadedCanBeUnloaded`, `EveryCallReturns` |
| `inference_index` | 2 embed clients of 2 roots | `FreshIndexIsOfRoot` is violated |
| `validation_delivery` | up to 3 advisories, batches of 2 of which 1 is shown, 1 browser validation, 1 fault, fairness | `ShownTwiceOnlyIfStruck`, `BusCountsOnce`, `CountedTwiceOnlyInTheGap`, `HiddenBehindNewer`, `ReportedFailureClosesGate`, `EveryAdvisoryIsTaken` |
| `apply_gate` | 1 advisory, 2 browser validations | `OverrideLiftsGate` is violated |
| `audit_chain` | 2 processes, one with all writers and one that inserts and repairs, 2 rows, 3 anchors; a new database or one of 16 old ones | `OnlyMarkedRowsBreak`, `EveryRowIsWalked`, `NoLostPrev`, `ForksTakeTwoWriters`, `OwnAnchorIsFollowed`, `RepairHeals` |
| `audit_surfaced` | the same | `UntamperedVerifies` is violated by the first mark |
| `migrations` | 3 processes, one of the release before, 2 versions, 1 failure, any kills, fairness | `SchemaMatchesLog`, `ClashesNeedAnUpgrade`, `KillSwitchStopsLaterBoots`, `EveryBootEnds` |

Each module also has its type invariant, checked once.

Why the bounds are enough. A lease can be lost to one other worker; one row suffices for
what concerns a row (rows meet only in the SELECT's order and limit, which `queue_service`
covers with two). Two ticks of lease and one of staleness give every order of expiry, reap,
renewal and late ack; two faults let a crash follow a failed statement. Two events are a
batch in which one is claimed and the other is not; three tasks are a cancelled one, its
successor and a stranger. Four edits of two files alive at a time let one item run, one be
deferred and a timer race with both; their numbers are used again, so that a file's edits
can take one slot after the other while the other file waits. Three tasks are a holder and
two waiters, the fewest for an unfair hand-over to starve one, and two of them meet in
`EmbedEngine`. Three advisories, batches of two and one shown are one in the text, one
behind it in the same batch, and one that the limit keeps out; `MaxResults` (3) lets there
be three of them, or one beside the browser validation. Two rows are a predecessor and a row
that chains to it, or one on each side of an anchor; three anchors are an old one, the
migration-v22 one or an old repair, and a repair. Two versions are one that is applied and
one that is pending, and three processes a holder of the flock, one that waits and one that
serves; targets of 3, 3 and 2 hold too (254,232 states). Symmetry is used in `queue_safety`
only, which has no liveness property: the two workers are exchanged together with their
processes.

### Fairness

`WorkQueue!Fairness`: time passes; the reaper is scheduled (the doc of
`reapExpiredLeases` asks the caller for it); idle workers poll; a started statement ends;
and a job that is leased again and again is at some point settled by a worker that still
owns it (strong fairness of `SettleOwned`). The last is an assumption about workers, not
about the code: the reaper does not count retries, so a job slower than its lease would
otherwise be leased and reaped for ever. `EventStream!StreamFairness`: a task that can
take a step does, and the dispatcher is started again after a stop or a crash.
`AutoValidateQueue!ValidateFairness`: timers end, tasks reach the actor, validators return
(they are killed after their timeout). This does not start every item: a completion picks
any key, so with one slot the edits of one file can keep another's item waiting for ever.
`EveryItemStarts` therefore says in its formula that from some time on no edit of another file
is accepted; the edits of the item's own file may go on. `InferenceEngines!InferenceFairness`:
loads and inferences end, and a task that was resumed is run; clients need not call.
`ValidationDelivery!Fairness`: the queue runs its jobs, a hook call ends, and the agent goes
on calling tools and is denied now and then (strong fairness of `Deny`); without a denial
the hook leg delivers nothing, and the bus consumer, on which nothing is assumed, is off by
default. Advisories are finitely many in the run: a fetch takes the newest, so if newer ones kept
coming an older one could wait until the prune. `MigrationSpec`: a process inside `run` goes on,
and the system grants the flock to every process that waits for it. `AuditChain` states none: it
has no liveness property.

## What is proved

Every theorem holds for any sets of processes, workers, tasks, keys or roots and any bounds, under
the ASSUME of the module it is about. These give the constants their types and let a lease
last at least one tick, a batch and an answer hold at least one event or advisory, and
`chain_anchors` at least the row a migrated database starts with. Five theorems need more, and
each says so in its statement:

| Theorem | Needs | Why the code needs it |
|---|---|---|
| `LeasesAreSafe` | operators do not replay rows that are processing | `replay` updates a row of any state |
| `QueueImplementsLedger`, `EffectsHappenOnce` | they replay dead letters only | the same: a succeeded row would run again |
| `BackOffsAreRespected` | all workers are in one process (`OneProcess`) | `lease`'s SELECT and UPDATEs are one turn of the queue of their own process only |
| `ItemsAreNeverStranded` | limits are at least 1 (`LimitsArePositive`) | the initializer clamps them; a file with 0 bypasses it and does strand items |

Few of the properties are inductive. Each proof module defines its strengthening, with a name,
as a conjunction of named parts; TLC checked the strengthenings on the instances of the runs
before they were proved.

### WorkQueueProofs

* `TypeCorrect`: `TypeOK` is inductive. It contains the shape of a row (an owner exactly
  when the row was claimed since it was last pending; only ids up to the counter exist),
  on which everything else rests.
* `LeasesAreSafe`: `LiveLeaseBacked` is inductive together with `TypeOK`. Beliefs age with
  the lease, a claim or a renewal sets both from the same number, the reaper takes only
  rows whose lease has run out for every clock up to `MaxLag` old, and every other write
  asks for the owner.
* `ExpiredLeasesStayExpired`: the action property `NoResurrection`, step by step.
* `BackOffsAreRespected`: the action property `WakeupRespected`. `SelectedAreDue` says that
  one lease call runs at a time and that what its SELECT found is still pending and due:
  meanwhile no other call of the process gets a turn but `replay`, which makes a row due.
* `QueueImplementsLedger`: each step is a step of `WorkLedger` or leaves its variables alone.
* `EffectsHappenOnce`: the strengthening is that a job has an effect, and one only, if its
  row has succeeded (`EffectsAreDone`).

### EventStreamProofs

* `StreamTypesHold`, and the invariant `StreamInvariant` from which the rest follows.
* `EffectsAreAtMostOnce`: `AtMostOnce` needs `ClaimedFirst`. What was counted or is owed lies
  behind the claim cursor, and a claim moves the cursor past an event once.
* `OnlyFaultsLoseEffects`: `PassedIsSettled` says that whatever the cursor, the offset or a
  task has passed is counted, owed, not acted on, or struck. It rests on a batch being what the stream
  holds right after the offset (or from its start, when a failed lookup reads as 0), cut at its
  end only (`BatchIsContiguous`), and on a task
  that claims its batch in order: a claim of a later event then skips only what is settled.
* `OffsetsNeverRewind`: the action property `NeverRewinds`; the commit takes the larger number.

### AutoValidateProofs

* `ValidateTypesHold`: includes that the actor's count is the number of validations in
  flight, and never above the largest limit.
* `NewestEditIsKept`: `NewestKept` needs `OneWaits`: an edit that waits does not run, and waits
  for one file only, so that starting it settles what is owed to that file and no other.
* `ItemsAreNeverStranded`: `NeverStranded` is preserved under the same invariant. A timer is
  spent on an item that stays only when all slots are taken, so something runs; a completion
  leaves a waiting item behind only when others still run.

### InferenceProofs

* `InferenceTypesHold`: types.
* `RunIsExclusive`: two tasks are never inside `run`. Exclusion alone is not inductive,
  because a release makes a waiter the holder: `LockInv` adds that `busy` is set exactly
  while somebody is inside, that nobody waits while it is clear, and that the queue holds the
  suspended tasks, each once.
* `WakeUpsAreNotLost`: `NobodyForgotten`, from the same invariant.
* `LoadedModelsHaveHandlers`: `LoadedCanBeUnloaded`. `HandlerInv` says what an engine's
  `unloadHandlerRegistered` stands for: one handler is stored, or one task is on its way to
  store it. So two callers that both load the embedding model register it once.

### DeliveryProofs

`DeliveryInvariant` follows an advisory from the text over its mark and its counts to its row. Its
parts: which jobs may wait on the database queue at once (`OneOfAKind`; every `sync` turn
waits for all of them, `TurnsWaited`), that a queued browser validation is on the queue
(`QueuedWaits`), and, for each row, where it stands with either leg (`HookLeg`, `BusLeg`).

* `DeliveryTypesHold`: includes that the queue holds at most `3 + MaxChecks` jobs.
* `ShownAgainOnlyIfStruck`, `ConsumerCountsOnce`, `TwiceCountedInTheGap`: read off the legs.
* `UnshownStandBehindShown`: an answer shows the `Show` newest of its batch. A row of the batch
  that is not among them has `Show` newer ones before it, and shown rows stay shown.
* `GateSeesReportedFailures`: the action property `ReportedFailureClosesGate`. The gate's
  read is a `sync` turn, so no insert the app queued is behind it.

### ChainProofs

`ChainInvariant` says of every process what its cache, and the write it is in, may hold
(`Believes`): the anchor was committed, unless a rollback's catch is still to come, and its
shape is that of the write (`Chosen`, `Committed`); none of the process's own rows is newer
than the tail it holds (`OwnTail`), or under a later anchor (`OwnRows`); none of its own anchors
is later than the one it follows (`OwnAnchors`). Of other processes' rows it says nothing:
those a cache may have missed, which is why two writers can fork.

* `ChainTypesHold`: includes that ids are unique.
* `VerifierNamesOnlyMarkedRows`: a row of this release is hashed in the shape of its anchor
  (`RowFacts`), which is the shape the verifier recomputes. So is a row of an earlier release
  under an anchor that migration 29 renamed. Those under its other anchors are not, and do
  break: they are the exception `Unrenamed` of the property (finding 5).
* `ChainedRowsAreWalked`: no anchor starts after the last id given (`AnchorFacts`), so a new
  row lies behind the start of whichever anchor its process follows.
* `LostHashesAreDropped`, `OneWriterNeverForks`, `OpenedAnchorsAreFollowed`: from `Believes`.
* `RepairsHeal`: the action property `RepairHeals`, though the repair reads the highest row
  and the last anchor before its transaction.

### MigrationProofs

* `MigrationTypesHold`: types, and that the processes inside `run` are the holders of the
  flock.
* `SchemaIsItsLog`: `SchemaMatchesLog` is not inductive. `LogInvariant` adds that the
  holder of the flock is alone, that what it read is still what is applied, and that no
  version ran without its row; the next version is then the successor of `user_version`.
* `ClashesComeFromUpgrades`: until the first failure or upgrade, whoever serves has applied
  all it knows, so a process with something to apply that meets it is of a newer release.
* `LaterBootsAreStopped`: who writes the kill switch notes who had passed the check, and
  nobody joins them.

### What is only model-checked

The six liveness properties: `EveryJobSettles`, `EveryEventPasses`, `EveryItemStarts`,
`EveryCallReturns`, `EveryAdvisoryIsTaken` and `EveryBootEnds`. Fairness is stated with
ENABLED, which is outside the prover's reach.

## Findings

Four runs expect a violation (1 to 4). Two more disagreements are exceptions that the properties
of passing runs have to make (5 and 6). `PROJECT.json` quotes the lines.

1. The claim-cursor consumers are at most once, not exactly once (`stream_exactly_once`).
2. Two overlapping `senkani_embed` calls for different roots of one MCP server leave the
   files of one under the name of the other, taken for fresh (`inference_index`).
3. Marking an advisory as delivered changes columns its hash covers: `doctor
   --verify-chain` reports a break after the first delivery (`audit_surfaced`).
4. `allow_failed` does not lift the gate it is said to bypass (`apply_gate`).
5. On a database upgraded from a release before v29, rows hashed under a `migration-v5` or a
   `repair-*` anchor fail verification although nobody touched them: migration 29 renames
   `fresh-install` anchors only, and the verifier recomputes all others with the columns of v22
   (`Unrenamed` in `OnlyMarkedRowsBreak`, run `audit_chain`).
6. A row can be counted as delivered by both legs without any fault, when the bus consumer
   claims it between a hook call's read and its mark; the docs promise at most one
   `auto_validate.delivered` per row, whichever leg wins (`gap` in
   `CountedTwiceOnlyInTheGap`, run `validation_delivery`).

Met while modelling, without a run of their own:

* `replay` updates a row of any state, where its doc speaks of dead letters; a succeeded
  row is delivered again. `EffectsHappenOnce` is proved for replays of dead letters only.
* The UPDATE of `lease` does not repeat the wake-up condition of its SELECT: between
  processes, a row that was retried with a back-off in between is handed out at once.
  `BackOffsAreRespected` is proved for the workers of one process.
* `validationCompleted` starts items that were not deferred, and a debounce task that ended
  just before its cancellation starts the newer item of its key at once.
* While edits of other files go on, a deferred item can wait for ever: a completion starts any
  key (`pending.keys.first`). So can an old advisory while newer ones keep coming.
* `ensureModel` of `EmbedEngine` says that "actor isolation guarantees only one caller loads
  at a time", but it suspends while it loads, and the second caller loads too.
* A `maxConcurrent` of 0 in a configuration file is decoded without the clamp of the
  initializer, and then every item is deferred for ever: `ItemsAreNeverStranded` assumes
  limits of at least 1.
* A write between a rolled-back outbox insert and its `catch` chains to the lost hash
  (`window` in `AuditChain`), which the doc of `insertValidationResultWithOutbox` excludes.
* After a failed INSERT of the first anchor a process writes under anchor 0, which no
  verification walks, until it restarts.
* A repair from the command line does not reach the cache of a running app, and two
  processes can fork a chain without the verifier seeing it. `OwnAnchorIsFollowed` is about
  the anchors a process opened itself.
* The kill switch is checked before the flock: a boot that already waits still migrates,
  where the README says that later boots refuse. `KillSwitchStopsLaterBoots` excepts it.
* Two validations of one file store their results in either order, so the last advisory may be
  about older content; nothing promises otherwise, and no property is about it.
* A standalone `senkani-mcp` reports a failed browser validation before its row is stored:
  an edit may pass the gate meanwhile.

## Not modelled

* Pane refresh: the three tiles read locally, return at once and do not fail, all cache for
  a duration, and the back-off is never shorter than the natural interval. The hazards one
  expects of a scheduler (late, failed or overlapping fetches) cannot occur with
  the tiles the program has; a model of them would be of another program.
* The other gates of the hook router, the egress rules, filters, compound learning,
  autorun and workstreams decide or compute in sequence from their input: a model would
  restate their conditions.
* MCP transport, hook relay, endpoints, model downloads, vaults, packs, WebKit: I/O.
* The application's views, command line and reports: front ends.
* The C sources of the repository are generated tree-sitter parsers with vendored
  scanners, 143 files and over three million lines. They are tables, they keep no state
  between calls, and Senkani's own code, which is all Swift, calls them as a library;
  none of them is modelled.

`PROJECT.json` gives the reason per component.

## Plan

1. Abstract specifications beside `WorkLedger`, with refinements: of the event stream (an
   effect is wanted, then driven once or lost to a fault) and of the delivery of one advisory (waiting,
   shown, taken), so that their promises can be read without the tasks and jobs.
2. Lemmas that several proof modules state for their own variables (a function changed at one
   point, a sequence that is appended to or shortened) in one module.
3. Candidates for new modules: `PaneLockStateMachine` with `PaneDispatchStateStore`,
   end-of-schedule notices, the MCP session registry.
