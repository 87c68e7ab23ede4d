# Verification of poly_alpha_sniper

TLA+ models, TLC runs and TLAPS proofs for poly_alpha_sniper, a bot that trades five-minute crypto
up/down windows on a prediction market in shadow (paper) mode. Source paths are relative to the
repository root (`src/`); `PROJECT.json` maps every definition to the lines it models.

1. [Inventory](#1-inventory) 2. [Plan](#2-plan) 3. [The models](#3-the-models) 4. [The runs](#4-the-runs)
5. [The proofs](#5-the-proofs) 6. [What the models found](#6-what-the-models-found)
7. [What is not modelled](#7-what-is-not-modelled)

## 1. Inventory

The repository holds three generations of the bot. They share no runtime state.

* **`lite_frequency_v4/`** (33 600 lines), the current shadow runtime: an asyncio engine in one thread and
  six worker threads around one SQLite database in WAL mode. This is where the concurrency, the durable
  protocol and the money accounting are, and it is modelled first.
* **`lite/`** (5 350 lines), the previous shadow bot: one asyncio loop, synchronous SQLite.
* **legacy** (`core/`, `execution/`, `risk/`, `strategy/`, `portfolio/`, `connectors/`, ...; 17 000 lines),
  the first bot with order manager, watchdog, rate governor and risk gates.

### Components of lite_frequency_v4

| component | state | operations | talks to | hard parts | what makes it correct |
|---|---|---|---|---|---|
| write gate (`persistence.py`, `_CriticalFirstWriteGate`) | pending and active flags of three lanes | register/cancel/acquire/release per lane, reset | critical writer, telemetry sink, maintenance | five threads interleave; early resolution; writer death | exclusion of telemetry, exact pending count, no overtaking, no starvation |
| persistence writer (`V4PersistenceWriter`, `_BoundedPriorityScheduler`) | queue, journal rows, unconfirmed counts, in-flight registry, futures | submit, get, journal, execute, commit, ack, fail, recover, close | engine (futures), store, gate | submission races completion; ambiguous commits; retries; crash between journal and commit; failed finalization | one durable effect per idempotency key, ack implies commit, FIFO per key, visibility to the execution gate |
| trade store (`store.py`) | locks, entries, positions, exits, resolutions, cohort capital | reserve, enter, release, manage, close, resolve, mark unresolved, reconcile | writer dispatches every call | multi-row atomicity; idempotent replays; restart reconciliation | one entry per window, lock/entry/position agree, exposure within cohort cash, reconciliation never finds an error the code made |
| cluster arbitration (`cluster.py`) | arbitration row, event journal, cluster lock | begin, select, reserve, revert, enter, exhaust, cancel, release, replay | store connection | resume after crash; illegal transitions; lock and arbitration separately persisted | journal replays to the row; gap-free; one entered candidate per cluster |
| engine (`engine.py`) | per-window execution state, open positions, capacity latches, failure latch, loop lag, caches | evaluate, route, enter, manage, resolve, restore, heartbeat, maintenance scheduling, start/stop | every other component | state read before an await and used after it; acknowledgement timeout against late commit; restart | no second entry per window, latches clear, fail-closed on unknown outcomes |
| telemetry (`telemetry.py`) | bounded queues, counters, adaptive chunk size, loss accounting | offer, coalesce, flush, retry, shed, close | sink, gate, engine | overflow; requeue on skip; partial batch loss; close with backlog | every offered row is committed, queued, deduplicated or counted lost |
| maintenance (`maintenance.py`) | policy, WAL pressure, cursor, pass results | decide, checkpoint, retention step | gate, workers | emergency override; deferral; bounded steps | never runs with critical backlog except under WAL emergency; progress |
| workers (`workers.py`) | queue, single-flight keys, state | submit, run, cancel, timeout, close | engine | timeout against late completion; queue full; shutdown | one running job per worker; no result delivered twice |
| market data (`polymarket_ws.py`, `cex.py`, `books.py`) | subscriptions, epochs, books, buffers | connect, subscribe, apply snapshot/delta, reconnect, resync | engine | reconnect while old messages arrive; rotation during an await | a crossed or stale book is never reported fresh; every desired token is subscribed |
| event gate (`events.py`), execution router (`execution.py`), model health (`model_health.py`) | fingerprints and watermarks; maker/taker state; quarantine | admit; advance; resample | engine | eviction at capacity; expiry | no regressed event accepted; a failing model stays quarantined as configured |
| ownership (`runtime.py`) | lock file, nonce, process tree | acquire, verify, release | OS | stale lock, reused pid | one owner; a nonce is proven absent only when its process is |
| schema and migrations (`store.py`) | database objects, recorded versions, `user_version` | open: check, create, migrate, guard, index | store connection | a start broken off between two statements | opened at the current version or refused as it was |
| evidence and retention (`store.py`) | source events, cursors, counts, observations, books, candidate graphs | record, bundle, bounded retention step | telemetry lane, writer | any order, twice, half a bundle; deletion between the commands of a trade | evidence whole and in order; rows leave whole and only when free |
| integrity checks (`store.py`, `engine.py`) | scan cursor, image, manifest | chunked live scan, snapshot and full audit | one shared worker | timeouts while the worker goes on; relaunch; a statement that raises | a clean cycle missed nothing that was bad all along |
| runtime status (`status.py`, `engine.py`, `bot.py`) | heartbeat, published state, lifetime counters | compose, publish, export, take over | runtime I/O worker, next launch | failing publishes; a launch that takes over counters | no loss forgotten, no state better than the facts |
| export and export cache (`export.py`, `export_cache.py`) | cached sections, revision | refresh, publish | read worker | stale section served as fresh | age labels are honest |
| universe, discovery, resolver, risk, economics, edge models, features, metrics, ledger, readiness, diagnostics, replay | mostly pure | | engine | numeric edges | reference definitions |

### Components of the other lanes

`lite/` bot, store, broker, strategy, resolver, book; `core/` app, watchdog, rate-limit governor, startup
preflight, contracts; `execution/` order manager, broker, exit engine, panic; `risk/` gates; `strategy/`,
`portfolio/`, `deterministic_intelligence/`; `connectors/`, `data/`, `discovery/`, `microstructure/`;
`research/`, `backtest/`, `reporting/`, `analytics/`, `storage/`; the dashboards; `tools/`, `scripts/`.
`PROJECT.json` lists each with its status, and under `hazards` what in this code is hard to test, with the
properties that cover it or a note that none does yet.

## 2. Plan

The order in which the models were written: first the durable protocol, the money and the engine above it;
then the services around them; then the other lanes.

1. `WriteGate`, `WriteLanes`; `PersistenceWriter` implementing `DurableCommands`.
2. `TradeStore` implementing `CohortLedger`; `TradeEngine` implementing the trade store's specification.
3. `ClusterArbitration`, the telemetry sink (`TelemetryLane`, `TelemetryController`, `TelemetryWindow`),
   `ProcessLifecycle`.
4. `MarketStream`, `EventGate`, `CexIngest`, `MarketDiscovery`, `EventCounts`; `EntryFlow`.
5. `StoreWorker`, `MaintenancePlanner`, `MaintenancePass`, `ModelHealth`, `IntegrityAudit`.
6. `EvidenceStore`, `Retention`, `SchemaMigration`, `RuntimeStatus`, `ExportCache`.
7. `LiteLane` and `LegacyTrader`.

Every step of this plan is done. What could come next is listed at the end of sections 5 and 7: theorems
about the components that are only model-checked, and the components that have no model.

## 3. The models

```
WriteGate --- WriteLanes
    \
     PersistenceWriter  ==implements==>  DurableCommands

TradeEngine  --EXTENDS-->  TradeStore  ==implements==>  CohortLedger
TradeEngine  ==implements==>  TradeStore!StoreSpec

EvidenceStore --- Retention
```

The composition follows the code's layers. `WriteLanes` shows that the writer thread gets through the gate;
`PersistenceWriter` uses the same gate operators and assumes just that. `DurableCommands` is what the writer
promises whoever awaits a future; `TradeEngine` uses a writer of that kind (a command takes effect at most
once, an answer never misstates the effect, a timed-out command may still take effect) with commands of
one window in FIFO order, which `PersistenceWriter` shows of itself (in `WriterSound`). The tables the
commands change are those of `TradeStore`. `Retention` deletes from the tables of `EvidenceStore`. The other
modules meet the rest of the program only through values that the model leaves arbitrary, and are checked
side by side.

**Composed MC modules.** `MCServices`, `MCFeeds`, `MCWorkers`, `MCStoreRows` and `MCAncillary` hold several
components that do not share state. A behaviour of such a module is a behaviour of one component, its
`subject`; the others stay in their initial states. That keeps the number of states the sum, and not the
product, of the components'.

### WriteGate and WriteLanes (`persistence.py`, `_CriticalFirstWriteGate`)

`WriteGate` has one operator per method, over the fields under the condition's lock. `WriteLanes` adds the
threads: callers of `submit`, the writer thread `_run` (its death included), the telemetry thread inside
`V4TelemetryStoreSink.submit_telemetry_batch` and the maintenance worker inside `_background_write_gate`.
Each `with self._condition` block is one step; the cooperative check before each telemetry row is a step
of its own, so that a critical caller can register between the check and the row. `rowsBehind` is a history
variable: rows written since a caller registered.

### PersistenceWriter and DurableCommands (`persistence.py`, `V4PersistenceWriter`)

A command is one submission; resubmissions share its idempotency key. Journal rows (`persistence_commands`)
survive a crash, queue, counters, registry and futures do not. `submit` is four steps (register, put,
account, or refuse) because the writer thread may take the command in between; start-up is three (RUNNING is
published, what a crash left open is failed, the tables are reconciled and `submit` may proceed); `_process` is one step per
transaction and per block under `_metrics_lock`, with its locals in `local`. At the mutation's commit an
error may mean that it was applied. `fail_all`, a failing start and crashes can happen at any point the
code allows. `DurableCommands` states the contract without queue, journal or retries: the durable effect
of a key is set once by a command whose caller still waits; a result implies an effect with the same
content; a failure means that the command has none; dropped commands never started. The refinement maps
committed journal rows to effects and futures to outcomes.

### TradeStore and CohortLedger (`store.py`)

Tables are functions over the windows that have a row; every store operation is one IMMEDIATE transaction
and thus one step, and a refusal leaves the tables as they were. The engine's bundles (`EnterBundle`,
`ManageBundle`, `ResolveBundle`) make every call the code makes inside the transaction. `Startup` is
`reconcile_startup_state`: it checks everything, releases the reservations of runs proven absent and refuses
to start on an inconsistency. `ApiSpec` adds the operations that nothing in the engine sends. Money is
integral; the order of costs, buffers and equity is what the properties tell apart. `CohortLedger` is the
promise of `create_entry`'s docstring: commitments, exit fee buffers of all open positions included, stay
within equity.

### TradeEngine and EntryFlow (`engine.py`, `execution.py`)

`TradeEngine` is two asyncio tasks on top of the tables: evaluation (`_evaluate`, `_create_shadow_entry`,
`_manage_open_position`) and resolution (`_resolution_loop`, `_resolve_position`). A step ends where the
code awaits: after submitting a command, and when its acknowledgement is delivered. `queue` holds commands
the writer has not committed, `acks` outcomes on their way to the event loop. A timeout clears the `from`
field of the command wherever it is: it may commit later, but nobody hears of it, and `failed`
(`_critical_failure_reason`) latches. The rows of a resolution query stay in `resolve.due` across awaits,
stale as they are in the code. Memory (`entered`, `cache`, `openCount`, `nextSeq`, `tried`, `blocks`) is lost
in a crash and rebuilt by `Restore` at the next start, before the tasks run. Which entry, exit, action or
verdict the evidence proposes is arbitrary.

`EntryFlow` looks at the same evaluation from the router: `ExecutionRouter.on_candidate` moves a window from
waiting to observing, crossing or skipping before the engine has persisted anything, and each command
around it (evidence, maker row, update, finish, entry) may be answered, refused, or given up and committed
late. The router's state and the engine's memory die with the session, the rows do not.

### Services (`MCServices`)

* `TelemetryLane` (`telemetry.py`, `V4TelemetryWriter`): a step is one section under the writer's lock. A
  row is a logical count with its suppression entries and retries; events, states and buckets differ in how
  they coalesce. `TakeBatch` and the step that settles it stand around the sink's call.
* `TelemetryController`: the calls of `decide`. Each measures the safe size; the first of an interval is a
  control tick and moves chunk size, overload and recovery. Between ticks the chunk may be above what is safe
  by then, certified or not (`ChunkFollows` says what bounds it). Measurements are arbitrary.
* `TelemetryWindow`: the ring of one-second buckets that forgets by overwriting, and the cached views.
* `ClusterArbitration` (`cluster.py`): one action per method, refusals included, over rows, journal, lock
  and two launches. Nothing in the runtime calls it yet, so any call may come at any time.
* `ProcessLifecycle` (`runtime.py`, `bot.py`): one step per file operation of start, absence proof,
  publication, stop and exit; pids may be taken by other programs.

### Feeds (`MCFeeds`)

* `MarketStream` (`polymarket_ws.py`): connections with epochs, the engine's rotations, hydration over REST,
  buffered deltas, recovery of single tokens and the heartbeat. A step ends at an await; a book is the
  provider timestamp it holds.
* `EventGate` (`events.py`): admission of one event: duplicate, stale or accepted, with both bounded memories
  and their evictions.
* `CexIngest` (`cex.py`, `engine.py`): subscriptions per channel, the acknowledgements of their beginning and
  end, readiness, REST prices, and the bounded queue into the feature history. `set_assets` is suspended
  while it sends and while it waits for prices, and the stream may reconnect meanwhile.
* `MarketDiscovery` (`discovery.py`, `engine.py`): a pass from the listing to the tables and to memory.
* `EventCounts` (`engine.py`, `store.py`): per-second counts, coarsened at capacity, flushed in commands that
  the lane may refuse, recognise as known, or lose, and rolled up into minutes.

### Workers and loops (`MCWorkers`, `MCAncillary`)

* `StoreWorker` (`workers.py`): submit, deadline, cancellation, run, failure, stop and drain. A stop may come
  while the store is being opened (the thread then sets RUNNING over it: `overtaken`), gives up on a full
  queue, and may be called again.
* `MaintenancePlanner` and `MaintenancePass` (`maintenance.py`): the decision with its emergency override
  and the engine's folding of a result; and one pass with its checkpoint, journal row, gate and steps.
* `ModelHealth` (`model_health.py`): results, breach rule, quarantine and cooldown.
* `LiteLane` (`lite/`): the loop over management, resolution and scans with the lock rows, the trades and
  their retries, crashes, and the history repair script.
* `IntegrityAudit` (`store.py`, `engine.py`): the resumable live scan and the audit of an image, on a worker
  they share, across timeouts, schema changes and relaunches. `stood` and `lastCycle` are history variables.
* `LegacyTrader` (`core/app.py`, `execution/`, `portfolio/`, `risk/`): the trade loop, the sweep of a panic or
  of `/close_all`, time-in-force timers, hygiene, commands and restarts. `turn` names the task that holds the
  event loop.

### What is on disk (`MCStoreRows`)

* `EvidenceStore` and `Retention` (`store.py`): a bundle is run part by part in one transaction that may roll
  back between parts; telemetry records single rows in any order; retention rotates over bounded steps. Each
  table is a function of its key; the order of insertion that `record_cex_observation` reads is kept with the
  row (`after`), and a bundle's observations are a sequence.
* `SchemaMigration` (`store.py`): a database is its objects, recorded versions and `user_version`; `work` is
  the connection's view inside a transaction, `disk` what survives. Assumed of the databases
  (`SchemaAssumption`): a table that is not there has no columns and no rows.
* `RuntimeStatus` (`status.py`, `engine.py`, `bot.py`): the state file, the export file, and what a launch
  takes over from them. `stop` gives up on a worker that does not end, so that a publish can be written after
  the final state; the process waits for its threads, and `verify_process_ownership` lets no launch begin
  before.
* `ExportCache` (`export_cache.py`, `export.py`): a build probes the version once and resolves sections one by
  one while the writer goes on committing.

## 4. The runs

All sizes are small enough for exhaustive search in minutes. Deadlock checking is off in every run,
because each model may really stop: every command submitted and answered, every run of the program gone,
every history at its bound.

| run | question | bounds and why they suffice |
|---|---|---|
| `services` | Do the write lanes exclude each other, count right, yield and starve nobody (`GateSound`, `TelemetryYields`, `NoOvertaking`, `CriticalNotStarved`)? Is every telemetry row accounted for, and the controller's verdict earned (`TelemetrySound`)? Does a stop end (`StopProgresses`)? Do arbitration, journal and lock agree (`ArbitrationSound`, `OccupancyStands`)? Is there one owner (`OwnershipSound`)? | three callers: one held by the writer, one queued, one registering; batches of two rows: one before and one after a critical arrival. Lane: capacity 3, high water 2, one retry, three rows (one per kind). Controller: two chunks, settle time 5, windows of 2. Window: ring of 3, five seconds (it wraps), one fault. Cluster: two candidates, two launches, 7 journal events. Two processes over two pids (one is reused) |
| `feeds` | Is hydration honest and does it come (`StreamSound`, `BookForward`, `HydratedOrExhausted`)? Does the gate admit each event once (`AdmissionSound`), is the history of one connection (`HistorySound`), do memory and tables agree on a window's market (`MarketsSound`), is every event counted once (`CountsSound`)? | two tokens of two windows (one rotation), timestamps to 2, one buffered delta, two strikes, two connections; three payloads and two streams with memories of 2 and 1 (both evict); queue of 2 and three ticks; three markets, two of one window, one restart; three streams of two kinds, one bucket, commands of one row, three events |
| `workers` | Does a worker count and answer its jobs (`WorkerSound`, `WorkerAnswers`)? Do the loops keep their promises (`LoopsSound`), is pressure relieved (`ReliefComes`) and a trade settled (`Settles`)? | three jobs for a queue of 2 (one runs, two fill it, and the stop's deadline passes); one setback of the clock, threshold 2; results below, at and above zero, two trades; four eligible rows for a budget of 3 in chunks of 2; the Lite lane with one asset, two windows, one crash |
| `writer` | Does the writer keep its promise, do mutations of a window become durable in order, is every accepted command answered (`WriterSound`, `KeepsPromise`, `Answered`)? | four scenarios: a mutation submitted twice; two of one window, the later more urgent; a key reused with other content; a full queue. Two attempts, capacity 2, two database faults, one crash |
| `store_ledger` | Do the rows of a trade agree, does every restart succeed, does the ledger hold (`LifecyclesAgree`, `RestartAccepted`, `ImplementsLedger`)? Do router, engine and rows tell one story (`EntrySound`)? | three windows of two assets with two positions at most (each limit can refuse), equity 11 that two losing exits bring below the next entry's commitment; one window, two sessions, three observations and one late command |
| `store_api` | Do exits rest on evidence, does history stand, are live reservations kept with every operation of the store (`EvidencedExit`, `HistoryStands`, `LiveReservationsKept`)? Is evidence whole (`EvidenceSound`), a database opened or refused (`SchemaSound`), a file truthful (`FilesSound`)? | one window, two runs alive or gone, two decisions and attempts; two events, two observations, two books of one key, two candidates of which one is too large for a step (all receipt times are equal here, so that the verdicts on future, regressed and invalid times occur in the proofs only; the guard of a graph asks for the market link of its window where the schema asks for window and identity, which are committed together with it); 16 databases, one per check, three opens; one lost row, two launches, one failing publish; four sections, five ticks, one commit and one fault |
| `engine` | Does the engine send one entry, number its commands right, lift its latches, count its positions (`EngineSound`), use the store as allowed (`UsesStore`), and is a closed window's position resolved (`Resolved`)? | two windows of one asset with one position per asset (the second is refused), two runs (a crash and a restart), one timeout or failure; the second window is resolved at most once |
| `ancillary` | Is a clean scan clean and a verdict about its own copy (`AuditSound`)? Are the Lite lane's caps and locks kept (`LaneSound`)? Does the legacy program know its positions and orders (`LegacySound`)? | one unit of two rows, one of them bad; two assets with caps of one and no crash (`workers` has one; the store's transaction repeats the checks made before the await); one token, three orders, one command, two launches |

`writer_registry`, `engine_managed`, `stream_sent` and `scan_fault` are expected violations: see section 6.

**Bounds.** `MaxFaults` and `MaxCrashes` bound database errors, timeouts and crashes of a behaviour;
`MaxDecisions` and `MaxAttempts` bound the histories of a position; `Sessions`, `MaxSessions`, `MaxLaunches`,
`MaxRuns`, `MaxProcs`, `MaxRestarts` and `MaxOpens` the runs of the program; `MaxTs`, `MaxMono`, `MaxSecond`,
`MaxTime`, `MaxClock` and `MaxHealthTime` the clocks; `MaxLog`, `MaxTicks`, `MaxEvents`, `MaxRows`, `MaxTrades`,
`MaxOrders` and `MaxCalls` the inputs. All are guards of the actions they bound. `rowsBehind` stops counting
at 2, one above the bound the property states. A counter that only observes (rates, latencies) is left out.

**Mutants.** Every property of a passing run has a mutant, a definition marked `Seeded fault` in its module:
a plausible bug in the mapped code that makes the property fail under the run's own configuration.

**Fairness.** It is stated where the code's scheduling justifies it and nowhere else.

* `WriteLanes`: the writer thread runs and an admitted telemetry batch runs to its end (its budget is bounded
  and its `finally` releases the gate); nothing is assumed of maintenance or callers.
* `PersistenceWriter`: weak fairness of the writer thread; no caller need submit.
* `TradeEngine`: the event loop delivers acknowledgements, the writer takes the next command of each window
  (weak fairness per window, because a task has one command in the queue, so no window can hold up another
  for ever), the resolution task queries and ends its rows (weak) and comes to each due row sooner or later
  (strong: its guard is disabled whenever the task is busy, and back-off is at most five minutes). Evaluation
  is assumed nothing of: it may stop. That a source answers is assumed by the last attempt only: it is a
  verdict.
* `MarketStream`: suspended rotations, a connection's first send and resubscription go on (weak), recovery
  comes to each token (strong, because the one recovery slot may be taken whenever it is looked at).
* `StoreWorker`: the thread and a call of `stop` up to its deadline (weak). That a stop gets into the queue
  is not assumed.
  `MaintenancePlanner`: the loop's passes and clock (weak), a checkpoint that is due and its result (strong:
  a pass may be cut off in between). `LiteLane`: loop, calendar and back-off (weak), an official outcome for
  a trade that stays due (strong: a batch takes others first).
* `ProcessLifecycle`, `ClusterArbitration` and everything else are assumed nothing of.

**Liveness.** `CriticalNotStarved`, `Answered`, `Resolved`, `HydratedOrExhausted`, `WorkerAnswers`,
`ReliefComes`, `Settles`. That a stop of the telemetry lane ends is stated without fairness (`StopProgresses`):
each answer lowers a number that bounds the answers left. `Resolved` excuses runs in which an outcome became unknown
(`failed`) or the process died: the code then fails closed and waits for a restart.

## 5. The proofs

| module | theorems | about |
|---|---|---|
| `Services_proofs` | `TypeCorrect`, `GateSoundness`, `RowBound`, `Overtaking` | the write gate, for every finite set of callers and every batch size |
| | `Certification` | the telemetry controller, for any thresholds and windows |
| | `LaneAccounting`, `StopProgress`, `WindowSoundness`, `TelemetrySoundness` | the telemetry lane, its stop and its window, and the three together, for any bounds |
| | `Arbitration`, `Occupancy` | cluster arbitration, for any finite set of candidates and any calls |
| | `Ownership`, `OneOwner` | the runtime's files, for any launches and pids |
| `PersistenceWriter_proofs` | `Sound`, `Registered`, `Kept` | the writer, and that it implements `DurableCommands`, for any commands, capacity and attempts |
| `CohortLedger` | `AlwaysCovered`, `AlwaysSolvent` | the abstract ledger, for any amounts |
| `TradeStore_proofs` | `Lifecycles`, `History`, `Conservative`, `Evidenced`, `Restartable` | the tables of a trade, for any windows, runs, amounts and bounds |
| | `Implements`, `MoneyCovered` | the tables implement the ledger and inherit its cover |
| `TradeEngine_proofs` | `EngineImplementsStore`, `EngineKeepsLifecycles`, `EngineKeepsLedger`, `MemoryKeepsStep` | the engine uses the store as specified, and its memory keeps in step with the tables |
| `Feeds_proofs` | `StreamSoundness`, `BookNeverBack`, `AdmissionSoundness`, `CexSoundness`, `DiscoverySoundness`, `EntrySoundness` | streams, gate, CEX history, discovery, router |
| `Loops_proofs` | `WorkerSoundness`, `LoopsSoundness`, `PlannerSoundness`, `PassSoundness`, `HealthSoundness`, `LaneSoundness`, `ClosedTradesStand`, `LegacySoundness` | workers, maintenance, model health, the Lite lane, the legacy program |
| `StoreRows_proofs` | `AuditSoundness`, `Migrations`, `SchemaSoundness`, `StatusTruth`, `Freshness`, `FilesSoundness`, `EvidenceSoundness`, `CountsSoundness` | integrity checks, schema, runtime status, export, evidence, retention and event counts |

The assumptions are the named `ASSUME`s of the modules (types and positivity of constants, finite sets where
something is counted); TLC evaluates each of them in a run. Where a theorem has a hypothesis beyond them it is
in its statement: `~RepairOnline` for the Lite lane (with the repair script beside the bot the statement is
false, section 6) and `~ScanFaults` for the audit (run `scan_fault`).

**Write gate.** `PendingExact` alone is not inductive: the counter is right only because each flag of the gate
matches the program counter of the thread that set it, and telemetry's admission looked at the counter.
`GateInv` adds that agreement, the waiting count, and for `RowBound` that while a row's check has passed
(`telemetryPc = "row"`) no registered caller has waited for a row yet.

**Persistence writer.** `WInv` says of every command where it is (caller, scheduler, thread, journal or gone) and
what its journal row then shows; the hard part is the attempt whose commit was ambiguous, for which journal
and registry may differ only in the one direction that fails closed. Until recovery is through, open rows have
no owner; what `Sound` says of them starts with `ready`. `Kept` maps each step to a step of
`DurableCommands` or a stutter.

**Trade store.** `IInv` is tables plus `LifecyclesAgree`, whatever money is; `Outcomes` adds what each exit rests
on. The ledger is a sum over tables: `SumFunctionOnSet` folds in an order nobody names, so the first part of
`TradeStore_proofs` proves that an element can be added or taken out, by the least counterexample among the
subsets of a finite set (the library's induction theorems take operator parameters). `Implements` then follows
operation by operation, and `MoneyCovered` from the ledger's own theorem. `Restartable`: what reconciliation
checks is implied by the invariant, counts included.

**Engine.** The store's specification guards what a run may send: a resolution only of a closed window,
numbers at most one past the table. That these hold when the writer commits, long after the task sent the
command, needs `EInv == IInv /\ TaskInv /\ QueueInv /\ AckInv /\ WaitInv`. `TaskInv`: the memory never numbers
more than the tables hold, and the rows of a query are of closed windows. `QueueInv`: a queued command may
be sent, and stays so because histories only grow. `AckInv`: an acknowledged number is in the table.
`WaitInv`: a command somebody waits for is the only one of its task in queue or acks. Given these each engine
action maps to one store action or leaves the tables alone. `MInv` adds what memory knows: one entry command
per window, latches with a position whose close lifts them, a count no higher than what is open or on its way.

**Cluster, ownership, controller.** `ClusterInv` follows the row and its journal entry by entry. `ProcessInv`
orders each launch's file operations: what a launch has verified stays true until it gives the guard up,
because only the holder writes. The controller's invariant carries how long each window has been healthy,
and what its last tick found safe: the safe size itself moves with every call.

**Feeds.** The stream's invariant says for every suspended call what it still holds of the state it read before
the await (`Held`), and that hydration, books and buffers speak of wanted tokens of this epoch. The gate's
invariant counts, for each remembered key, how many others came since; eviction at capacity is why the
property needs that count. For discovery: what memory holds is committed, with the one window whose bundle is
in flight excepted. For the router (`FlowInv`): router state, engine memory and rows for each stage of the
commands under way, including those nobody waits for any more.

**Loops.** Each loop has its own invariant (`PlannerInv`, `PassInv`, `HealthInv`, `WorkerInv`, `LaneInv`);
`LoopsSoundness` puts them together under the composed specification. For the worker, `StopFollows` says that a
stop closes the admission of jobs unless it came while the store was being opened, and `PendingFollow` that
a pending job is in the queue as long as the thread has one to empty. `LaneInv` is the agreement of lock and
trade in each state of the scan that is under way, which may be suspended between its check and its insert.

**Audit.** `ScanKnows`: the rows that were bad all along and that the cursor has left behind are known to the cycle,
or to the pass while one runs; a pass that has read nothing knows what the cycle does. `TaskWaits`: the audit
task waits for exactly the job it says, and a ready image is never an earlier launch's.

**Schema.** For each stage of an open: what the connection's view has that the file has not, that statements
before the k-th have been made, and that a database that was genuine at some version is genuine at a later one
when the transaction commits.

**Telemetry lane and window.** `LaneInv` bounds what entered the lane by what was submitted (a bucket row
then has room for one more merge), balances it against what left and what is held, and says for each suppression
entry which row carries it: that of a state only by the token of the row that wrote it, because a later row may
carry the same value without owning the entry. Rows held are sums over sequences: the first part of the section
proves, again by a least counterexample, how they change under concatenation, a merge and the split of a batch
into kept and lost rows. `StopProgress` weighs each row with its retries left; a deferral
to a checkpoint uses up nothing and is not among the answers it speaks of. `WindowInv`: each ring slot holds
a second of its own with that second's count, a second that counted a row has given way to newer ones only, and
the opening snapshots are complete for the windows of this second and the one before it.

**Runtime status and export.** `StatusInv`: the counter of losses rises along the chain of what was counted,
what waits to be written and what each file shows, which of the two files is older notwithstanding, and a
degradation is shown exactly while it is owed. `ExportInv`: of every cached section and every section a build
has resolved, that it was read at a moment whose rows it holds, under a version no later than that moment;
counts only grow, so what a section lacks its version betrays.

**Evidence and retention.** `RowsHold` is what holds of the tables at every point of a bundle; `Stands`, that
tables have every row of others; `Evaluated` and `Discovered`, how far a bundle is before each of its parts.
`BundleHolds` says this of the tables a bundle sees, and that what is committed stands in them, so that a commit
only adds and a rollback needs nothing. The cursor is no earlier than any row that moved it in sequence, and at
the last one in time (`CursorAt`); the counts are sums over a table that grows by one row, proved like the
ledger's. `TradesHold` adds the commands retention looks at: an entry is submitted, or an observation opened,
only for a graph that is there, and retention frees no graph with either.

**Event counts.** `CountsInv`: the copies of a key, over buffer, lane, table, losses and repetitions, sum to the
events that came (`Balanced`, over all keys there may be, so that a step changes summands and never the sets
summed over); the rows of the buffer have different keys and the index gives each the keys before it; and `Few`,
from which the bound follows: at most as many buckets of a type as the capacity, since one is added only below
it, and of reserved ones one for each source and classification, since one is added only when none is found.
A flush cuts the buffer into commands at multiples of their size, and each row is in exactly one (`OffsetOfRow`).
A roll-up moves counts between keys of one meaning, along the map from a second to its minute (`SumFibres`).
It rests on no asset being called as what is aggregated.

**Legacy program.** `LegacyInv` bounds the shares by what was ever bought and relates each exit under way to its
last order, its target to the position, and what it has filled to what the client no longer holds. The
portfolio's equality is kept only until a sweep sells: from there on it claims at least what the client has.
Orders of an earlier launch are exempt from the agreement with their rows, as nobody owns them.

**Only model-checked.** Liveness (`CriticalNotStarved`, `Answered`, `Resolved`,
`HydratedOrExhausted`, `WorkerAnswers`, `ReliefComes`, `Settles`): fairness and ENABLED are beyond the prover.


## 6. What the models found

Each of these has a run that reaches it; `PROJECT.json` quotes the claim it contradicts.

* `writer_registry`: a command that the writer thread resolves before `submit` reaches its accounting
  block stays in `_inflight_commands` for ever, and its growing age blocks executions until a restart.
* `engine_managed`: the row cached after an entry has no `window_id`, so positions opened by this process are
  not managed until a restart.
* `stream_sent`: a rotation while the first frame of a connection is being sent leaves a wanted token
  recorded as subscribed that no frame named.
* `scan_fault`: a statement that raises in mid pass of the live scan loses the problems that pass had found,
  and the cycle ends clean.

Seen while modelling, without a run of their own (many have a definition in the module named, which a run
can be pointed at):

* Writer: a refused command decrements `unconfirmed_trade_critical_count` although its own admission did not
  increment it, and takes the count retained for another command's unknown outcome (`UnknownStaysCounted`, `persistence.py:1220`
  against `:1067`).
* Engine: a refusal for insufficient capital latches entries of all assets although no position is open
  whose close could lift the latch (`EveryLatchLifts`, `engine.py:3587` against `:788`); a book exit and a resolution that both
  acknowledge one close lower `_open_positions_count` twice (the model keeps the clamp at zero); a resolution
  attempt that times out and commits late leaves the attempt number behind the table until a restart; a
  management command queued behind the resolution that closes its position is refused and latches the failure
  reason although nothing is unknown.
* Store: `mark_unresolved_final` does not look at the position's status, and `reserve_window` makes no
  capital check (nothing sends either).
* Router: an observation still active when its window falls under the minimum time is never finished
  (`engine.py:2760`); its row stays open until a later start abandons it.
* Telemetry: the mismatch of `reconcile` is not always zero (`Reconciles`: `telemetry.py:2509` to `:2535` against
  `:2733`; the export shows it, `export.py:790`); a failure of the sink can cost rows that were not attempted,
  although `telemetry.py:28` says it cannot (`OnlyAttemptedLost`). In the recovery view, whole seconds cover
  `window_s - 1` seconds although `elapsed_s` is `window_s`.
* Workers: a stop that comes while the store is being opened is overwritten with RUNNING, so jobs are admitted
  after it, and one admitted after the thread has emptied its queue is never answered (`workers.py:511`,
  `:533`; `NoneLeftBehind` and `StopRejects` say that there is no other way). A stop that finds the queue full
  until its deadline raises, and nothing stops the worker then.
* Rotation: with two callers, tokens of an earlier window may come back after a rollover (`RolloverHolds`).
* Tick queue: a history may span a tick that an overflow dropped (`OverflowFailsClosed`, `engine.py:2034`).
* Discovery: a timed-out or failed `ensure_asset_window` makes every later pass for that window in the session
  conflict, because the key is reused with another `created_ts_ms` (`engine.py:2331`, `persistence.py:944`); and
  the same call writes DISCOVERING over the state of a window whose market was persisted earlier.
* Model health: a quarantine is released when its cooldown elapses although the last reading still reports a
  breach (`ReleasedWhenWell`, `model_health.py:28`); `_last_resample_monotonic` is never advanced, so the resampling interval has no
  effect.
* Maintenance: a checkpoint whose PRAGMA raises is journaled twice (`JournaledOnce`); a pass that timed out uses up no
  escalation slot.
* Event counts: the content of a flush is its dedupe key, so an identical later flush is taken for a
  repetition and its events are merged away (`CountsKept`).
* Evidence: the graph of an evaluation may be recorded with books that a later row of the same key replaced
  (`BooksAsSeen`, `store.py:4141` against `:206`); a cursor's provider timestamp is overwritten by NULL; an observation
  validated at receipt may be reclassified by the order of writes (`ValidatedStaysValid`, `engine.py:1813`). Retention: the rotation does not advance on a
  timeout (`store.py:5000`), and the candidates of a window with a FAILED command are kept for ever.
* Schema: a first start broken off before its version row leaves a database that later starts refuse
  (`FreshStays`).
* Status: a publish that outlives its stop overwrites the final state with older counters (`engine.py:5535` to
  `:5561`, `bot.py:162`), so losses counted since the last heartbeat are forgotten if neither the publishes
  of the stop itself nor its export get through; lifetime counters other than critical losses fall back to the baseline in the last-resort final
  state of `bot.py`.
* Export: a write between probe and read mixes contents of two versions (`export_cache.py:540`), and an unknown
  version is reused within the refresh interval (`:425`).
* Ownership: with three launches, an unfinished observation of a launch that is gone may stay unfinished
  (`NothingLatched`, `engine.py:3932`, `runtime.py:264`).
* Audit: the manifest's cadence stamp may be written without a verdict (`CadenceByVerdict`, `engine.py:4527`,
  `:4616`).
* Lite: a retry under way reopens a trade that the repair script settled (`lite_store.py:986`); the positions of
  a window are not filtered by asset although the option is `max_one_per_asset_window` (`lite_store.py:907`).
* Legacy: a write-off is taken from the book while the client still holds the shares (`WriteOffIsHeld`, `app.py:1531`); the stuck
  timer is not cleared (`app.py:84`); `/clear_panic` says that entries stay paused (`app.py:1617`); a second mode
  overwrites the process lock (`process_lock.py:3`); the watchdog may kill a fresh child over an old heartbeat.

## 7. What is not modelled

Within the modelled components: diagnostics, rates, latencies, payload compaction; the evidence gates of
`create_entry`; sampling intervals, back-off times and the other reasons of `_execution_blocked_reason`;
the orderly stop of the engine; the metadata tables and byte limits of retention (a step that times out is a
stutter); the header change to WAL and concurrent openers of a schema; HTTP and WebSocket clients below the
frame. SQLite is a store of atomic transactions whose commit may fail or lose its acknowledgement. The wall
clock of `ExportCache` does not run backwards, and at most one build runs per moment.

Components without a model, with the reason in `PROJECT.json`: positions, pricing, features and evidence
(formulas over a snapshot, without state); the order in which the engine starts and stops its loops (what the
loops call is modelled with the component called); dashboards (read-only); the legacy connectors, data and
discovery, research, backtest, reporting, tools and scripts (input and output, offline).
