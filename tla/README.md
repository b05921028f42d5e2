# Signalattice in TLA+

Signalattice (`src/`, a Python package `quant_platform` with a console and scripts) is a
local research platform: it ingests market data, builds features, trains and evaluates
models, serves what it recorded, and keeps what it did in durable local stores.  The
numerical part is sequential.  What is hard to get right lies around it: several processes
(workers, operators, retention controllers, exporters, a service, release jobs) share a
SQLite registry, a content-addressed artifact store, a DuckDB catalog and plain files, and
each may die between any two steps; and every number that is reported rests on the promise
that it was computed from the past alone.  Both are modelled here.

## 1. The system and its parts

| part | state it keeps | operations | what is hard |
| --- | --- | --- | --- |
| job registry `tracking/registry.py` | `sl_registry_jobs` (mutable row with lease), `_events` (append-only), `_runs`, `_artifacts` | submit, claim, heartbeat, request_cancel, acknowledge_cancel, complete, fail, recover_expired, register_artifact, list | dead, slow and duplicated workers; leases and a wall clock; bounded recovery inside other operations; bounded queue and logs |
| retention `tracking/retention.py` | tombstones and signed plans in the registry | plan, execute, resume, list_recovery_plans | two phases over two stores, crashes between them, workers linking the same artifacts, policies and clocks that change |
| artifact store `tracking/cas.py` | objects, staging names, locks, an identity marker | initialize, publish, open, inspect, verify_absent, unlink_verified, inventory | hard-link publication, crash between link and unlink, generations, remounts |
| migrations `tracking/migrations.py` | schema, ledger, key verifier | initialize, probe, open | two releases at once, WAL sidecars, triggers and CHECKs all writers rely on |
| read ports, experiment facade | none; JSON, SQLite or MLflow records | pages, bundles, readiness, one local run | stale cursors, remounts, a failing body and a failing record |
| shadow campaigns `shadow/` | campaign row, transition log, sealed batches and forecasts, outcome revisions | create, transition, seal_batch, append_outcome, reports | checks made on one connection and written on another; revisions in any order |
| governance `governance/` | hash-chained events, one head per lane | append_event, apply_assignment, freeze, rebuild_head, read ports, statistical gates | compare-and-swap against an approval, idempotency keys, torn reads, corrected outcomes |
| feature backfill `features/backfill.py` | job and partition rows, checkpoint files | run (recover, claim, compute, assemble, publish), status | thread pool, kills, retries, partial failure |
| feature stores `features/store.py`, `time_frequency_store.py` | immutable objects, catalog | materialize, write, read | rename and catalog row are separate |
| features, models, backtest | none | windows, folds, forecasts, positions | which dates a value may depend on |
| data `data/` | download cache, processed panel, exported bundles | fetch, ingest, export, view | lock files, retries and budgets, two files replaced one after the other |
| service `service/` | admission counters and buckets, telemetry queues | one HTTP exchange, drain, export | cancellation, saturation, shutdown order |
| release, scripts, workflows | staged files, manifests, tags, evidence documents | build, verify, gate, publish, measure | names that move between two commands; readers that disagree |
| reporting, web | none | rendering | - |

How they interact.  Workers call the registry; a terminal call (complete, fail) first
verifies its artifacts in the artifact store and then opens its transaction.  The
retention controller reads registry and store, stages tombstones in the registry (claims
pause while one is pending), unlinks in the store, and finalizes in the registry.  The
shadow and governance stores live in the same SQLite file as the registry and share only
its migrations.  The backfill orchestrator owns its catalog and calls the feature store
once, at the end.  The service reads registry and governance through read ports and
changes nothing.  The parts of the research pipeline, and those of a delivery, meet in
files that the later part checks.

What makes each part correct, in one line each: the registry never lets two attempts of a
job be alive or an outcome change, and row, log and runs tell one story; retention never
removes linked evidence and finishes what it announced; the artifact store's objects are
whole or absent, and a handle never leaves its store; nobody is told ready over half a
schema; a campaign has one opinion per instant; the head of a lane is what its events say;
a backfill publishes exactly the recorded checkpoints, and can be resumed; no feature, fit
or position reads what it forecasts; every admitted exchange is released once and every
record counted once; what is published binds the bytes that were verified.

The complete list of hazards, each at its line, and of components is in `PROJECT.json`.

## 2. Modules

    JobLifecycle  <-- refined by --  JobRegistry
    RetentionControl   EXTENDS Retention, INSTANCEs RetentionAuthority
    Stores             EXTENDS CasStore, INSTANCEs CasIdentity, ShadowCampaign, GovernanceLane,
                       RegistryMigration, EvidenceReads, ExperimentRecords, LaneReads
    Research           EXTENDS FeatureBackfill, INSTANCEs MarketDownload, MarketPanel,
                       FeatureWindows, FeatureObjects, WalkForward, SignalBundle, GovernanceEvidence
    Service            EXTENDS TelemetryExport, INSTANCEs ServiceExchange
    Delivery           INSTANCEs ReleaseBundle, ArchiveViews, ContainerEvidence,
                       IsolatedMeasurement, EvidencePublication

    JobRegistry       <-- JobRegistryProofs                               (<-- is EXTENDS)
    RetentionControl  <-- RetentionProofs
    Stores            <-- StoresProofs   <-- LaneProofs <-- CasProofs
    Research          <-- ResearchProofs <-- EvaluationProofs
    Service           <-- MCService      <-- ServiceProofs

The composing modules are of two kinds.  `Service` joins steps of two parts, as the
lifespan of the application does: an exchange ends and leaves its records in one step, and
admission closes in the step in which `stop` begins.  In `Stores`, `Research`, `Delivery`
and `RetentionControl` the parts share no step: a variable (`part`, `subject`, `delivery`,
`side`) says which of them a behaviour is about, the others rest, and a property of the
composition is the conjunction of what its parts promise in one respect, each named in the
comment and stated in the part's own module.  The MC modules of the passing runs give values
to constants (`MCService` also says which part a behaviour is about); the runs that expect a
violation check the component's own module.
Definitions whose comment starts with "Mutant" are not used by any specification: each is a
plausible bug, kept beside the definition it would replace, that a checked property rejects.

### Registry and retention

**JobRegistry.**  The variables are the tables: `jobs` (one record per row), `events`
(one sequence per job), `runs`; `clock` is the injected time authority; `retentionPending`
says whether some tombstone is pending.  Every public operation of `LocalRunRegistry` runs
in one `BEGIN IMMEDIATE` transaction, so it is one action, its recovery of expired leases
included; an operation that raises rolls everything back and is a stutter.  A lease that
was ever issued may be presented by anybody at any time (`IssuedLeases`), which covers
dead, slow, restarted and duplicated workers.  A job is its submission number; the digests
of requests and results are left out.  The readiness replay `_verify_job_lifecycle` is not
an action but the invariant `VerifierAccepts` (`LifecycleReplays`, `RowMatchesLog`,
`RunsMatchClosures`): the service refuses to be ready over a registry that violates it.

**JobLifecycle** is the abstract specification of one job: bounded attempts, one at a
time, none after a cancellation, one final outcome.  `KeepsPromise` says that each job of
the registry implements it under the mapping `Promise(j)`.

**Retention.**  One step per database transaction, per unlink, and per inspection pass
(which changes nothing).  `ctl[c].pc` is the place of controller `c` in `execute` or
`resume`; `call` is a worker's terminal call between its preflight and its transaction;
an artifact's bytes are a generation number, since `unlink_verified` compares the exact
inode it was planned for.  Publication is serialized against maintenance, as
`unlink_verified` requires of its callers.  `Retention` contains its own small picture of
the registry (one running attempt, linked digests); `JobRegistry` contains its own small
picture of retention (`StageRetention`, `FinishRetention`).  Both state that pending intent
excludes running work, each from its side of the gate.

**RetentionAuthority.**  What makes a plan valid, with one controller at a time: policy
(enabled, grace, count, bytes), clock, store and the age of each candidate go into the
plan, and are compared again when it is confirmed, loaded after a restart (`Loads`) and
executed.  Meanwhile another controller may be configured, the clock set back, rows edited
and artifacts linked or published anew.  `ReadinessAcceptsRetention` is the tombstone part
of the readiness verifier.

### The durable stores

**CasStore.**  The artifact store system call by system call: a publisher's staging file,
its flush, the exclusive lock, the hard link, the directory flush and the removal of the
staging name; readers and deleters; the paged inventories of objects and staging files;
`verify_absent`.  A directory maps names to inodes, and `durable` keeps what a power loss
leaves.  `casts` (which processes run) keeps the interleavings within reach; among `Calm`
casts nobody is killed.

**CasIdentity.**  How a handle comes to be bound to a root: the creator's directories and
marker, step by step, other openers, an operator who unmounts the root or mounts another
store in its place, the registry's binding, the readiness probe (two steps) and verified
manifests.

**RegistryMigration.**  `initialize_database` in one transaction, `probe_database` in one
snapshot, and before either the look at the WAL sidecar (stat, open, fstat), which other
connections create and remove.  Processes differ in release (`Compiled`) and key (`KeyOf`).

**EvidenceReads.**  Every page a step, a cursor from one to the next, and between them jobs
that change, events and runs that are appended, artifacts linked with a run, legacy rows that
are deleted and their rowids given away again.  **ExperimentRecords.**  A run's body, its
record in one of three backends, what the caller is told, and the listing of JSON files.
**LaneReads.**  Extends `GovernanceLane` by a reader: every SELECT of `get_lane` is a step
in autocommit, a page of `list_lanes` is one.

**ShadowCampaign.**  The lookup and the write of `transition`, `seal_batch` and
`append_outcome` happen on different connections or in autocommit mode, so each is two or
three steps, and a caller may die before any of them or after its commit and before its
answer (`told`).  Schema constraints (unique indexes, the forward-only trigger) are guards
of the writing steps.

**GovernanceLane.**  Writers read inside `BEGIN IMMEDIATE`, so each is one step.
`approved` holds the approvals people were given, with the head each was granted against.
`append_event` takes an event of any kind, an assignment or a freeze included, and leaves the
head alone; one set of idempotency keys serves all operations, and an event found under a key
is taken if its content is the same, whatever its kind.  Either way history and head may be
written around each other, and the history variable `around` remembers that they were: the
properties of the head hold of behaviours in which they were not, and `lane_split` shows the
others.  `rebuild_head` reads the events and the head separately and is two steps.

### The research pipeline

**MarketDownload.**  One request's cache directory and its client processes: lock file,
staged pages, snapshots, `latest.json`; retries and the request budget; kills that leave the
lock.  **MarketPanel.**  The panel and its metadata, two renames; sources, fallbacks and
flaws, each known by what it does: a missing ticker fails the source, rows without a close or
outside the dates are dropped afterwards and may take a ticker with them, a hard error is
refused by the validation that follows.  **SignalBundle.**  Exporters over one staging directory, and the point-in-time view
of versioned records.

**FeatureWindows.**  A value is the set of the dates it is computed from, NaN the empty set;
the primitives, the contracts and the pipeline are operators over such series, for every
choice of missing rows and missing values; a partition is loaded with its warm-up and
horizon and compared with the whole panel.

**FeatureObjects.**  Both feature stores: lock, staging, rename, flush, catalog row.
**FeatureBackfill.**  `pc` is the place of `run`, `pool` the futures; `part` and `job`
the catalog, `file` the checkpoint files.  Every catalog statement is its own transaction,
hence its own step, and `Kill` may come between any two.  The writer lock (`flock`) makes
one run at a time a fact of the model.  A damaged checkpoint file counts as an assembly
fault.  An interruption may come at any partition, the last one included, which leaves a job
that has nothing pending and that no run may assemble (`NothingPending`).

**WalkForward.**  A row is a pair of asset and date, a fit the set of rows it reads, a
position the date its score was observed on; folds, the ensemble's holdout, the temporal
tail, the execution lag.  **GovernanceEvidence.**  From the outcomes two arms stored, with
corrections and outcomes stored too early, to a recommendation: pairs, coverage, blocks of
days, Holm's correction and the gates.  Scores are abstract: a test is any p-value and
verdict.

### The service

**TelemetryExport.**  One event loop, so a step is what happens between two awaits: a request
that finishes (its log and trace record at once), a worker's batch, one answer of the exporter,
and three steps of `stop` (state, flush, termination).  The exporter is outside the code and
does anything an injected coroutine may do, a cancellation of the task that calls it included;
`told` and `cancel` keep apart that `stop` asked a task to end and that the cancellation is not
delivered yet.  The drop counters are kept per record (`fate`), which says more than their
sums.

**ServiceExchange.**  One exchange after another through validation, admission (two lanes, a
bucket each), the bounded call, one response and one record, cancelled at any await.

### Delivery

**ReleaseBundle.**  The commands of `scripts/release.py` and the jobs of `release.yml`; in
between `Move` edits the tree, changes staged files, advances branches or pushes a tag.
The publication gate judges the branches and tags of the job's last fetch (`job.fetched`,
`job.known`); whether a tag is taken is looked up again where it is pushed.  The name of the
branch that is checked out, which the gate compares too, is not kept.
**ArchiveViews.**  Three procedures of `verify_distributions.py` run over every small wheel,
inventory and gzip stream.  **ContainerEvidence.**  The container workflow, whose commands
find everything by name.  **IsolatedMeasurement.**  Parent and child over pipes with a
deadline.  **EvidencePublication.**  Private file, hard link, directory flush, or reading what
is there already.

## 3. Runs

| run | what it shows |
| --- | --- |
| `registry_safe` | 2 jobs, one with a retry, 2 workers, a clock that goes both ways: the readiness verifier accepts every reachable row, log and run set; a log never fills up; leases fence; each job refines `JobLifecycle` |
| `registry_fair` | 3 jobs, one with two attempts, into a queue of 2: a job requeued by failure or expiry returns to a queue that was filled meanwhile and stays within capacity; every expired lease is recovered |
| `retention_race` | race: 2 digests, 2 overlapping plans, 2 controllers, 1 crash anywhere, republication; authority: 2 policies, clock 0..3 with one setback, 2 signed plans.  Linked bytes survive; deletion has a plan that justifies it under the policy it was confirmed for; intent that keeps being resumed is finished unless the store contradicts a tombstone of its plan |
| `stores_safe` | the eight parts of `Stores`, see below |
| `research_safe` | the parts of `Research`, see below; and a backfill that is run again and again publishes its plan |
| `service_safe` | 2 channels and 4 records with queues of 2; 3 exchanges on 2 places; one exchange at any point of a drain.  Every record and every place is accounted for, one response per exchange, stop ends |
| `delivery_safe` | the parts of `Delivery`, see below |
| `retention_crash`, `shadow_stale`, `lane_unfreeze`, `backfill_killed`, `lane_split` | violated: see 5 |

The bounds, and why they are enough:

* Registry.  In `registry_fair` one worker runs the job with two attempts while two others fill
  the queue.  The operations touch one job, the queue order and the recovery batch: two jobs
  of different priority with a batch of one make claims overtake and recovery incomplete;
  two attempts give an expiry, a retry and an exhaustion; three instants let a lease of one
  expire, be reclaimed and expire again, and the clock fall back below a row's last update.
  `MaxEvents = 6` is `2 * 2 + 2`, the smallest log `RegistryLimits` admits for two attempts.
* Retention.  Two overlapping plans and two generations are what republication between plan
  and unlink needs; the two policies differ in age, count and bytes, so that a plan may be
  valid under either alone.
* Artifact store.  Crowds of two publishers, and of a publisher with a deleter and a reader,
  with one kill or loss of power; and of a publisher and a deleter with a lister, a prover or
  another deleter, where calls fail but nobody is killed: a lister may meet the directory at
  any step of a publication, so it sees what a kill there would leave.  Three inodes over two
  digests: an object, its republication after deletion and an abandoned staging file at
  once.  Identity: two handles, two roots,
  one death, two remounts.
* Migrations.  An old and a new release, a release and its readiness probe, a release and a
  stranger's key, from nothing, a database without registry, tables without a ledger, and a
  ledger with a gap; two sidecars and one kill.
* Pages.  Pages of one row over up to three jobs, five events, two runs and two legacy rows:
  a cursor is resumed twice with changes before, at and behind it.  Records: two runs.  Lane
  reads: four events under ceilings of three and two, one altered row, three lanes.
* Shadow and governance.  Races are between two callers over one instant, and three recorded
  transitions lead to any state but `closed`, which a fourth would reach and which differs
  from `abandoned` in name only; two opinions of one label, two revisions.  Five events hold two
  approvals of two models, two assignments and a freeze, in any order, with records of
  assignments and notes between them, under one key and without.  `lane_split` needs one event.
* Research.  Two clients, two pages, one retry, three requests, one fault and one kill use up
  every budget; three ingestions of two configurations let a metadata file go stale and be
  reused; eight bars with windows of three have rows before, inside and after the warm-up,
  with up to two missing values and one missing row; two writers of one request with three
  contents (one unfit) and two evidences; three partitions, three attempts, three faults of
  all kinds; ten dates, two assets and three folds; two exporters of overlapping years;
  three days on which two arms are asked, one correction, one outcome stored too early.
  Loss of power is off in this run (`MaxLosses = 0`).
* Service.  Four records fill a batch in flight and the queue behind it, so that a queue
  overflows, a batch is out and one waits when `stop` comes.  Three exchanges meet two
  places, one of them reserved.
* Delivery.  Five commits hold a promotion to each branch, a direct push and a new version;
  wheels and inventories of three cells or members hold a duplicate, a shadowed header and a
  path that is file and directory; two publishers have equal bytes and one other bytes, with
  one edit by hand and one power cut.

Deadlock is checked except in `service_safe` and `delivery_safe`, whose stopped runtime,
published release and reported measurement really stop.  In the other compositions a part
that came to its end (a closed campaign, a finished listing) rests, so there deadlock says
nothing of those parts.

Fairness.  `registry_fair`: time passes and somebody keeps calling bounded recovery, which
`docs/run_registry.md` asks of the operator (nothing in the code polls); workers owe
nothing.  `retention_race`: a controller that is not stopped goes on (weak), and the
operator does not for ever resume one plan in place of another (strong, because a resume is
possible only while no controller is at work).  `research_safe`, for the backfill only: no
run hangs and a run that ended is started again (weak on `Step`; faults are bounded and not
owed).  `service_safe`: the two deadlines of `stop` pass (weak on `EndFlush` and `EndStop`);
exporter and workers owe nothing.

## 4. Proofs

Thirty-four theorems in eight modules.  They state 33 of the 40 properties that the passing
runs check on small instances, for every value of the constants: any number of jobs, workers,
digests, controllers, plans, channels, exchanges, callers, events, processes, pages, partitions,
clients, writers, days, assets and folds, and any limits.

| theorem | module | statement |
| --- | --- | --- |
| `Invariance` | JobRegistryProofs | `Spec => []IInv` |
| `TypeCorrect` | JobRegistryProofs | `Spec => []TypeOK` |
| `RetentionSafe` | JobRegistryProofs | `Spec => []RetentionExcludesRunning` |
| `NeverStranded` | JobRegistryProofs | `Spec => []RoomToFinish` |
| `TerminalFinal` | JobRegistryProofs | `Spec => TerminalIsFinal` |
| `Refinement` | JobRegistryProofs | `Spec => KeepsPromise` |
| `VerifierAccepted` | JobRegistryProofs | `Spec => []VerifierAccepts` |
| `Fenced` | JobRegistryProofs | `Spec => OwnershipIsFenced` |
| `QueueBounded` | JobRegistryProofs | `Spec => []QueueWithinCapacity` |
| `ControlTypes` | RetentionProofs | `ControlSpec => []ControlTypeOK` |
| `EvidenceIsKept` | RetentionProofs | `ControlSpec => []EvidenceKeepsItsBytes` |
| `DeletionAccounting` | RetentionProofs | `ControlSpec => []DeletionIsAccounted` |
| `DeletionAuthority` | RetentionProofs | `ControlSpec => DeletionIsAuthorized` |
| `ServiceTypes` | ServiceProofs | `MCSpec => []ServiceTypeOK` |
| `TelemetryAccounts` | ServiceProofs | `MCSpec => []TelemetryIsAccounted` |
| `ExchangesAccount` | ServiceProofs | `MCSpec => []ExchangesAreAccounted` |
| `DrainOrdered` | ServiceProofs | `MCSpec => DrainHolds` |
| `HandlesStay` | StoresProofs | `StoresSpec => []OperationsStayInTheirStore` |
| `ShadowEvidence` | StoresProofs | `StoresSpec => []ShadowEvidenceHolds` |
| `AnswersHold` | StoresProofs | `StoresSpec => []AnswersAreTrue` |
| `LaneIsAccounted` | LaneProofs | `StoresSpec => []LaneHolds` |
| `DecisionsStay` | LaneProofs | `StoresSpec => DecisionsAreFinal` |
| `PublishedStays` | CasProofs | `StoresSpec => []PublicationHolds` |
| `StepsStayExact` | CasProofs | `StoresSpec => StepsAreExact` |
| `ListingsComplete` | CasProofs | `StoresSpec => []ListingsAreComplete` |
| `StoresTypes` | CasProofs | `StoresSpec => []StoresTypeOK` |
| `FeatureStores` | ResearchProofs | `ResearchSpec => []FeatureStoreHolds` |
| `StoredNeverChanges` | ResearchProofs | `ResearchSpec => StoredIsFinal` |
| `Downloads` | ResearchProofs | `ResearchSpec => []DownloadsAreSound` |
| `IngestedPanels` | ResearchProofs | `ResearchSpec => []PanelsAreSound` |
| `Bundles` | ResearchProofs | `ResearchSpec => []BundlesAreSound` |
| `EvaluationIsFair` | EvaluationProofs | `ResearchSpec => []EvaluationIsOutOfSample` |
| `FeatureValues` | EvaluationProofs | `ResearchSpec => []FeaturesAreSound` |
| `ResearchTypes` | EvaluationProofs | `ResearchSpec => []ResearchTypeOK` |

What they assume: the named ASSUMEs of the modules, which restate what the code validates
(`RegistryLimits`, `AdmissionLimits`, the exporter's configuration, ...) or keep model values
apart, that a database found at the start has what its ledger records (`FoundAssumption`), and
two hypotheses that stand in the theorems themselves.  Each of the two excludes a case in which
the code does not keep the promise, and section 5 lists both:

| hypothesis | of | without it |
| --- | --- | --- |
| `Serialized` | `StepsStayExact` | a deleter unlinks what was published anew (`OnlyTheInspectedGenerationGoes`) |
| `MaxLosses = 0` | `FeatureStores`, `StoredNeverChanges` | a power cut leaves an acknowledged feature object without its files (`AcknowledgedIsServed`) |

Other cases in which the code falls short are exceptions inside the properties, so that the
theorems hold of them too: an entry that a failing publisher left unflushed
(`AcknowledgedIsDurable` excepts `unflushed`), an observation recorded late under a lower
revision (`FirstEligibleIsStable` says that nothing else replaces the first eligible outcome), a
head written around its events (`HeadReplays`, `ChampionsFollow`), a ticker that cleaning
dropped (`PanelsAreValid`).

None of the invariants is inductive alone.  What had to be added to each, and why:

**Registry** (`JobRegistryProofs`).  `RoomToFinish` speaks of the length of a log, and how many
events a job may still write depends on its attempt and on whether it was cancelled; so `IInv` is
`TypeOK /\ AllConsistent /\ RetentionExcludesRunning`, where `Consistent(j, row, n)` ties the
state of a row to its attempt number, its cancellation and the length `n` of its log: a queued job
at attempt `a` has at most `1 + 2a` events and an attempt left, a running one at most `2a`, one
more if cancellation was asked.  With `MaxEvents >= 2 * MaxAttempts + 2` that leaves room. The
argument is per operation: lemmas on the row constructors (`LeaselessRow`, `ClosedRow`,
`RequeuedRow`), then `Recovery` for what a batch does to any job, then one lemma per operation
that composes recovery with its own move (`UpdateGood`), then one step per action of `Next`.
`TerminalFinal` and `Refinement` follow from one lemma per action that describes what that action
may do to the row of a single job, a step of `JobLifecycle` or a stutter.

**The readiness replay** (`JobRegistryProofs`).  `ReplayInv` adds to `IInv` that every job is
`Verified`: its log replays, the row says what the log ended with, is not older than it, and has a
cancellation exactly if the log has a `cancel_requested`; and that the runs are the closures the
logs name.  An operation appends up to three events to a log (a recovery, a claim after it, ...),
so each transaction is taken apart into the events it appends, and each event extends a verified
row and log to a verified one.  `Fenced` follows from how an action may hand a lease on,
`QueueBounded` from counting the active jobs, which recovery does not increase.

**Retention** (`RetentionProofs`).  `EvidenceKeepsItsBytes` holds because a
controller that is about to unlink works on candidates that all carry a tombstone of its plan
(`Follows`, `TombsAreStaged`), and what is linked, or named by a worker's call that may still link
it, has bytes and no tombstone, or the call meets the tombstone and fails (`LinksAreSafe`).  The
authority's half: plan numbers are consecutive, a signed plan is of the bound store, an enabled
policy and old enough content, a stored one keeps to its policy and has exactly its candidates'
tombstones, and a controller executes a plan signed under its own policy (`AuthorityInv`).

**Service** (`ServiceProofs`).  `ExportInv` says of each channel which records are in its queue,
which in its worker's batch and which have met their fate, that a batch is only abandoned when its
records were counted, and of each phase of `stop` what its workers may still do.  `BoundaryInv`
says the counters are the cardinalities of the exchanges that hold places, the calls in flight
included.  Every step of the service is a step of its parts, together or alone, so both carry
over.

**Stores** (`StoresProofs`, `LaneProofs`, `CasProofs`).  The parts share no step: each invariant
has the form `part = "..." => Inv`.

* Handles: a root keeps the directories and marker it has, hence what a handle saw when it was
  bound is there still (`IdentityInv`).
* Shadow: what a caller looked up is still there when it writes, since nothing is deleted, and the
  schema's unique keys hold of what is stored (`ShadowInv`): in particular no two outcomes of a
  batch have one revision, so an outcome that replaces the first eligible one has a lower one.
* Migrations and records: databases only grow, and a transaction past its migration has every
  object of its own release (`MigrationInv`); what a run was told, its file, row and log agree
  with the phase it is in (`RecordsInv`); what a listing has not got yet it has yet to open,
  unless the directory changed (`ListingInv`).
* Lanes: the generation counts the assignments, and an active head was last moved by the newest of
  them, as long as nothing was written around it; so a freeze found under a key lies behind an
  active head, and presenting the key again freezes nothing (`LaneInv`).  A request and a pager that are under way know the head
  and the lanes they started from (`QueryInv`).
* Artifact store: `CasInv` has one conjunct per place of a publication (`PublisherHolds`): until
  when its staging name is there, from when the file has its bytes, and where the digest's name
  leads while it has the lock; no two publications stage one file.  While nobody was killed every
  staging name and second name has a publication at work (`Tidy`).  For the steps that look and
  delete: what a scan found is there still or its directory has changed (`LookersHold`), and where
  maintenance is serialized a deletion removes the inode it compared (`GenerationsHold`).

* Inventories (`CompleteInv`): an entry that was there when the listing began is listed, or still
  ahead of the cursor, or it went; names only go while a page is read, or the directory is dirty
  and the page starts anew.
* Pages of the registry (`ReadsInv`): the first page fixes a set of positions, and what a caller
  has is always the first elements of that set in increasing order, each once.  Three facts carry
  it: the tables are append-only, so events and links below the mark stay; a job still to come
  has not changed since the first page, or the listing raises; and of legacy rows, whose numbers
  are given away again, the fingerprint of the first page vouches.  The two marks of a listing of
  runs are packed into one number, so a lemma takes them apart again.  A rank in a finite set
  (`Nth`) stands for the sorted rows: sorting takes an operator as a parameter, so `InOrder` is
  the unique increasing sequence of a set, chosen, and the lemmas characterise it.
* Types: most are in the invariants above; those of a lane hold of one that was written around as
  well (`LaneTypes`, `QueryTypes`).

**Research** (`ResearchProofs`).  The subjects share no step either.

* Backfill (`BackfillInv`): a partition's row, file, place in the pool and frame in memory agree
  (`PartitionHolds`), by where the run is, and so does the status of the job (`JobHolds`).  The
  job's status is no function of the place: a run killed half way leaves `running`, so what is
  said of a job at rest holds where none of the unhandled kinds of faults happened.
* Feature stores (`ObjectsInv`): a writer past the lock holds it, what it staged is of its own
  request, and an acknowledged object is whole.  The types need none of this and hold with loss
  of power too (`ObjectsWide`), which is why `ResearchTypes` has no hypothesis.
* Downloads (`DownloadInv`): a client at work holds the lock, has paid for every try and has
  staged the pages before its own (`ClientHolds`); a manifest is of usable pages only, and only
  such a snapshot is pointed to or served (`SnapshotsHold`).
* Panel and bundles (`PanelInv`, `BundleInv`): what is in memory before the write has passed
  validation; an exported year is written whole; and the rows a view selects are bounded by what
  was known at its time.

**Evaluation** (`EvaluationProofs`).

* Promotion (`PromotionInv`): after a decision nothing happens that it was made from.  That every
  day weighs the same is a count: on a circle of `n` days each distance is met from exactly one
  start (`OneStart`).  That Holm's step-down is the closed test, each rejected test rejected in
  every family of which it is part, is an argument on the least rank at which the procedure
  stops.
* Walk-forward (`WalkInv`): dates are numbered by their position in finite sets of dates
  (`PositionsApart`: between two positions of a set lie as many dates of it), which carries
  embargo, blocks and lag from counts to dates.  Folds are consecutive blocks, hence apart.  A
  label ends before the test because the dates between row and test are taken by the embargo,
  provided no row is missing there; and targets wait because a forecast is only shifted later.
* Features (`WindowInv`): what is built is the contracts' columns or one partition's frame, so the
  work is about the operators.  Three facts about them, each carried from the pandas primitives
  through every column.  No primitive reads ahead: series of dates no later than their rows
  (`Past`) are closed under all of them.  A full window is an arithmetic of offsets: a column is
  the rows `A` back and the market's `B` back (`Of(rows, n, A, B)`), where arithmetic unites
  offsets, a shift adds to them, a rolling window adds `0..(w - 1)` and the mask hides nothing of a
  window that reaches as far; so each contract comes out at the offsets its definition names.
  And every primitive commutes with taking the first rows of a series (`Prefix`), so a partition,
  whose warm-up is all prior history, has the whole panel's values.

What stays with TLC, and why:

* liveness under fairness, which is out of the prover's reach: `ExpiredLeaseIsRecovered`,
  `IntentIsResumedUnlessContradicted`, `StopIsBounded`, `PlanIsPublishedInTheEnd`;
* `DeliveryTypeOK`, `DeliveredIsBound` and `PublishedIsKept`: `ReleaseBundle` has a RECURSIVE
  operator, and the prover loses its SMT solver in every module that reaches one.

## 5. Where code and documents disagree

Five runs end in a counterexample, each against a sentence of the repository quoted in
`PROJECT.json`:

* `retention_crash`.  A controller that dies after the unlink and before the finalization
  leaves a pending tombstone over an absent object.  Every resume inspects the pending
  objects first, fails on the missing one and never reaches the finalization; claims stay
  paused.  The ADR calls this very window resumable.  (`retention_race` shows that, besides
  this, only a digest published anew after its tombstone was finalized blocks its plan.)
* `shadow_stale`.  `transition` and `seal_batch` check the state before the transaction
  that writes: a caller that read DRAFT reactivates a SEALED campaign, and one that read
  ACTIVE stores a batch in a campaign that was sealed since.
* `lane_unfreeze`.  `freeze` leaves the generation alone and the compare-and-swap looks at
  generation and champion only: an approval granted before the freeze still applies after it.
* `backfill_killed`.  A killed run leaves the job `running` (or `assembling`), a state from
  which no later run may start; the partitions would have been taken up again.
* `lane_split`.  `append_event` records an assignment or a freeze that never took effect, and a
  key may find an event of another kind and move the head for it: the split record that
  `store.py:286-288` and ADR 0005 call impossible.  `rebuild_head` raises over it ever after.

The modules state further sentences of the repository that the code does not keep.  Each is
a definition of the module named, beside its properties, that no configuration here checks;
TLC refutes it when it is added to a configuration of that module.

| property | module | what happens |
| --- | --- | --- |
| `ReportsCanBeBuilt` | ShadowCampaign | `append_outcome` selects `as_of` and never compares it, so an outcome observed too early is stored for ever and every report of the campaign raises `ChronologyError` |
| `ResealingIsASuccess` | ShadowCampaign | of two callers sealing the identical batch at once one fails with an integrity error |
| `NoFalseAlarm` | GovernanceLane | `rebuild_head` beside a writer raises `ChainIntegrityError` over a healthy lane |
| `SummaryIsASnapshot` | LaneReads | a summary may join the head of one state with the events of another |
| `ReadyIsCanonical` | RegistryMigration | an object missing from a database whose ledger is complete is not noticed (`docs/run_registry.md:22`, `migrations.py:1312`) |
| `NoBenignRefusal` | RegistryMigration | an opener is refused because another connection replaced the sidecar between its two looks |
| `OnlyTheInspectedGenerationGoes` without `Serialized` | CasStore | what maintenance beside publication costs |
| `PlanIsPublished` without kills | FeatureBackfill | after a refused materialization, or an interruption at the last partition, the job is `failed` or `interrupted` with nothing pending, and no run may assemble it (`backfill.py:185-196`) |
| `EndIsRecorded` | FeatureBackfill | a run whose assembly raises leaves the job in `assembling`; the documented diagram has it `failed` |
| `AcknowledgedIsServed` with `MaxLosses > 0` | FeatureObjects | loss of power after a materialization was acknowledged may leave its catalog row without the object's files |
| `RepublishingIsQuiet`, `DifferenceIsNoticed` | FeatureObjects | the second of two concurrent tensor writers fails; what a killed writer left in `objects/` is not compared |
| `PartialWindowsAreSuppressed`, `FirstValueIsAtWarmup` | FeatureWindows | the mask of `contracts.py` is by position, so a missing row inside a window leaves a value of the rest of it; returns need one row more than their warm-up |
| `PartitionsAgree` with missing rows | FeatureWindows | warm-up and horizon of a partition count the panel's dates, windows the asset's rows |
| `EmbargoSeparatesLabels` | WalkForward | the embargo counts the frame's dates and the label the asset's own rows, so with a missing row a training label reaches into the test block (`config.py:591-594`, `splits.py:5-8`) |
| `EvidenceIsConsecutive` | GovernanceEvidence | the gate counts days, consecutive or not (`gates.py:56`) |
| `FamilyIsComplete` with equal names | GovernanceEvidence | of two tests of one name one is left out of the correction |
| `NoComparisonIsRefused` | GovernanceEvidence | an outcome of one arm that was stored too early makes the whole comparison raise |
| `AFetchIsServedInTheEnd` | MarketDownload | a page that did not parse stays staged, a killed client's lock stays |
| `RequestedTickersAreCovered` | MarketPanel | rows without a close or outside the dates are dropped after the check of the requested tickers, and validation looks for no ticker in particular (`docs/data_card.md:37-45`, `ingest.py:181-185`) |
| `ReusedPanelMatches` | MarketPanel | after a kill between the two renames the old metadata vouches for the new panel (`docs/data_card.md:49-50`) |
| `KnownCorrectionsApply` | SignalBundle | a correction is not shown while the new date it gives is still ahead |
| `WorkerOutlivesExporter` | TelemetryExport | a cancellation the exporter scheduled before it returned arrives in `queue.get()`, outside the handler: the worker ends, silently, against the comment at `telemetry.py:615` |
| `IndeterminateIsNotDropped` | TelemetryExport | a worker that outlives the flush deadline may still fail, and counts as `export_failed` what was counted as indeterminate |
| `ProbesAreReserved` | ServiceExchange | probes and data share the global places, so data in flight turn a probe away in the tick its bucket is empty or the places are full |
| `PromotedTwice` | ReleaseBundle | one merge may serve as both promotions (`release.py:553-555`) |
| `LockfileIsBound`, `ReleaseHolds` under `EditsDuringBuild` | ReleaseBundle | the tree is compared before the build only |
| `NoVersionIsBurnt` | ReleaseBundle | by design: a pushed tag whose job failed is not released again |
| `RuntimeIsOfTheImage` | ContainerEvidence | the container is started by tag, which may have moved since the comparison |
| `SuccessIsDurable`, `IdenticalIsAccepted` | EvidencePublication | the loser of the race reports success without a flush; it may also meet the winner before its mode or link count is final (`benchmark_service_operability.py:1769-1803`) |
| `ATornRecordHidesNothing` | ExperimentRecords | one torn JSON record makes the listing raise; nobody promises otherwise |

## 6. Not modelled, and why

Numerical code is left out: spectral transforms, decompositions, representations,
estimators, covariance and graph models, state space models, costs, risk and metrics.  TLC
does not evaluate floats and nothing in them interleaves; what they may READ is modelled
where a promise is made about it (windows, folds, lags, corrected outcomes).  Figures,
reports and the web console render finished results.  Route handlers are stateless.  Reads
of one row in one transaction, and `backup`, change nothing and see one state.  In the
modelled parts these are abstracted: digests and payloads (model values), request
validation, formatting of plans, reports and manifests, file modes and owners, byte limits
and time budgets, and SQLite's busy timeouts (a caller that times out did nothing).

## 7. Plan

All parts whose state or order matters are modelled, and every safety and action property of the
registry, retention, the service, the durable stores and research is proved.
What is left, in this order:

1. `Delivery`: the ancestry of `ReleaseBundle` as a recursive function instead of a RECURSIVE
   operator; then `DeliveryTypeOK` and `PublishedIsKept`, whose steps are those of
   `EvidencePublication` and of the publishing job, and last `DeliveredIsBound`.
2. The numerical code of section 6 where a promise is made about what it reads.
