---------------------------- MODULE JobRegistry ----------------------------
(***************************************************************************)
(* The durable job queue of quant_platform.tracking.registry: one row per   *)
(* job, an append-only event log, one terminal run per explicitly closed    *)
(* attempt.  Every public operation runs in one BEGIN IMMEDIATE             *)
(* transaction, so an operation is one atomic step; one that raises rolls   *)
(* back everything, the recovery it performed included, and is a stutter.   *)
(* Workers may be dead, slow or duplicated: any lease ever issued may be    *)
(* presented at any time.                                                   *)
(***************************************************************************)
EXTENDS Naturals, Sequences, FiniteSets

CONSTANTS
    MaxJobs,         \* bound: rows ever submitted; a job is its submission number
    MaxClock,        \* bound: last instant of the registry's time authority
    Workers,         \* worker identifiers
    NoWorker,        \* the NULL of lease_owner
    Priority,        \* [JobId -> Nat], the priority of each request
    MaxAttempts,     \* [JobId -> positive Nat], max_attempts of each request
    LeaseTerms,      \* the lease_seconds a worker may ask for
    QueueCapacity,   \* RegistryLimits.queue_capacity
    RecoveryBatch,   \* RegistryLimits.recovery_batch_size
    MaxEvents,       \* RegistryLimits.max_events_per_job
    ClockMayRegress  \* whether the wall clock may be set back

JobId == 1..MaxJobs

ASSUME BoundsAssumption == MaxJobs \in Nat /\ MaxClock \in Nat \ {0}
ASSUME WorkerAssumption == NoWorker \notin Workers
ASSUME RequestAssumption ==
    /\ Priority \in [JobId -> Nat]
    /\ MaxAttempts \in [JobId -> Nat \ {0}]
    /\ LeaseTerms \subseteq Nat \ {0}
ASSUME LimitAssumption ==
    /\ QueueCapacity \in Nat /\ RecoveryBatch \in Nat \ {0} /\ MaxEvents \in Nat
    /\ \A j \in JobId : MaxEvents >= 2 * MaxAttempts[j] + 2
    /\ ClockMayRegress \in BOOLEAN

VARIABLES
    clock,            \* what the injected time authority returns now
    jobs,             \* table sl_registry_jobs
    events,           \* table sl_registry_events, by job
    runs,             \* table sl_registry_runs
    retentionPending  \* some tombstone has deleted_at IS NULL

vars == <<clock, jobs, events, runs, retentionPending>>

NoTime   == 0
Time     == 1..MaxClock
Terminal == {"succeeded", "failed", "cancelled"}
Active   == {"queued", "running"}
JobState == Active \cup Terminal
Codes    == {"none", "reported", "lease_attempts_exhausted"}
Kinds    == {"submitted", "claimed", "cancel_requested", "retried", "lease_expired",
             "cancelled", "succeeded", "failed"}
RunStatus == {"succeeded", "failed", "cancelled"}

Row == [state : JobState \cup {"absent"}, attempt : Nat, created : Nat, updated : Nat,
        owner : Workers \cup {NoWorker}, expires : Nat, heartbeat : Nat,
        cancelAt : Nat, terminalAt : Nat, result : Nat, failure : Codes]

Event == [kind : Kinds, from : JobState \cup {"none"}, to : JobState, at : Nat,
          attempt : Nat, actor : Workers \cup {"submitter", "requester", "registry"}]

Run == [job : JobId, attempt : Nat, status : RunStatus, ended : Nat]

NoRow == [state |-> "absent", attempt |-> 0, created |-> NoTime, updated |-> NoTime,
          owner |-> NoWorker, expires |-> NoTime, heartbeat |-> NoTime,
          cancelAt |-> NoTime, terminalAt |-> NoTime, result |-> 0, failure |-> "none"]

TypeOK ==
    /\ clock \in Time
    /\ jobs \in [JobId -> Row]
    /\ events \in [JobId -> Seq(Event)]
    /\ runs \subseteq Run
    /\ retentionPending \in BOOLEAN

InState(s) == {j \in JobId : jobs[j].state \in s}

-----------------------------------------------------------------------------
\* Rows and events an operation writes at the current instant.

Entry(kind, from, to, attempt, actor) ==
    [kind |-> kind, from |-> from, to |-> to, at |-> clock, attempt |-> attempt, actor |-> actor]

\* Mutant: an owner outside the column's domain.
LeaselessOwner(row) ==
    [row EXCEPT !.owner = NoTime, !.expires = NoTime, !.heartbeat = NoTime]

Leaseless(row) ==
    [row EXCEPT !.owner = NoWorker, !.expires = NoTime, !.heartbeat = NoTime]

Closed(row, state, result, code) ==
    [Leaseless(row) EXCEPT !.state = state, !.updated = clock, !.result = result,
                           !.terminalAt = clock, !.failure = code]

Requeued(row) == [Leaseless(row) EXCEPT !.state = "queued", !.updated = clock]

\* _event refuses to grow a full log, which aborts the whole transaction.
HasRoom(log) == Len(log) < MaxEvents

-----------------------------------------------------------------------------
\* Recovery of expired leases: part of every operation below but submit.

\* Mutant: a lease is good until after its expiry instant.
ExpiredStrictly == {j \in InState({"running"}) : jobs[j].expires < clock}

Expired == {j \in InState({"running"}) : jobs[j].expires <= clock}

\* At most RecoveryBatch rows by sequence, the target (if any) before the others.
Batch(target) ==
    LET first == Expired \cap target
        rest  == Expired \ target
    IN  first \cup {j \in rest : Cardinality(first)
                                 + Cardinality({i \in rest : i < j}) < RecoveryBatch}

\* Mutant: expiry forgets the cancellation request.
AfterExpiryUncancelled(j) ==
    IF jobs[j].attempt >= MaxAttempts[j] THEN "failed" ELSE "queued"

AfterExpiry(j) ==
    CASE jobs[j].cancelAt # NoTime              -> "cancelled"
      [] jobs[j].cancelAt = NoTime
         /\ jobs[j].attempt >= MaxAttempts[j]   -> "failed"
      [] OTHER                                  -> "queued"

ExpireRow(j) ==
    CASE AfterExpiry(j) = "queued"    -> Requeued(jobs[j])
      [] AfterExpiry(j) = "cancelled" -> Closed(jobs[j], "cancelled", 0, "none")
      [] OTHER                        -> Closed(jobs[j], "failed", 0, "lease_attempts_exhausted")

RecoveredJobs(batch) == [j \in JobId |-> IF j \in batch THEN ExpireRow(j) ELSE jobs[j]]

RecoveredEvents(batch) ==
    [j \in JobId |->
        IF j \in batch
        THEN Append(events[j], Entry("lease_expired", "running", AfterExpiry(j),
                                     jobs[j].attempt, "registry"))
        ELSE events[j]]

RecoveryFits(batch) == \A j \in batch : HasRoom(events[j])

-----------------------------------------------------------------------------
\* Leases.  The token is fresh per claim, so it matches while the attempt is current.

IssuedLeases ==
    {lease \in [job : JobId, attempt : 1..MaxEvents, worker : Workers] :
        \E i \in 1..Len(events[lease.job]) :
            LET e == events[lease.job][i]
            IN  e.kind = "claimed" /\ e.attempt = lease.attempt /\ e.actor = lease.worker}

\* Mutant: only liveness of the lease is checked, not whose it is.
OwnsAnyLive(rows, lease) ==
    /\ clock >= rows[lease.job].updated
    /\ rows[lease.job].state = "running"
    /\ rows[lease.job].expires > clock

\* Mutant: the clock may have moved behind the row.
OwnsAtAnyTime(rows, lease) ==
    /\ rows[lease.job].state = "running"
    /\ rows[lease.job].owner = lease.worker
    /\ rows[lease.job].attempt = lease.attempt
    /\ rows[lease.job].expires > clock

\* _owned_running, evaluated on the rows as recovery left them.
Owns(rows, lease) ==
    /\ clock >= rows[lease.job].updated
    /\ rows[lease.job].state = "running"
    /\ rows[lease.job].owner = lease.worker
    /\ rows[lease.job].attempt = lease.attempt
    /\ rows[lease.job].expires > clock

-----------------------------------------------------------------------------
Init ==
    /\ clock = 1
    /\ jobs = [j \in JobId |-> NoRow]
    /\ events = [j \in JobId |-> <<>>]
    /\ runs = {}
    /\ retentionPending = FALSE

\* Mutant: a capacity that forgets running jobs.
OnlyQueuedJobs == InState({"queued"})

\* Running jobs count: they may be requeued.
OpenJobs == InState(Active)

\* A replayed idempotency key returns the stored row or raises: no state change.
Submit(j) ==
    /\ jobs[j].state = "absent"
    /\ \A i \in JobId : i < j => jobs[i].state # "absent"
    /\ Cardinality(OpenJobs) < QueueCapacity
    /\ jobs' = [jobs EXCEPT ![j] = [NoRow EXCEPT !.state = "queued",
                                                !.created = clock, !.updated = clock]]
    /\ events' = [events EXCEPT ![j] =
                    Append(events[j], Entry("submitted", "none", "queued", 0, "submitter"))]
    /\ UNCHANGED <<clock, runs, retentionPending>>

\* ORDER BY priority DESC, sequence ASC.
Precedes(i, j) == Priority[i] > Priority[j] \/ (Priority[i] = Priority[j] /\ i <= j)

NextQueued(rows) ==
    {j \in JobId : /\ rows[j].state = "queued"
                   /\ \A i \in JobId : rows[i].state = "queued" => Precedes(j, i)}

\* Mutant: claims that ignore pending retention.
ClaimsAlwaysOpen == TRUE

ClaimsOpen == ~retentionPending

Claim(w, term) ==
    LET batch == Batch({})
        rows  == RecoveredJobs(batch)
        logs  == RecoveredEvents(batch)
    IN  /\ ClaimsOpen
        /\ RecoveryFits(batch)
        /\ \/ NextQueued(rows) = {} /\ jobs' = rows /\ events' = logs
           \/ \E j \in NextQueued(rows) :
                /\ clock >= rows[j].updated
                /\ HasRoom(logs[j])
                /\ jobs' = [rows EXCEPT ![j] =
                     [rows[j] EXCEPT !.state = "running", !.attempt = rows[j].attempt + 1,
                                     !.updated = clock, !.heartbeat = clock,
                                     !.owner = w, !.expires = clock + term]]
                /\ events' = [logs EXCEPT ![j] =
                     Append(logs[j], Entry("claimed", "queued", "running",
                                           rows[j].attempt + 1, w))]
        /\ UNCHANGED <<clock, runs, retentionPending>>

Heartbeat(lease, term) ==
    LET batch == Batch({})
        rows  == RecoveredJobs(batch)
        j     == lease.job
    IN  /\ RecoveryFits(batch)
        /\ Owns(rows, lease)
        /\ jobs' = [rows EXCEPT ![j] = [rows[j] EXCEPT !.updated = clock, !.heartbeat = clock,
                                                       !.expires = clock + term]]
        /\ events' = RecoveredEvents(batch)
        /\ UNCHANGED <<clock, runs, retentionPending>>

RecoverExpired ==
    LET batch == Batch({})
    IN  /\ RecoveryFits(batch)
        /\ jobs' = RecoveredJobs(batch)
        /\ events' = RecoveredEvents(batch)
        /\ UNCHANGED <<clock, runs, retentionPending>>

\* Mutant: cancels a finished job.
CancelSettledIfAsked(row) == row.cancelAt # NoTime

\* Nothing is left to cancel: the call commits its recovery and returns the row.
CancelSettled(row) == row.state \in Terminal \/ row.cancelAt # NoTime

\* A running job is only marked; a queued job is cancelled at once.
RequestCancel(j) ==
    LET batch   == Batch({j})
        rows    == RecoveredJobs(batch)
        logs    == RecoveredEvents(batch)
        marked  == [rows[j] EXCEPT !.cancelAt = clock, !.updated = clock]
        request == Entry("cancel_requested", rows[j].state, rows[j].state,
                         rows[j].attempt, "requester")
        cancel  == Entry("cancelled", "queued", "cancelled", rows[j].attempt, "registry")
        queued  == rows[j].state = "queued"
    IN  /\ rows[j].state # "absent"
        /\ RecoveryFits(batch)
        /\ clock >= rows[j].updated
        /\ \/ /\ CancelSettled(rows[j])
              /\ jobs' = rows
              /\ events' = logs
           \/ /\ ~CancelSettled(rows[j]) /\ ~queued
              /\ HasRoom(logs[j])
              /\ jobs' = [rows EXCEPT ![j] = marked]
              /\ events' = [logs EXCEPT ![j] = Append(logs[j], request)]
           \/ /\ ~CancelSettled(rows[j]) /\ queued
              /\ HasRoom(Append(logs[j], request))
              /\ jobs' = [rows EXCEPT ![j] = [marked EXCEPT !.state = "cancelled",
                                                            !.terminalAt = clock]]
              /\ events' = [logs EXCEPT ![j] = Append(Append(logs[j], request), cancel)]
        /\ UNCHANGED <<clock, runs, retentionPending>>

-----------------------------------------------------------------------------
\* Explicit closure of an attempt: acknowledge_cancel, complete and fail share
\* the ownership check, the terminal run and the closing event.

\* Mutant: the run of the attempt before.
EarlierRun(rows, lease, status) ==
    [job |-> lease.job, attempt |-> rows[lease.job].attempt - 1, status |-> status, ended |-> clock]

NewRun(rows, lease, status) ==
    [job |-> lease.job, attempt |-> rows[lease.job].attempt, status |-> status, ended |-> clock]

\* _insert_terminal_run: exactly one claim event of the attempt, by the owner,
\* not in the future, and no run for it yet.
MayRecordRun(rows, lease) ==
    LET log    == events[lease.job]
        claims == {i \in 1..Len(log) : log[i].kind = "claimed"
                                       /\ log[i].attempt = rows[lease.job].attempt}
    IN  /\ Cardinality(claims) = 1
        /\ \A i \in claims : log[i].actor = rows[lease.job].owner /\ log[i].at <= clock
        /\ \A r \in runs : ~(r.job = lease.job /\ r.attempt = rows[lease.job].attempt)

CloseAttempt(lease, kind, status, closed) ==
    LET batch == Batch({})
        rows  == RecoveredJobs(batch)
        logs  == RecoveredEvents(batch)
        j     == lease.job
    IN  /\ RecoveryFits(batch)
        /\ Owns(rows, lease)
        /\ MayRecordRun(rows, lease)
        /\ HasRoom(logs[j])
        /\ runs' = runs \cup {NewRun(rows, lease, status)}
        /\ jobs' = [rows EXCEPT ![j] = closed]
        /\ events' = [logs EXCEPT ![j] =
                        Append(logs[j], Entry(kind, "running", closed.state,
                                              rows[j].attempt, lease.worker))]
        /\ UNCHANGED <<clock, retentionPending>>

\* The owned row is untouched by the recovery that precedes it.
CancelRequested(lease) == jobs[lease.job].cancelAt # NoTime

CancelledRow(j) == Closed(jobs[j], "cancelled", 0, "none")
SucceededRow(j) == Closed(jobs[j], "succeeded", jobs[j].attempt, "none")
FailedRow(j)    == Closed(jobs[j], "failed", 0, "reported")

AcknowledgeCancel(lease) ==
    /\ CancelRequested(lease)
    /\ CloseAttempt(lease, "cancelled", "cancelled", CancelledRow(lease.job))

Complete(lease) ==
    /\ ~CancelRequested(lease)
    /\ CloseAttempt(lease, "succeeded", "succeeded", SucceededRow(lease.job))

\* Mutant: one retry too many.
OneMoreAttempt(j) == jobs[j].attempt <= MaxAttempts[j]

AttemptsRemain(j) == jobs[j].attempt < MaxAttempts[j]

Fail(lease, retryable) ==
    \/ CancelRequested(lease) /\ CloseAttempt(lease, "cancelled", "cancelled", CancelledRow(lease.job))
    \/ /\ ~CancelRequested(lease)
       /\ retryable /\ AttemptsRemain(lease.job)
       /\ CloseAttempt(lease, "retried", "failed", Requeued(jobs[lease.job]))
    \/ /\ ~CancelRequested(lease)
       /\ ~(retryable /\ AttemptsRemain(lease.job))
       /\ CloseAttempt(lease, "failed", "failed", FailedRow(lease.job))

-----------------------------------------------------------------------------
\* What the retention controller does to the registry: it commits pending
\* tombstones only in a transaction that sees no running job, and resolves the last.

StageRetention ==
    /\ InState({"running"}) = {}
    /\ retentionPending' = TRUE
    /\ UNCHANGED <<clock, jobs, events, runs>>

FinishRetention ==
    /\ retentionPending
    /\ retentionPending' = FALSE
    /\ UNCHANGED <<clock, jobs, events, runs>>

\* The wall clock.
Tick ==
    /\ clock < MaxClock
    /\ clock' = clock + 1
    /\ UNCHANGED <<jobs, events, runs, retentionPending>>

ClockRegress ==
    /\ ClockMayRegress
    /\ clock > 1
    /\ clock' = clock - 1
    /\ UNCHANGED <<jobs, events, runs, retentionPending>>

Next ==
    \/ \E j \in JobId : Submit(j) \/ RequestCancel(j)
    \/ \E w \in Workers, term \in LeaseTerms : Claim(w, term)
    \/ \E lease \in IssuedLeases, term \in LeaseTerms : Heartbeat(lease, term)
    \/ \E lease \in IssuedLeases : AcknowledgeCancel(lease) \/ Complete(lease)
    \/ \E lease \in IssuedLeases, retryable \in BOOLEAN : Fail(lease, retryable)
    \/ RecoverExpired \/ StageRetention \/ FinishRetention
    \/ Tick \/ ClockRegress

Spec == Init /\ [][Next]_vars

\* Time passes, and somebody keeps running bounded lease recovery, as the runbook asks
\* (docs/run_registry.md); workers owe nothing.
FairSpec == Spec /\ WF_vars(RecoverExpired) /\ WF_vars(Tick)

-----------------------------------------------------------------------------
\* What migrations._verify_job_lifecycle demands of every stored job before the
\* service reports ready: it replays the log and reconciles the row and the runs.

FirstEvent(row, log) ==
    LET e == log[1]
    IN  /\ e.kind = "submitted" /\ e.from = "none" /\ e.to = "queued"
        /\ e.at = row.created /\ e.attempt = 0 /\ e.actor = "submitter"

Before(log, i, kind) == {k \in 1..(i - 1) : log[k].kind = kind}

ByClaimant(log, i) ==
    \E k \in Before(log, i, "claimed") : /\ log[k].attempt = log[i].attempt
                                         /\ log[k].actor = log[i].actor

LegalEvent(j, log, i) ==
    LET e == log[i]
        p == log[i - 1]
        cancelSeen == Before(log, i, "cancel_requested") # {}
    IN  /\ e.at >= p.at
        /\ e.from = p.to
        /\ \/ /\ e.kind = "claimed" /\ e.from = "queued" /\ e.to = "running"
              /\ e.attempt = p.attempt + 1 /\ e.attempt <= MaxAttempts[j]
           \/ /\ e.attempt = p.attempt
              /\ \/ /\ e.kind = "cancel_requested" /\ e.from \in Active /\ e.to = e.from
                    /\ e.actor = "requester" /\ ~cancelSeen
                 \/ /\ e.kind = "retried" /\ e.from = "running" /\ e.to = "queued"
                    /\ ByClaimant(log, i) /\ ~cancelSeen
                 \/ /\ e.kind = "lease_expired" /\ e.from = "running" /\ e.actor = "registry"
                    /\ e.to = CASE cancelSeen -> "cancelled"
                                [] ~cancelSeen /\ e.attempt >= MaxAttempts[j] -> "failed"
                                [] OTHER -> "queued"
                 \/ /\ e.kind = "cancelled" /\ e.to = "cancelled" /\ cancelSeen
                    /\ \/ e.from = "running" /\ ByClaimant(log, i)
                       \/ e.from = "queued" /\ e.actor = "registry"
                 \/ /\ e.kind \in {"succeeded", "failed"} /\ e.from = "running"
                    /\ e.to = e.kind /\ ByClaimant(log, i) /\ ~cancelSeen

Replays(j, row, log) ==
    /\ (row.state = "absent") <=> (Len(log) = 0)
    /\ Len(log) > 0 => FirstEvent(row, log)
    /\ \A i \in 2..Len(log) : LegalEvent(j, log, i)

\* The event log of every job replays: each event continues the state the one
\* before it left, attempts are contiguous, an attempt is closed only by its
\* claimant or by the registry, and time never runs backward in a log even when
\* the wall clock does (registry._event and its callers against
\* migrations._verify_job_lifecycle).
LifecycleReplays == \A j \in JobId : Replays(j, jobs[j], events[j])

LastEvent(log) == log[Len(log)]

LeaseMatchesClaim(row, log) ==
    \E i \in 1..Len(log) :
        LET e == log[i]
        IN  /\ e.kind = "claimed" /\ e.attempt = row.attempt /\ e.actor = row.owner
            /\ e.at <= row.heartbeat /\ row.heartbeat <= row.updated /\ row.updated <= row.expires

CancelMatchesLog(row, log) ==
    LET asked == {i \in 1..Len(log) : log[i].kind = "cancel_requested"}
    IN  IF asked = {}
        THEN row.cancelAt = NoTime /\ row.state # "cancelled"
        ELSE /\ row.state \in {"running", "cancelled"}
             /\ \A i \in asked : row.cancelAt = log[i].at

MatchesLog(j, row, log) ==
    LET e == LastEvent(log)
    IN  /\ row.state = e.to /\ row.attempt = e.attempt
        /\ row.attempt <= MaxAttempts[j] /\ row.created <= row.updated
        /\ CancelMatchesLog(row, log)
        /\ row.state \in Terminal => row.terminalAt = e.at /\ row.updated = e.at
        /\ row.state \notin Terminal => row.terminalAt = NoTime
        /\ row.state = "queued" => row.updated = e.at
        /\ IF row.state = "running" THEN LeaseMatchesClaim(row, log)
           ELSE row.owner = NoWorker /\ row.expires = NoTime /\ row.heartbeat = NoTime
        /\ (row.failure # "none") <=> (row.state = "failed")
        /\ row.state = "failed" /\ e.kind = "lease_expired"
                => row.failure = "lease_attempts_exhausted"

\* The mutable row always says what replaying the log says: state, attempt,
\* lease, cancellation and terminal time (the second half of
\* migrations._verify_job_lifecycle), whatever leases are replayed and however
\* the clock moves.
RowMatchesLog == \A j \in JobId : jobs[j].state # "absent" => MatchesLog(j, jobs[j], events[j])

\* The run status an explicit closing event must come with.
StatusOf(e) ==
    CASE e.kind \in {"retried", "failed"} -> "failed"
      [] e.kind = "succeeded" -> "succeeded"
      [] OTHER -> "cancelled"

ExplicitClosures(log) ==
    {i \in 1..Len(log) : /\ log[i].from = "running"
                         /\ log[i].kind \in {"retried", "succeeded", "failed", "cancelled"}}

RunOf(j, e) == [job |-> j, attempt |-> e.attempt, status |-> StatusOf(e), ended |-> e.at]

\* Terminal runs and attempt closures agree one to one: an attempt its worker
\* closed has exactly one run, with the closing status and instant; an attempt
\* lost to lease expiry never gains one, however late its worker reports; and a
\* job's result names the run of its last attempt (_insert_terminal_run).
RunsMatchClosures ==
    /\ \A j \in JobId : \A i \in ExplicitClosures(events[j]) : RunOf(j, events[j][i]) \in runs
    /\ \A r \in runs : \E i \in ExplicitClosures(events[r.job]) : events[r.job][i].attempt = r.attempt
    /\ \A r, s \in runs : r.job = s.job /\ r.attempt = s.attempt => r = s
    /\ \A j \in JobId : jobs[j].result = IF jobs[j].state = "succeeded"
                                         THEN jobs[j].attempt ELSE 0

\* What initialization accepts of a stored registry, every operation leaves behind:
\* _verify_job_lifecycle never refuses a database the registry itself wrote.
VerifierAccepts == LifecycleReplays /\ RowMatchesLog /\ RunsMatchClosures

\* max_events_per_job >= 2 * max_attempts + 2 leaves every active job the events
\* it may still need, so _event's CapacityError never strands a running job
\* (contracts.RegistryLimits).
RoomToFinish ==
    \A j \in InState(Active) :
        LET needed == IF jobs[j].state = "queued" THEN 3
                      ELSE IF jobs[j].cancelAt = NoTime THEN 2 ELSE 1
        IN  Len(events[j]) + needed <= MaxEvents

\* No attempt runs while retention intent is pending: claim refuses under
\* pending tombstones and staging refuses under running work, each inside its
\* own transaction.
RetentionExcludesRunning == retentionPending => InState({"running"}) = {}

\* Requeueing never overflows the queue submit bounds (queue_capacity counts
\* running jobs because they may come back).
QueueWithinCapacity == Cardinality(InState(Active)) <= QueueCapacity

\* A terminal job is final: no later operation, late worker or recovery changes
\* its row, log or runs.
TerminalIsFinal ==
    [][\A j \in InState(Terminal) :
          /\ jobs'[j] = jobs[j] /\ events'[j] = events[j]
          /\ {r \in runs' : r.job = j} = {r \in runs : r.job = j}]_vars

\* Fencing: when an attempt leaves the hands of its owner, the owner wrote the
\* closing event itself while its lease was live, or the lease had expired.
OwnershipIsFenced ==
    [][\A j \in InState({"running"}) :
          jobs'[j].attempt # jobs[j].attempt \/ jobs'[j].state # "running" =>
             \/ jobs[j].expires <= clock
             \/ /\ Len(events'[j]) = Len(events[j]) + 1
                /\ events'[j][Len(events'[j])].actor = jobs[j].owner]_vars

\* Every lease that expires is eventually taken back, in batches and although
\* live workers keep claiming: recovery runs in sequence order, so no expired
\* lease is overtaken forever.
ExpiredLeaseIsRecovered ==
    \A j \in JobId : \A a \in 1..MaxAttempts[j] :
        (jobs[j].state = "running" /\ jobs[j].attempt = a /\ jobs[j].expires <= clock)
            ~> ~(jobs[j].state = "running" /\ jobs[j].attempt = a)

\* Each job, alone, behaves as JobLifecycle promises.
Promise(j) == INSTANCE JobLifecycle WITH
    Limit     <- MaxAttempts[j],
    state     <- jobs[j].state,
    attempt   <- jobs[j].attempt,
    cancelled <- jobs[j].cancelAt # NoTime

\* The registry implements the lifecycle it promises for every single job, through
\* batched recovery, reclaiming and cancellation in one commit: this is
\* \A j : Promise(j)!Spec, with the quantifier moved inside the always.
KeepsPromise ==
    /\ \A j \in JobId : Promise(j)!Init
    /\ [][\A j \in JobId : [Promise(j)!Next]_(Promise(j)!vars)]_vars
=============================================================================
