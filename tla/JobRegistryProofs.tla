------------------------- MODULE JobRegistryProofs -------------------------
(***************************************************************************)
(* What holds of JobRegistry for every number of jobs, workers, lease       *)
(* terms and limits.  The invariant IInv adds to the types what a row's     *)
(* state says of its attempts, its cancellation and the length of its log.  *)
(* ReplayInv adds that what the registry writes, its own verifier accepts.  *)
(***************************************************************************)
EXTENDS JobRegistry, FiniteSetTheorems, TLAPS

\* What the state of a row says of it and of the n events in its log.
Consistent(j, row, n) ==
    /\ row.attempt <= MaxAttempts[j]
    /\ row.state = "absent" => row.attempt = 0 /\ row.cancelAt = NoTime /\ n = 0
    /\ row.state = "queued" => /\ row.attempt < MaxAttempts[j]
                               /\ row.cancelAt = NoTime
                               /\ n <= 1 + 2 * row.attempt
    /\ row.state = "running" => n <= IF row.cancelAt = NoTime THEN 2 * row.attempt
                                     ELSE 2 * row.attempt + 1

AllConsistent == \A j \in JobId : Consistent(j, jobs[j], Len(events[j]))

IInv == TypeOK /\ AllConsistent /\ RetentionExcludesRunning

-----------------------------------------------------------------------------
\* Row constructors stay in the table's domain and touch only what they name.

LEMMA FieldTypes ==
    /\ \A row \in Row : row.attempt \in Nat /\ row.cancelAt \in Nat
    /\ \A log \in Seq(Event) : Len(log) \in Nat
  BY DEF Row

LEMMA LeaselessRow ==
    ASSUME NEW row \in Row
    PROVE  /\ Leaseless(row) \in Row
           /\ Leaseless(row).attempt = row.attempt
           /\ Leaseless(row).cancelAt = row.cancelAt
  BY DEF Leaseless, Row, NoTime

LEMMA ClosedRow ==
    ASSUME clock \in Time, NEW row \in Row, NEW s \in JobState, NEW r \in Nat, NEW c \in Codes
    PROVE  /\ Closed(row, s, r, c) \in Row
           /\ Closed(row, s, r, c).state = s
           /\ Closed(row, s, r, c).attempt = row.attempt
           /\ Closed(row, s, r, c).cancelAt = row.cancelAt
  <1> DEFINE free == Leaseless(row)
  <1>1. free \in Row /\ free.attempt = row.attempt /\ free.cancelAt = row.cancelAt
    BY LeaselessRow
  <1>2. clock \in Nat
    BY BoundsAssumption DEF Time
  <1> HIDE DEF free
  <1>3. [free EXCEPT !.state = s, !.updated = clock, !.result = r,
                     !.terminalAt = clock, !.failure = c] \in Row
    BY <1>1, <1>2 DEF Row
  <1> QED
    BY <1>1, <1>3 DEF Closed, free, Row

LEMMA RequeuedRow ==
    ASSUME clock \in Time, NEW row \in Row
    PROVE  /\ Requeued(row) \in Row
           /\ Requeued(row).state = "queued"
           /\ Requeued(row).attempt = row.attempt
           /\ Requeued(row).cancelAt = row.cancelAt
  <1> DEFINE free == Leaseless(row)
  <1>1. free \in Row /\ free.attempt = row.attempt /\ free.cancelAt = row.cancelAt
    BY LeaselessRow
  <1>2. clock \in Nat
    BY BoundsAssumption DEF Time
  <1> HIDE DEF free
  <1> QED
    BY <1>1, <1>2 DEF Requeued, free, Row, JobState, Active

LEMMA EntryType ==
    ASSUME clock \in Time, NEW kind \in Kinds, NEW from \in JobState \cup {"none"},
           NEW to \in JobState, NEW a \in Nat,
           NEW actor \in Workers \cup {"submitter", "requester", "registry"}
    PROVE  Entry(kind, from, to, a, actor) \in Event
  BY BoundsAssumption DEF Entry, Event, Time

LEMMA AppendType ==
    ASSUME NEW log \in Seq(Event), NEW e \in Event
    PROVE  Append(log, e) \in Seq(Event) /\ Len(Append(log, e)) = Len(log) + 1
  OBVIOUS

-----------------------------------------------------------------------------
\* Recovery, which runs first in almost every operation.

LEMMA BatchIsExpired == \A target : Batch(target) \subseteq Expired
  BY DEF Batch

\* Recovering expired rows keeps types and consistency, starts nothing and
\* leaves rows outside the batch alone.
LEMMA Recovery ==
    ASSUME TypeOK, AllConsistent, NEW batch \in SUBSET Expired, NEW j \in JobId
    PROVE  LET row == RecoveredJobs(batch)[j]
               log == RecoveredEvents(batch)[j]
           IN  /\ row \in Row
               /\ log \in Seq(Event)
               /\ Consistent(j, row, Len(log))
               /\ row.state = "running" => jobs[j].state = "running" /\ row = jobs[j] /\ log = events[j]
               /\ row.state = "absent" => jobs[j].state = "absent"
               /\ row.state = "queued" => jobs[j].state \in Active
               /\ row.cancelAt = jobs[j].cancelAt
               /\ row.attempt = jobs[j].attempt
  <1> DEFINE row == RecoveredJobs(batch)[j]
             log == RecoveredEvents(batch)[j]
             entry == Entry("lease_expired", "running", AfterExpiry(j), jobs[j].attempt, "registry")
  <1>1. jobs[j] \in Row /\ events[j] \in Seq(Event) /\ clock \in Time
        /\ Consistent(j, jobs[j], Len(events[j])) /\ Len(events[j]) \in Nat
    BY DEF TypeOK, AllConsistent
  <1>2. CASE j \notin batch
    <2>1. row = jobs[j] /\ log = events[j]
      BY <1>2 DEF RecoveredJobs, RecoveredEvents
    <2> QED
      BY <1>1, <2>1 DEF Active
  <1>3. CASE j \in batch
    <2>1. jobs[j].state = "running"
      BY <1>3 DEF Expired, InState
    <2>2. row = ExpireRow(j) /\ log = Append(events[j], entry)
      BY <1>3 DEF RecoveredJobs, RecoveredEvents
    <2>3. AfterExpiry(j) \in {"cancelled", "failed", "queued"}
      BY DEF AfterExpiry
    <2>4. entry \in Event
      BY <1>1, <2>3, EntryType DEF Kinds, JobState, Active, Terminal, Row
    <2>5. log \in Seq(Event) /\ Len(log) = Len(events[j]) + 1
      BY <1>1, <2>2, <2>4, AppendType
    <2>6. /\ row \in Row /\ row.state = AfterExpiry(j)
          /\ row.attempt = jobs[j].attempt /\ row.cancelAt = jobs[j].cancelAt
      <3>1. CASE AfterExpiry(j) = "queued"
        BY <1>1, <2>2, <3>1, RequeuedRow DEF ExpireRow
      <3>2. CASE AfterExpiry(j) = "cancelled"
        <4>1. row = Closed(jobs[j], "cancelled", 0, "none")
          BY <2>2, <3>2 DEF ExpireRow
        <4>2. "cancelled" \in JobState /\ "none" \in Codes /\ 0 \in Nat
          BY DEF JobState, Terminal, Codes
        <4> QED
          BY <1>1, <3>2, <4>1, <4>2, ClosedRow
      <3>3. CASE AfterExpiry(j) = "failed"
        <4>1. row = Closed(jobs[j], "failed", 0, "lease_attempts_exhausted")
          BY <2>2, <3>3 DEF ExpireRow
        <4>2. "failed" \in JobState /\ "lease_attempts_exhausted" \in Codes /\ 0 \in Nat
          BY DEF JobState, Terminal, Codes
        <4> QED
          BY <1>1, <3>3, <4>1, <4>2, ClosedRow
      <3> QED
        BY <2>3, <3>1, <3>2, <3>3
    <2>7. AfterExpiry(j) = "queued" => jobs[j].attempt < MaxAttempts[j] /\ jobs[j].cancelAt = NoTime
      BY <1>1, RequestAssumption DEF AfterExpiry, Row
    <2>8. Consistent(j, row, Len(log))
      <3>1. jobs[j].attempt \in Nat
        BY <1>1 DEF Row
      <3> QED
        BY <1>1, <2>1, <2>3, <2>5, <2>6, <2>7, <3>1 DEF Consistent
    <2> QED
      BY <2>1, <2>3, <2>5, <2>6, <2>8 DEF Active
  <1> QED
    BY <1>2, <1>3

\* The two tables, whatever transaction produced them.
Good(rows, logs) ==
    /\ rows \in [JobId -> Row]
    /\ logs \in [JobId -> Seq(Event)]
    /\ \A j \in JobId : Consistent(j, rows[j], Len(logs[j]))

LEMMA RecoveredGood ==
    ASSUME TypeOK, AllConsistent, NEW batch \in SUBSET Expired
    PROVE  Good(RecoveredJobs(batch), RecoveredEvents(batch))
  <1> DEFINE rows == RecoveredJobs(batch)
             logs == RecoveredEvents(batch)
  <1>1. \A j \in JobId : rows[j] \in Row /\ logs[j] \in Seq(Event)
                         /\ Consistent(j, rows[j], Len(logs[j]))
    BY Recovery
  <1>2. rows = [j \in JobId |-> rows[j]] /\ logs = [j \in JobId |-> logs[j]]
    BY DEF RecoveredJobs, RecoveredEvents
  <1> HIDE DEF rows, logs
  <1>3. rows \in [JobId -> Row] /\ logs \in [JobId -> Seq(Event)]
    BY <1>1, <1>2
  <1> QED
    BY <1>1, <1>3 DEF Good, rows, logs

LEMMA UpdateGood ==
    ASSUME NEW rows, NEW logs, Good(rows, logs), NEW j \in JobId, NEW r \in Row,
           NEW l \in Seq(Event), Consistent(j, r, Len(l))
    PROVE  Good([rows EXCEPT ![j] = r], [logs EXCEPT ![j] = l])
  <1> DEFINE newRows == [rows EXCEPT ![j] = r]
             newLogs == [logs EXCEPT ![j] = l]
  <1>1. newRows \in [JobId -> Row] /\ newLogs \in [JobId -> Seq(Event)]
    BY DEF Good
  <1>2. \A i \in JobId : Consistent(i, newRows[i], Len(newLogs[i]))
    <2> TAKE i \in JobId
    <2>1. CASE i = j
      BY <2>1 DEF Good
    <2>2. CASE i # j
      BY <2>2 DEF Good
    <2> QED
      BY <2>1, <2>2
  <1> QED
    BY <1>1, <1>2 DEF Good

LEMMA UpdateRowGood ==
    ASSUME NEW rows, NEW logs, Good(rows, logs), NEW j \in JobId, NEW r \in Row,
           Consistent(j, r, Len(logs[j]))
    PROVE  Good([rows EXCEPT ![j] = r], logs)
  <1>1. logs = [logs EXCEPT ![j] = logs[j]] /\ logs[j] \in Seq(Event)
    BY DEF Good
  <1> QED
    BY <1>1, UpdateGood

\* What a transaction must establish.
LEMMA StepInv ==
    ASSUME IInv, Good(jobs', events'), clock' \in Time, runs' \subseteq Run,
           retentionPending' \in BOOLEAN,
           retentionPending' => \A j \in JobId : jobs'[j].state # "running"
    PROVE  IInv'
  BY DEF IInv, TypeOK, AllConsistent, Good, RetentionExcludesRunning, InState

-----------------------------------------------------------------------------
\* One lemma per operation.

LEMMA SubmitInv ==
    ASSUME IInv, NEW j \in JobId, Submit(j)
    PROVE  IInv'
  <1> DEFINE r == [NoRow EXCEPT !.state = "queued", !.created = clock, !.updated = clock]
             e == Entry("submitted", "none", "queued", 0, "submitter")
  <1>1. clock \in Nat /\ clock \in Time
    BY BoundsAssumption DEF IInv, TypeOK, Time
  <1>2. NoRow \in Row
    BY DEF NoRow, Row, NoTime, Codes
  <1>3. r \in Row /\ r.state = "queued" /\ r.attempt = 0 /\ r.cancelAt = NoTime
    BY <1>1, <1>2 DEF Row, NoRow, JobState, Active
  <1>4. Good(jobs, events) /\ events[j] \in Seq(Event) /\ Len(events[j]) = 0
    BY DEF IInv, TypeOK, AllConsistent, Good, Submit, Consistent
  <1>5. e \in Event
    BY <1>1, EntryType DEF Kinds, JobState, Active
  <1>6. Append(events[j], e) \in Seq(Event) /\ Len(Append(events[j], e)) = 1
    BY <1>4, <1>5, AppendType
  <1> HIDE DEF r, e
  <1>7. Consistent(j, r, 1)
    BY <1>3, RequestAssumption DEF Consistent
  <1>8. Good(jobs', events')
    <2>1. jobs' = [jobs EXCEPT ![j] = r] /\ events' = [events EXCEPT ![j] = Append(events[j], e)]
      BY DEF Submit, r, e
    <2> QED
      BY <1>3, <1>4, <1>6, <1>7, <2>1, UpdateGood
  <1>9. \A i \in JobId : jobs'[i].state = "running" => jobs[i].state = "running"
    BY <1>3 DEF Submit, r, IInv, TypeOK
  <1> QED
    BY <1>8, <1>9, StepInv DEF Submit, IInv, TypeOK, RetentionExcludesRunning, InState

LEMMA RecoverInv ==
    ASSUME IInv, NEW target \in SUBSET JobId, UNCHANGED <<clock, runs, retentionPending>>,
           jobs' = RecoveredJobs(Batch(target)), events' = RecoveredEvents(Batch(target))
    PROVE  IInv'
  <1>1. Good(jobs', events')
    BY RecoveredGood, BatchIsExpired DEF IInv
  <1>2. \A j \in JobId : jobs'[j].state = "running" => jobs[j].state = "running"
    BY Recovery, BatchIsExpired DEF IInv
  <1> QED
    BY <1>1, <1>2, StepInv DEF IInv, TypeOK, RetentionExcludesRunning, InState

LEMMA ClaimInv ==
    ASSUME IInv, NEW w \in Workers, NEW term \in LeaseTerms, Claim(w, term)
    PROVE  IInv'
  <1> DEFINE rows == RecoveredJobs(Batch({}))
             logs == RecoveredEvents(Batch({}))
  <1>1. Good(rows, logs)
    BY RecoveredGood, BatchIsExpired DEF IInv
  <1>2. ~retentionPending /\ retentionPending' = retentionPending /\ clock' = clock /\ runs' = runs
    BY DEF Claim, ClaimsOpen
  <1>3. clock \in Nat /\ clock \in Time /\ term \in Nat
    BY BoundsAssumption, RequestAssumption, SMTT(30) DEF IInv, TypeOK, Time
  <1>4. Good(jobs', events')
    <2>1. CASE jobs' = rows /\ events' = logs
      BY <1>1, <2>1
    <2>2. ASSUME NEW j \in NextQueued(rows),
                 jobs' = [rows EXCEPT ![j] =
                     [rows[j] EXCEPT !.state = "running", !.attempt = rows[j].attempt + 1,
                                     !.updated = clock, !.heartbeat = clock,
                                     !.owner = w, !.expires = clock + term]],
                 events' = [logs EXCEPT ![j] =
                     Append(logs[j], Entry("claimed", "queued", "running",
                                           rows[j].attempt + 1, w))]
          PROVE  Good(jobs', events')
      <3> DEFINE r == [rows[j] EXCEPT !.state = "running", !.attempt = rows[j].attempt + 1,
                                     !.updated = clock, !.heartbeat = clock,
                                     !.owner = w, !.expires = clock + term]
                 e == Entry("claimed", "queued", "running", rows[j].attempt + 1, w)
      <3> HIDE DEF rows, logs
      <3>1. j \in JobId /\ rows[j].state = "queued"
        BY DEF NextQueued
      <3>2. rows[j] \in Row /\ rows[j].attempt \in Nat /\ logs[j] \in Seq(Event)
            /\ Len(logs[j]) \in Nat /\ Consistent(j, rows[j], Len(logs[j]))
        BY <1>1, <3>1 DEF Good, Row
      <3>3. /\ r \in Row /\ r.state = "running" /\ r.attempt = rows[j].attempt + 1
            /\ r.cancelAt = rows[j].cancelAt
        <4>1. rows[j].attempt + 1 \in Nat /\ clock + term \in Nat
              /\ "running" \in JobState \cup {"absent"} /\ w \in Workers \cup {NoWorker}
          BY <1>3, <3>2 DEF JobState, Active
        <4> QED
          BY <1>3, <3>2, <4>1 DEF Row
      <3>4. e \in Event
        BY <1>3, <3>2, EntryType DEF Kinds, JobState, Active
      <3>5. Append(logs[j], e) \in Seq(Event) /\ Len(Append(logs[j], e)) = Len(logs[j]) + 1
        BY <3>2, <3>4, AppendType
      <3> HIDE DEF r, e
      <3>6. Consistent(j, r, Len(logs[j]) + 1)
        <4>1. MaxAttempts[j] \in Nat
          BY <3>1, RequestAssumption
        <4> QED
          BY <3>1, <3>2, <3>3, <4>1 DEF Consistent
      <3> QED
        BY <1>1, <2>2, <3>1, <3>3, <3>5, <3>6, UpdateGood DEF r, e
    <2> QED
      BY <2>1, <2>2 DEF Claim
  <1> QED
    BY <1>2, <1>4, StepInv DEF IInv, TypeOK

LEMMA LeaseType ==
    \A lease \in IssuedLeases : lease.job \in JobId /\ lease.worker \in Workers
  BY DEF IssuedLeases

LEMMA HeartbeatInv ==
    ASSUME IInv, NEW lease \in IssuedLeases, NEW term \in LeaseTerms, Heartbeat(lease, term)
    PROVE  IInv'
  <1> DEFINE rows == RecoveredJobs(Batch({}))
             logs == RecoveredEvents(Batch({}))
             j == lease.job
             r == [rows[j] EXCEPT !.updated = clock, !.heartbeat = clock, !.expires = clock + term]
  <1>1. Good(rows, logs)
    BY RecoveredGood, BatchIsExpired DEF IInv
  <1>2. j \in JobId
    BY LeaseType
  <1>3. clock \in Nat /\ term \in Nat /\ clock + term \in Nat
    BY BoundsAssumption, RequestAssumption DEF IInv, TypeOK, Time
  <1>4. rows[j] \in Row /\ Consistent(j, rows[j], Len(logs[j])) /\ rows[j].state = "running"
    BY <1>1, <1>2 DEF Good, Heartbeat, Owns
  <1>5. jobs[j].state = "running"
    BY <1>2, <1>4, Recovery, BatchIsExpired DEF IInv
  <1>6. jobs' = [rows EXCEPT ![j] = r] /\ events' = logs
        /\ UNCHANGED <<clock, runs, retentionPending>>
    BY DEF Heartbeat
  <1>7. ~retentionPending
    BY <1>2, <1>5 DEF IInv, RetentionExcludesRunning, InState
  <1> HIDE DEF rows, logs, j
  <1>8. r \in Row /\ r.state = rows[j].state /\ r.attempt = rows[j].attempt
        /\ r.cancelAt = rows[j].cancelAt
    BY <1>3, <1>4 DEF Row
  <1> HIDE DEF r
  <1>9. Consistent(j, r, Len(logs[j]))
    BY <1>4, <1>8 DEF Consistent
  <1>10. Good(jobs', events')
    BY <1>1, <1>2, <1>6, <1>8, <1>9, UpdateRowGood
  <1> QED
    BY <1>6, <1>7, <1>10, StepInv DEF IInv, TypeOK

LEMMA RequestCancelInv ==
    ASSUME IInv, NEW j \in JobId, RequestCancel(j)
    PROVE  IInv'
  <1> DEFINE rows == RecoveredJobs(Batch({j}))
             logs == RecoveredEvents(Batch({j}))
             marked == [rows[j] EXCEPT !.cancelAt = clock, !.updated = clock]
             ended == [marked EXCEPT !.state = "cancelled", !.terminalAt = clock]
             request == Entry("cancel_requested", rows[j].state, rows[j].state,
                              rows[j].attempt, "requester")
             cancel == Entry("cancelled", "queued", "cancelled", rows[j].attempt, "registry")
  <1>1. Good(rows, logs)
    BY RecoveredGood, BatchIsExpired DEF IInv
  <1>2. clock \in Nat /\ clock \in Time /\ clock # NoTime
    BY BoundsAssumption DEF IInv, TypeOK, Time, NoTime
  <1>3. \A i \in JobId : rows[i].state = "running" => jobs[i].state = "running"
    BY Recovery, BatchIsExpired DEF IInv
  <1>4. UNCHANGED <<clock, runs, retentionPending>> /\ rows[j].state # "absent"
    BY DEF RequestCancel
  <1>5. \/ jobs' = rows /\ events' = logs
        \/ /\ ~CancelSettled(rows[j]) /\ rows[j].state # "queued"
           /\ jobs' = [rows EXCEPT ![j] = marked]
           /\ events' = [logs EXCEPT ![j] = Append(logs[j], request)]
        \/ /\ ~CancelSettled(rows[j]) /\ rows[j].state = "queued"
           /\ jobs' = [rows EXCEPT ![j] = ended]
           /\ events' = [logs EXCEPT ![j] = Append(Append(logs[j], request), cancel)]
    BY DEF RequestCancel
  <1> HIDE DEF rows, logs
  <1>6. /\ rows[j] \in Row /\ logs[j] \in Seq(Event) /\ Len(logs[j]) \in Nat
        /\ Consistent(j, rows[j], Len(logs[j]))
        /\ rows[j].attempt \in Nat /\ rows[j].state \in JobState
        /\ rows \in [JobId -> Row]
    <2>1. /\ rows \in [JobId -> Row] /\ logs \in [JobId -> Seq(Event)]
          /\ Consistent(j, rows[j], Len(logs[j]))
      BY <1>1 DEF Good
    <2>2. rows[j] \in Row /\ logs[j] \in Seq(Event) /\ Len(logs[j]) \in Nat
      BY <2>1
    <2>3. rows[j].attempt \in Nat /\ rows[j].state \in JobState
      BY <1>4, <2>2 DEF Row
    <2> QED
      BY <2>1, <2>2, <2>3
  <1>7. /\ marked \in Row /\ marked.state = rows[j].state /\ marked.attempt = rows[j].attempt
        /\ marked.cancelAt = clock
    BY <1>2, <1>6 DEF Row
  <1>8. request \in Event /\ cancel \in Event
    BY <1>2, <1>6, EntryType DEF Kinds, JobState, Active, Terminal
  <1> HIDE DEF marked, request, cancel
  <1>9. ended \in Row /\ ended.state = "cancelled" /\ ended.attempt = rows[j].attempt
    BY <1>2, <1>7 DEF Row, JobState, Terminal
  <1> HIDE DEF ended
  <1>10. Good(jobs', events')
    <2>1. CASE jobs' = rows /\ events' = logs
      BY <1>1, <2>1
    <2>2. CASE /\ ~CancelSettled(rows[j]) /\ rows[j].state # "queued"
               /\ jobs' = [rows EXCEPT ![j] = marked]
               /\ events' = [logs EXCEPT ![j] = Append(logs[j], request)]
      <3>1. rows[j].state = "running" /\ rows[j].cancelAt = NoTime
        BY <1>6, <2>2 DEF CancelSettled, JobState, Active
      <3>2. Append(logs[j], request) \in Seq(Event)
            /\ Len(Append(logs[j], request)) = Len(logs[j]) + 1
        BY <1>6, <1>8, AppendType
      <3>3. Consistent(j, marked, Len(logs[j]) + 1)
        BY <1>2, <1>6, <1>7, <3>1 DEF Consistent
      <3> QED
        BY <1>1, <1>7, <2>2, <3>2, <3>3, UpdateGood
    <2>3. CASE /\ ~CancelSettled(rows[j]) /\ rows[j].state = "queued"
               /\ jobs' = [rows EXCEPT ![j] = ended]
               /\ events' = [logs EXCEPT ![j] = Append(Append(logs[j], request), cancel)]
      <3>1. Append(Append(logs[j], request), cancel) \in Seq(Event)
        BY <1>6, <1>8, AppendType
      <3>2. Consistent(j, ended, Len(Append(Append(logs[j], request), cancel)))
        BY <1>6, <1>9 DEF Consistent
      <3> QED
        BY <1>1, <1>9, <2>3, <3>1, <3>2, UpdateGood
    <2> QED
      BY <1>5, <2>1, <2>2, <2>3
  <1>11. \A i \in JobId : jobs'[i].state = "running" => jobs[i].state = "running"
    BY <1>3, <1>5, <1>6, <1>7, <1>9
  <1> QED
    BY <1>4, <1>10, <1>11, StepInv DEF IInv, TypeOK, RetentionExcludesRunning, InState

\* The three explicit closures differ only in the row they leave.
LEMMA CloseAttemptInv ==
    ASSUME IInv, NEW lease \in IssuedLeases, NEW kind \in Kinds, NEW status \in RunStatus,
           NEW closed \in Row, closed.state \in JobState \ {"running"},
           CloseAttempt(lease, kind, status, closed),
           \A n \in Nat : Consistent(lease.job, jobs[lease.job], n)
                          /\ jobs[lease.job].state = "running"
                          => Consistent(lease.job, closed, n + 1)
    PROVE  IInv'
  <1> DEFINE rows == RecoveredJobs(Batch({}))
             logs == RecoveredEvents(Batch({}))
             j == lease.job
             e == Entry(kind, "running", closed.state, rows[j].attempt, lease.worker)
  <1>1. Good(rows, logs)
    BY RecoveredGood, BatchIsExpired DEF IInv
  <1>2. j \in JobId /\ lease.worker \in Workers
    BY LeaseType
  <1>3. clock \in Nat /\ clock \in Time
    BY BoundsAssumption DEF IInv, TypeOK, Time
  <1>4. rows[j].state = "running"
    BY DEF CloseAttempt, Owns
  <1>5. jobs[j].state = "running" /\ rows[j] = jobs[j] /\ logs[j] = events[j]
    BY <1>2, <1>4, Recovery, BatchIsExpired DEF IInv
  <1>6. /\ jobs' = [rows EXCEPT ![j] = closed]
        /\ events' = [logs EXCEPT ![j] = Append(logs[j], e)]
        /\ runs' = runs \cup {NewRun(rows, lease, status)}
        /\ UNCHANGED <<clock, retentionPending>>
    BY DEF CloseAttempt
  <1>7. ~retentionPending
    BY <1>2, <1>5 DEF IInv, RetentionExcludesRunning, InState
  <1> HIDE DEF rows, logs
  <1>8. rows[j] \in Row /\ rows[j].attempt \in Nat /\ logs[j] \in Seq(Event)
        /\ Len(logs[j]) \in Nat /\ Consistent(j, rows[j], Len(logs[j]))
    <2> HIDE DEF j
    <2>1. rows[j] \in Row /\ logs[j] \in Seq(Event) /\ Consistent(j, rows[j], Len(logs[j]))
      BY <1>1, <1>2 DEF Good
    <2> QED
      BY <2>1, FieldTypes
  <1>9. e \in Event
    <2>1. "running" \in JobState \cup {"none"}
      BY DEF JobState, Active
    <2> QED
      BY <1>2, <1>3, <1>8, <2>1, EntryType
  <1> HIDE DEF e
  <1>10. Append(logs[j], e) \in Seq(Event) /\ Len(Append(logs[j], e)) = Len(logs[j]) + 1
    BY <1>8, <1>9, AppendType
  <1>11. Consistent(j, closed, Len(logs[j]) + 1)
    BY <1>5, <1>8
  <1>12. Good(jobs', events')
    BY <1>1, <1>2, <1>6, <1>10, <1>11, UpdateGood
  <1>13. NewRun(rows, lease, status) \in Run
    BY <1>2, <1>3, <1>8 DEF NewRun, Run
  <1> QED
    BY <1>6, <1>7, <1>12, <1>13, StepInv DEF IInv, TypeOK

LEMMA ClosingRows ==
    ASSUME IInv, NEW j \in JobId
    PROVE  /\ \A s \in Terminal, r \in Nat, c \in Codes :
                /\ Closed(jobs[j], s, r, c) \in Row
                /\ Closed(jobs[j], s, r, c).state \in JobState \ {"running"}
                /\ \A n \in Nat : Consistent(j, jobs[j], n)
                                  => Consistent(j, Closed(jobs[j], s, r, c), n + 1)
           /\ Requeued(jobs[j]) \in Row
           /\ Requeued(jobs[j]).state \in JobState \ {"running"}
           /\ \A n \in Nat : /\ Consistent(j, jobs[j], n) /\ jobs[j].state = "running"
                             /\ AttemptsRemain(j) /\ jobs[j].cancelAt = NoTime
                             => Consistent(j, Requeued(jobs[j]), n + 1)
  <1>1. jobs[j] \in Row /\ jobs[j].attempt \in Nat /\ clock \in Time
    BY DEF IInv, TypeOK, Row
  <1>2. MaxAttempts[j] \in Nat
    BY RequestAssumption
  <1>3. Terminal \subseteq JobState \ {"running", "queued"}
    BY DEF Terminal, JobState, Active
  <1>4. ASSUME NEW s \in Terminal, NEW r \in Nat, NEW c \in Codes
        PROVE  /\ Closed(jobs[j], s, r, c) \in Row
               /\ Closed(jobs[j], s, r, c).state \in JobState \ {"running"}
               /\ \A n \in Nat : Consistent(j, jobs[j], n)
                                 => Consistent(j, Closed(jobs[j], s, r, c), n + 1)
    <2>1. /\ Closed(jobs[j], s, r, c) \in Row
          /\ Closed(jobs[j], s, r, c).state = s
          /\ Closed(jobs[j], s, r, c).attempt = jobs[j].attempt
      BY <1>1, <1>3, ClosedRow
    <2>2. s # "absent" /\ s # "queued" /\ s # "running"
      BY DEF Terminal
    <2> QED
      BY <1>3, <2>1, <2>2 DEF Consistent
  <1>5. /\ Requeued(jobs[j]) \in Row
        /\ Requeued(jobs[j]).state = "queued"
        /\ Requeued(jobs[j]).attempt = jobs[j].attempt
        /\ Requeued(jobs[j]).cancelAt = jobs[j].cancelAt
    BY <1>1, RequeuedRow
  <1>6. \A n \in Nat : /\ Consistent(j, jobs[j], n) /\ jobs[j].state = "running"
                       /\ AttemptsRemain(j) /\ jobs[j].cancelAt = NoTime
                       => Consistent(j, Requeued(jobs[j]), n + 1)
    BY <1>1, <1>2, <1>5 DEF Consistent, AttemptsRemain
  <1> QED
    BY <1>4, <1>5, <1>6 DEF JobState, Active

LEMMA FailInv ==
    ASSUME IInv, NEW lease \in IssuedLeases, NEW retryable \in BOOLEAN, Fail(lease, retryable)
    PROVE  IInv'
  <1>1. lease.job \in JobId /\ "failed" \in RunStatus /\ "cancelled" \in RunStatus
        /\ {"cancelled", "retried", "failed"} \subseteq Kinds
        /\ {"cancelled", "failed"} \subseteq Terminal /\ {"none", "reported"} \subseteq Codes
    BY LeaseType DEF RunStatus, Kinds, Terminal, Codes
  <1>2. CASE CloseAttempt(lease, "cancelled", "cancelled", CancelledRow(lease.job))
    BY <1>1, <1>2, ClosingRows, CloseAttemptInv DEF CancelledRow
  <1>3. CASE CloseAttempt(lease, "failed", "failed", FailedRow(lease.job))
    BY <1>1, <1>3, ClosingRows, CloseAttemptInv DEF FailedRow
  <1>4. CASE /\ ~CancelRequested(lease) /\ AttemptsRemain(lease.job)
             /\ CloseAttempt(lease, "retried", "failed", Requeued(jobs[lease.job]))
    BY <1>1, <1>4, ClosingRows, CloseAttemptInv DEF CancelRequested
  <1> QED
    BY <1>2, <1>3, <1>4 DEF Fail

LEMMA CompleteInv ==
    ASSUME IInv, NEW lease \in IssuedLeases, Complete(lease) \/ AcknowledgeCancel(lease)
    PROVE  IInv'
  <1>1. lease.job \in JobId /\ "succeeded" \in RunStatus /\ "cancelled" \in RunStatus
        /\ {"cancelled", "succeeded"} \subseteq Kinds
        /\ {"cancelled", "succeeded"} \subseteq Terminal /\ "none" \in Codes
    BY LeaseType DEF RunStatus, Kinds, Terminal, Codes
  <1>2. jobs[lease.job].attempt \in Nat
    BY <1>1 DEF IInv, TypeOK, Row
  <1>3. CASE Complete(lease)
    <2>1. CloseAttempt(lease, "succeeded", "succeeded", SucceededRow(lease.job))
      BY <1>3 DEF Complete
    <2> QED
      BY <1>1, <1>2, <2>1, ClosingRows, CloseAttemptInv DEF SucceededRow
  <1>4. CASE AcknowledgeCancel(lease)
    <2>1. CloseAttempt(lease, "cancelled", "cancelled", CancelledRow(lease.job))
      BY <1>4 DEF AcknowledgeCancel
    <2> QED
      BY <1>1, <2>1, ClosingRows, CloseAttemptInv DEF CancelledRow
  <1> QED
    BY <1>3, <1>4

\* Retention intent and the clock leave the tables alone.
LEMMA EnvironmentInv ==
    ASSUME IInv, StageRetention \/ FinishRetention \/ Tick \/ ClockRegress
    PROVE  IInv'
  <1>1. Good(jobs', events') /\ runs' = runs
    BY DEF IInv, TypeOK, AllConsistent, Good, StageRetention, FinishRetention, Tick, ClockRegress
  <1>2. clock' \in Time
    BY BoundsAssumption DEF IInv, TypeOK, Time, StageRetention, FinishRetention, Tick, ClockRegress
  <1>3. retentionPending' \in BOOLEAN
        /\ (retentionPending' => \A j \in JobId : jobs'[j].state # "running")
    <2>1. CASE StageRetention
      BY <2>1 DEF StageRetention, InState
    <2>2. CASE FinishRetention
      BY <2>2 DEF FinishRetention
    <2>3. CASE Tick \/ ClockRegress
      BY <2>3 DEF IInv, TypeOK, RetentionExcludesRunning, InState, Tick, ClockRegress
    <2> QED
      BY <2>1, <2>2, <2>3
  <1> QED
    BY <1>1, <1>2, <1>3, StepInv DEF IInv, TypeOK

LEMMA NextInv ==
    ASSUME IInv, [Next]_vars
    PROVE  IInv'
  <1>1. CASE UNCHANGED vars
    BY <1>1 DEF vars, IInv, TypeOK, AllConsistent, RetentionExcludesRunning, InState
  <1>2. ASSUME NEW j \in JobId, Submit(j) \/ RequestCancel(j) PROVE IInv'
    BY <1>2, SubmitInv, RequestCancelInv
  <1>3. ASSUME NEW w \in Workers, NEW term \in LeaseTerms, Claim(w, term) PROVE IInv'
    BY <1>3, ClaimInv
  <1>4. ASSUME NEW lease \in IssuedLeases, NEW term \in LeaseTerms, Heartbeat(lease, term)
        PROVE  IInv'
    BY <1>4, HeartbeatInv
  <1>5. ASSUME NEW lease \in IssuedLeases, AcknowledgeCancel(lease) \/ Complete(lease)
        PROVE  IInv'
    BY <1>5, CompleteInv
  <1>6. ASSUME NEW lease \in IssuedLeases, NEW retryable \in BOOLEAN, Fail(lease, retryable)
        PROVE  IInv'
    BY <1>6, FailInv
  <1>7. CASE RecoverExpired
    BY <1>7, RecoverInv DEF RecoverExpired
  <1>8. CASE StageRetention \/ FinishRetention \/ Tick \/ ClockRegress
    BY <1>8, EnvironmentInv
  <1> QED
    BY <1>1, <1>2, <1>3, <1>4, <1>5, <1>6, <1>7, <1>8 DEF Next

LEMMA InitInv == Init => IInv
  <1> SUFFICES ASSUME Init PROVE IInv
    OBVIOUS
  <1>1. NoRow \in Row /\ NoRow.state = "absent" /\ NoRow.attempt = 0 /\ NoRow.cancelAt = NoTime
    BY DEF NoRow, Row, NoTime, Codes
  <1>2. TypeOK
    <2>1. jobs \in [JobId -> Row] /\ events \in [JobId -> Seq(Event)]
      BY <1>1 DEF Init
    <2>2. clock \in Time
      BY BoundsAssumption DEF Init, Time
    <2>3. runs \subseteq Run /\ retentionPending \in BOOLEAN
      BY DEF Init
    <2> QED
      BY <2>1, <2>2, <2>3 DEF TypeOK
  <1>3. AllConsistent
    BY <1>1, RequestAssumption DEF Init, AllConsistent, Consistent
  <1> QED
    BY <1>2, <1>3 DEF IInv, Init, RetentionExcludesRunning

-----------------------------------------------------------------------------
\* IInv holds of every reachable state of the registry, for any number of jobs,
\* workers, attempts and any limits RegistryLimits admits.
THEOREM Invariance == Spec => []IInv
  BY InitInv, NextInv, PTL DEF Spec

\* The tables stay in their domains (the CHECK constraints of the DDL never fire).
THEOREM TypeCorrect == Spec => []TypeOK
  <1>1. IInv => TypeOK
    BY DEF IInv
  <1> QED
    BY <1>1, Invariance, PTL

\* No attempt runs while retention intent is pending.
THEOREM RetentionSafe == Spec => []RetentionExcludesRunning
  <1>1. IInv => RetentionExcludesRunning
    BY DEF IInv
  <1> QED
    BY <1>1, Invariance, PTL

\* An event log never fills up under an active job, whatever max_attempts is, as
\* long as max_events_per_job is at least 2 * max_attempts + 2.
THEOREM NeverStranded == Spec => []RoomToFinish
  <1>1. ASSUME IInv, NEW j \in InState(Active)
        PROVE  Len(events[j]) + (IF jobs[j].state = "queued" THEN 3
                                 ELSE IF jobs[j].cancelAt = NoTime THEN 2 ELSE 1) <= MaxEvents
    <2>1. j \in JobId /\ jobs[j].state \in {"queued", "running"}
      BY DEF InState, Active
    <2>2. jobs[j].attempt \in Nat /\ Len(events[j]) \in Nat
          /\ Consistent(j, jobs[j], Len(events[j]))
      BY <1>1, <2>1 DEF IInv, TypeOK, AllConsistent, Row
    <2>3. MaxAttempts[j] \in Nat /\ MaxEvents \in Nat /\ MaxEvents >= 2 * MaxAttempts[j] + 2
      BY <2>1, RequestAssumption, LimitAssumption
    <2>4. CASE jobs[j].state = "queued"
      BY <2>2, <2>3, <2>4 DEF Consistent
    <2>5. CASE jobs[j].state = "running" /\ jobs[j].cancelAt = NoTime
      BY <2>2, <2>3, <2>5 DEF Consistent
    <2>6. CASE jobs[j].state = "running" /\ jobs[j].cancelAt # NoTime
      BY <2>2, <2>3, <2>6 DEF Consistent
    <2> QED
      BY <2>1, <2>4, <2>5, <2>6
  <1>2. IInv => RoomToFinish
    BY <1>1 DEF RoomToFinish
  <1> QED
    BY <1>2, Invariance, PTL

-----------------------------------------------------------------------------
\* Refinement of JobLifecycle, row by row, and finality of terminal rows.

Same(old, new) ==
    new.attempt = old.attempt /\ (new.cancelAt = NoTime <=> old.cancelAt = NoTime)

\* JobLifecycle's steps and stutters, said of two versions of a row.
RowMove(j, old, new) ==
    \/ Same(old, new) /\ new.state = old.state
    \/ Same(old, new) /\ old.state = "absent" /\ new.state = "queued"
    \/ /\ old.state \in {"queued", "running"} /\ new.state = "running"
       /\ old.cancelAt = NoTime /\ new.cancelAt = NoTime
       /\ old.attempt < MaxAttempts[j] /\ new.attempt = old.attempt + 1
    \/ /\ Same(old, new) /\ old.cancelAt = NoTime /\ old.attempt < MaxAttempts[j]
       /\ old.state = "running" /\ new.state = "queued"
    \/ /\ old.state = "running" /\ new.state = "running" /\ new.attempt = old.attempt
       /\ old.cancelAt = NoTime /\ new.cancelAt # NoTime
    \/ /\ old.state \in {"queued", "running"} /\ new.state = "cancelled"
       /\ new.attempt = old.attempt /\ new.cancelAt # NoTime
    \/ /\ Same(old, new) /\ old.cancelAt = NoTime
       /\ old.state = "running" /\ new.state \in {"succeeded", "failed"}

Final(j) ==
    jobs[j].state \in Terminal =>
        /\ jobs'[j] = jobs[j] /\ events'[j] = events[j]
        /\ {r \in runs' : r.job = j} = {r \in runs : r.job = j}

Lawful == \A j \in JobId : RowMove(j, jobs[j], jobs'[j]) /\ Final(j)

LEMMA RecoveredMove ==
    ASSUME IInv, NEW batch \in SUBSET Expired, NEW j \in JobId
    PROVE  /\ RowMove(j, jobs[j], RecoveredJobs(batch)[j])
           /\ jobs[j].state # "running" => /\ RecoveredJobs(batch)[j] = jobs[j]
                                           /\ RecoveredEvents(batch)[j] = events[j]
  <1>1. CASE j \notin batch
    BY <1>1 DEF RecoveredJobs, RecoveredEvents, RowMove, Same
  <1>2. CASE j \in batch
    <2>1. jobs[j].state = "running" /\ jobs[j] \in Row /\ clock \in Time
      BY <1>2 DEF Expired, InState, IInv, TypeOK
    <2>2. RecoveredJobs(batch)[j] = ExpireRow(j)
      BY <1>2 DEF RecoveredJobs
    <2>3. CASE jobs[j].cancelAt # NoTime
      <3>1. AfterExpiry(j) = "cancelled"
        BY <2>3 DEF AfterExpiry
      <3>2. ExpireRow(j) = Closed(jobs[j], "cancelled", 0, "none")
        BY <3>1 DEF ExpireRow
      <3>3. "cancelled" \in JobState /\ "none" \in Codes /\ 0 \in Nat
        BY DEF JobState, Terminal, Codes
      <3>4. LET row == Closed(jobs[j], "cancelled", 0, "none")
            IN  row.state = "cancelled" /\ row.attempt = jobs[j].attempt
                /\ row.cancelAt = jobs[j].cancelAt
        BY <2>1, <3>3, ClosedRow
      <3>5. /\ ExpireRow(j).state = "cancelled" /\ ExpireRow(j).attempt = jobs[j].attempt
            /\ ExpireRow(j).cancelAt = jobs[j].cancelAt
        BY <3>2, <3>4
      <3> QED
        BY <2>1, <2>2, <2>3, <3>5 DEF RowMove
    <2>4. CASE jobs[j].cancelAt = NoTime /\ jobs[j].attempt >= MaxAttempts[j]
      <3>1. AfterExpiry(j) = "failed"
        BY <2>4 DEF AfterExpiry
      <3>2. ExpireRow(j) = Closed(jobs[j], "failed", 0, "lease_attempts_exhausted")
        BY <3>1 DEF ExpireRow
      <3>3. "failed" \in JobState /\ "lease_attempts_exhausted" \in Codes /\ 0 \in Nat
        BY DEF JobState, Terminal, Codes
      <3>4. LET row == Closed(jobs[j], "failed", 0, "lease_attempts_exhausted")
            IN  row.state = "failed" /\ row.attempt = jobs[j].attempt
                /\ row.cancelAt = jobs[j].cancelAt
        BY <2>1, <3>3, ClosedRow
      <3>5. /\ ExpireRow(j).state = "failed" /\ ExpireRow(j).attempt = jobs[j].attempt
            /\ ExpireRow(j).cancelAt = jobs[j].cancelAt
        BY <3>2, <3>4
      <3> QED
        BY <2>1, <2>2, <2>4, <3>5 DEF RowMove, Same
    <2>5. CASE jobs[j].cancelAt = NoTime /\ ~(jobs[j].attempt >= MaxAttempts[j])
      <3>1. AfterExpiry(j) = "queued"
        BY <2>5 DEF AfterExpiry
      <3>2. ExpireRow(j) = Requeued(jobs[j])
        BY <3>1 DEF ExpireRow
      <3>3. /\ ExpireRow(j).state = "queued" /\ ExpireRow(j).attempt = jobs[j].attempt
            /\ ExpireRow(j).cancelAt = jobs[j].cancelAt
        BY <2>1, <3>2, RequeuedRow
      <3>4. jobs[j].attempt < MaxAttempts[j]
        BY <2>1, <2>5, FieldTypes, RequestAssumption
      <3> QED
        BY <2>1, <2>2, <2>5, <3>3, <3>4 DEF RowMove, Same
    <2> QED
      BY <2>1, <2>3, <2>4, <2>5
  <1> QED
    BY <1>1, <1>2

\* A transaction that recovers, then rewrites the row of one job that is not terminal.
LEMMA LawfulUpdate ==
    ASSUME IInv, NEW batch \in SUBSET Expired, NEW j \in JobId, NEW r,
           jobs' = [RecoveredJobs(batch) EXCEPT ![j] = r],
           \A i \in JobId : i # j => events'[i] = RecoveredEvents(batch)[i],
           \A i \in JobId : i # j => {x \in runs' : x.job = i} = {x \in runs : x.job = i},
           RowMove(j, jobs[j], r), jobs[j].state \notin Terminal
    PROVE  Lawful
  <1>1. \A i \in JobId : i # j => jobs'[i] = RecoveredJobs(batch)[i]
    BY DEF RecoveredJobs
  <1>2. jobs'[j] = r
    BY DEF RecoveredJobs
  <1>3. ASSUME NEW i \in JobId PROVE RowMove(i, jobs[i], jobs'[i]) /\ Final(i)
    <2>1. CASE i = j
      BY <1>2, <2>1 DEF Final
    <2>2. CASE i # j
      BY <1>1, <2>2, RecoveredMove DEF Final, Terminal
    <2> QED
      BY <2>1, <2>2
  <1> QED
    BY <1>3 DEF Lawful

LEMMA LawfulRecovery ==
    ASSUME IInv, NEW batch \in SUBSET Expired, runs' = runs,
           jobs' = RecoveredJobs(batch), events' = RecoveredEvents(batch)
    PROVE  Lawful
  BY RecoveredMove DEF Lawful, Final, Terminal

LEMMA SubmitLawful ==
    ASSUME IInv, NEW j \in JobId, Submit(j)
    PROVE  Lawful
  <1> DEFINE r == [NoRow EXCEPT !.state = "queued", !.created = clock, !.updated = clock]
  <1>1. r.state = "queued" /\ r.attempt = 0 /\ r.cancelAt = NoTime
    BY DEF NoRow
  <1>2. jobs' = [jobs EXCEPT ![j] = r] /\ jobs[j].state = "absent" /\ runs' = runs
        /\ \A i \in JobId : i # j => events'[i] = events[i]
    BY DEF Submit, IInv, TypeOK
  <1> HIDE DEF r
  <1>3. jobs[j].attempt = 0 /\ jobs[j].cancelAt = NoTime /\ jobs \in [JobId -> Row]
    BY <1>2 DEF IInv, TypeOK, AllConsistent, Consistent
  <1>4. ASSUME NEW i \in JobId PROVE RowMove(i, jobs[i], jobs'[i]) /\ Final(i)
    <2>1. CASE i = j
      BY <1>1, <1>2, <1>3, <2>1 DEF RowMove, Same, Final, Terminal
    <2>2. CASE i # j
      BY <1>2, <1>3, <2>2, SMTT(30) DEF RowMove, Same, Final
    <2> QED
      BY <2>1, <2>2
  <1> QED
    BY <1>4 DEF Lawful

LEMMA ClaimLawful ==
    ASSUME IInv, NEW w \in Workers, NEW term \in LeaseTerms, Claim(w, term)
    PROVE  Lawful
  <1> DEFINE rows == RecoveredJobs(Batch({}))
             logs == RecoveredEvents(Batch({}))
  <1>1. runs' = runs /\ Batch({}) \in SUBSET Expired
    BY BatchIsExpired DEF Claim
  <1>2. CASE jobs' = rows /\ events' = logs
    BY <1>1, <1>2, LawfulRecovery
  <1>3. ASSUME NEW j \in NextQueued(rows), NEW e,
               jobs' = [rows EXCEPT ![j] =
                     [rows[j] EXCEPT !.state = "running", !.attempt = rows[j].attempt + 1,
                                     !.updated = clock, !.heartbeat = clock,
                                     !.owner = w, !.expires = clock + term]],
               events' = [logs EXCEPT ![j] = e]
        PROVE  Lawful
    <2> DEFINE r == [rows[j] EXCEPT !.state = "running", !.attempt = rows[j].attempt + 1,
                                    !.updated = clock, !.heartbeat = clock,
                                    !.owner = w, !.expires = clock + term]
    <2>1. j \in JobId /\ rows[j].state = "queued"
      BY DEF NextQueued
    <2>2. /\ rows[j] \in Row /\ Consistent(j, rows[j], Len(logs[j]))
          /\ jobs[j].state \in Active
          /\ rows[j].attempt = jobs[j].attempt /\ rows[j].cancelAt = jobs[j].cancelAt
      BY <1>1, <2>1, Recovery DEF IInv
    <2>3. \A i \in JobId : i # j => events'[i] = logs[i]
      BY <1>3 DEF RecoveredEvents
    <2> HIDE DEF rows, logs
    <2>4. /\ r.state = "running" /\ r.attempt = rows[j].attempt + 1
          /\ r.cancelAt = rows[j].cancelAt
      BY <2>2 DEF Row
    <2> HIDE DEF r
    <2>5. RowMove(j, jobs[j], r)
      BY <2>1, <2>2, <2>4 DEF RowMove, Consistent, Active
    <2> QED
      BY <1>1, <1>3, <2>1, <2>2, <2>3, <2>5, LawfulUpdate DEF r, rows, logs, Active, Terminal
  <1> QED
    BY <1>2, <1>3 DEF Claim

LEMMA HeartbeatLawful ==
    ASSUME IInv, NEW lease \in IssuedLeases, NEW term \in LeaseTerms, Heartbeat(lease, term)
    PROVE  Lawful
  <1> DEFINE rows == RecoveredJobs(Batch({}))
             r == [rows[lease.job] EXCEPT !.updated = clock, !.heartbeat = clock,
                                          !.expires = clock + term]
  <1>1. lease.job \in JobId /\ Batch({}) \in SUBSET Expired
    BY LeaseType, BatchIsExpired
  <1>2. rows[lease.job].state = "running" /\ runs' = runs
        /\ jobs' = [rows EXCEPT ![lease.job] = r] /\ events' = RecoveredEvents(Batch({}))
    BY DEF Heartbeat, Owns
  <1>3. rows[lease.job] = jobs[lease.job] /\ jobs[lease.job] \in Row
    BY <1>1, <1>2, Recovery DEF IInv, TypeOK
  <1> HIDE DEF rows
  <1>4. r.state = "running" /\ r.attempt = jobs[lease.job].attempt
        /\ r.cancelAt = jobs[lease.job].cancelAt
    BY <1>2, <1>3 DEF Row
  <1> HIDE DEF r
  <1>5. RowMove(lease.job, jobs[lease.job], r)
    BY <1>2, <1>3, <1>4 DEF RowMove, Same
  <1> QED
    BY <1>1, <1>2, <1>3, <1>5, LawfulUpdate DEF rows, Terminal

LEMMA RequestCancelLawful ==
    ASSUME IInv, NEW j \in JobId, RequestCancel(j)
    PROVE  Lawful
  <1> DEFINE rows == RecoveredJobs(Batch({j}))
             logs == RecoveredEvents(Batch({j}))
             marked == [rows[j] EXCEPT !.cancelAt = clock, !.updated = clock]
             ended == [marked EXCEPT !.state = "cancelled", !.terminalAt = clock]
  <1>1. Batch({j}) \in SUBSET Expired /\ runs' = runs
    BY BatchIsExpired DEF RequestCancel
  <1>2. clock # NoTime
    BY BoundsAssumption DEF IInv, TypeOK, Time, NoTime
  <1>3. \/ jobs' = rows /\ events' = logs
        \/ /\ ~CancelSettled(rows[j]) /\ rows[j].state \notin {"queued", "absent"}
           /\ jobs' = [rows EXCEPT ![j] = marked]
           /\ \E e : events' = [logs EXCEPT ![j] = e]
        \/ /\ ~CancelSettled(rows[j]) /\ rows[j].state = "queued"
           /\ jobs' = [rows EXCEPT ![j] = ended]
           /\ \E e : events' = [logs EXCEPT ![j] = e]
    BY DEF RequestCancel
  <1>4. /\ rows[j] \in Row /\ rows[j].attempt = jobs[j].attempt
        /\ rows[j].cancelAt = jobs[j].cancelAt
        /\ rows[j].state = "running" => jobs[j].state = "running"
        /\ rows[j].state = "queued" => jobs[j].state \in Active
    BY <1>1, Recovery DEF IInv
  <1>5. CASE jobs' = rows /\ events' = logs
    BY <1>1, <1>5, LawfulRecovery
  <1>6. ASSUME NEW e, events' = [logs EXCEPT ![j] = e]
        PROVE  \A i \in JobId : i # j => events'[i] = logs[i]
    BY <1>6 DEF RecoveredEvents
  <1> HIDE DEF rows, logs
  <1>7. /\ marked.state = rows[j].state /\ marked.attempt = jobs[j].attempt
        /\ marked.cancelAt = clock
        /\ ended.state = "cancelled" /\ ended.attempt = jobs[j].attempt
        /\ ended.cancelAt = clock
    BY <1>4 DEF Row
  <1> HIDE DEF marked, ended
  <1>8. CASE /\ ~CancelSettled(rows[j]) /\ rows[j].state \notin {"queued", "absent"}
             /\ jobs' = [rows EXCEPT ![j] = marked]
             /\ \E e : events' = [logs EXCEPT ![j] = e]
    <2>1. rows[j].state = "running" /\ jobs[j].state = "running" /\ jobs[j].cancelAt = NoTime
      BY <1>4, <1>8 DEF CancelSettled, Row, JobState, Active
    <2>2. RowMove(j, jobs[j], marked)
      BY <1>2, <1>7, <2>1 DEF RowMove
    <2> QED
      BY <1>1, <1>6, <1>8, <2>1, <2>2, LawfulUpdate DEF rows, logs, Terminal
  <1>9. CASE /\ ~CancelSettled(rows[j]) /\ rows[j].state = "queued"
             /\ jobs' = [rows EXCEPT ![j] = ended]
             /\ \E e : events' = [logs EXCEPT ![j] = e]
    <2>1. jobs[j].state \in Active
      BY <1>4, <1>9
    <2>2. RowMove(j, jobs[j], ended)
      BY <1>2, <1>7, <2>1 DEF RowMove, Active
    <2> QED
      BY <1>1, <1>6, <1>9, <2>1, <2>2, LawfulUpdate DEF rows, logs, Terminal, Active
  <1> QED
    BY <1>3, <1>5, <1>8, <1>9

LEMMA CloseAttemptLawful ==
    ASSUME IInv, NEW lease \in IssuedLeases, NEW kind, NEW status, NEW closed,
           CloseAttempt(lease, kind, status, closed),
           jobs[lease.job].state = "running" => RowMove(lease.job, jobs[lease.job], closed)
    PROVE  Lawful
  <1> DEFINE rows == RecoveredJobs(Batch({}))
             logs == RecoveredEvents(Batch({}))
  <1>1. lease.job \in JobId /\ Batch({}) \in SUBSET Expired
    BY LeaseType, BatchIsExpired
  <1>2. rows[lease.job].state = "running" /\ jobs' = [rows EXCEPT ![lease.job] = closed]
    BY DEF CloseAttempt, Owns
  <1>3. jobs[lease.job].state = "running"
    BY <1>1, <1>2, Recovery DEF IInv
  <1>4. \A i \in JobId : i # lease.job => events'[i] = logs[i]
    BY DEF CloseAttempt, RecoveredEvents
  <1>5. \A i \in JobId : i # lease.job => {x \in runs' : x.job = i} = {x \in runs : x.job = i}
    <2>1. runs' = runs \cup {NewRun(rows, lease, status)}
          /\ NewRun(rows, lease, status).job = lease.job
      BY DEF CloseAttempt, NewRun
    <2> HIDE DEF rows
    <2> QED
      BY <2>1
  <1> QED
    BY <1>1, <1>2, <1>3, <1>4, <1>5, LawfulUpdate DEF Terminal

LEMMA ClosureLawful ==
    ASSUME IInv, NEW lease \in IssuedLeases,
           \/ AcknowledgeCancel(lease) \/ Complete(lease)
           \/ \E retryable \in BOOLEAN : Fail(lease, retryable)
    PROVE  Lawful
  <1> DEFINE j == lease.job
  <1>1. j \in JobId /\ jobs[j] \in Row /\ clock \in Time /\ jobs[j].attempt \in Nat
    BY LeaseType, FieldTypes DEF IInv, TypeOK
  <1>2. CASE CancelRequested(lease)
             /\ CloseAttempt(lease, "cancelled", "cancelled", CancelledRow(j))
    <2>1. "cancelled" \in JobState /\ "none" \in Codes /\ 0 \in Nat
      BY DEF JobState, Terminal, Codes
    <2>2. LET row == Closed(jobs[j], "cancelled", 0, "none")
          IN  row.state = "cancelled" /\ row.attempt = jobs[j].attempt /\ row.cancelAt = jobs[j].cancelAt
      BY <1>1, <2>1, ClosedRow
    <2>3. /\ CancelledRow(j).state = "cancelled" /\ CancelledRow(j).attempt = jobs[j].attempt
          /\ CancelledRow(j).cancelAt = jobs[j].cancelAt
      BY <2>2 DEF CancelledRow
    <2>4. jobs[j].state = "running" => RowMove(j, jobs[j], CancelledRow(j))
      BY <1>2, <2>3 DEF RowMove, CancelRequested
    <2> QED
      BY <1>2, <2>4, CloseAttemptLawful
  <1>3. CASE ~CancelRequested(lease)
             /\ CloseAttempt(lease, "succeeded", "succeeded", SucceededRow(j))
    <2>1. "succeeded" \in JobState /\ "none" \in Codes
      BY DEF JobState, Terminal, Codes
    <2>2. LET row == Closed(jobs[j], "succeeded", jobs[j].attempt, "none")
          IN  row.state = "succeeded" /\ row.attempt = jobs[j].attempt /\ row.cancelAt = jobs[j].cancelAt
      BY <1>1, <2>1, ClosedRow
    <2>3. /\ SucceededRow(j).state = "succeeded" /\ SucceededRow(j).attempt = jobs[j].attempt
          /\ SucceededRow(j).cancelAt = jobs[j].cancelAt
      BY <2>2 DEF SucceededRow
    <2>4. jobs[j].state = "running" => RowMove(j, jobs[j], SucceededRow(j))
      BY <1>3, <2>3 DEF RowMove, Same, CancelRequested
    <2> QED
      BY <1>3, <2>4, CloseAttemptLawful
  <1>4. CASE ~CancelRequested(lease)
             /\ CloseAttempt(lease, "failed", "failed", FailedRow(j))
    <2>1. "failed" \in JobState /\ "reported" \in Codes /\ 0 \in Nat
      BY DEF JobState, Terminal, Codes
    <2>2. LET row == Closed(jobs[j], "failed", 0, "reported")
          IN  row.state = "failed" /\ row.attempt = jobs[j].attempt /\ row.cancelAt = jobs[j].cancelAt
      BY SMTT(20), <1>1, <2>1, ClosedRow
    <2>3. /\ FailedRow(j).state = "failed" /\ FailedRow(j).attempt = jobs[j].attempt
          /\ FailedRow(j).cancelAt = jobs[j].cancelAt
      BY <2>2 DEF FailedRow
    <2>4. jobs[j].state = "running" => RowMove(j, jobs[j], FailedRow(j))
      BY <1>4, <2>3 DEF RowMove, Same, CancelRequested
    <2> QED
      BY <1>4, <2>4, CloseAttemptLawful
  <1>5. CASE ~CancelRequested(lease) /\ AttemptsRemain(j)
             /\ CloseAttempt(lease, "retried", "failed", Requeued(jobs[j]))
    <2>1. /\ Requeued(jobs[j]).state = "queued" /\ Requeued(jobs[j]).attempt = jobs[j].attempt
          /\ Requeued(jobs[j]).cancelAt = jobs[j].cancelAt
      BY <1>1, RequeuedRow
    <2>2. jobs[j].state = "running" => RowMove(j, jobs[j], Requeued(jobs[j]))
      BY <1>5, <2>1 DEF RowMove, Same, CancelRequested, AttemptsRemain
    <2> QED
      BY <1>5, <2>2, CloseAttemptLawful
  <1> QED
    BY <1>2, <1>3, <1>4, <1>5 DEF AcknowledgeCancel, Complete, Fail

LEMMA NextLawful ==
    ASSUME IInv, Next
    PROVE  Lawful
  <1>1. ASSUME NEW j \in JobId, Submit(j) \/ RequestCancel(j) PROVE Lawful
    BY <1>1, SubmitLawful, RequestCancelLawful
  <1>2. ASSUME NEW w \in Workers, NEW term \in LeaseTerms, Claim(w, term) PROVE Lawful
    BY <1>2, ClaimLawful
  <1>3. ASSUME NEW lease \in IssuedLeases, NEW term \in LeaseTerms, Heartbeat(lease, term)
        PROVE  Lawful
    BY <1>3, HeartbeatLawful
  <1>4. ASSUME NEW lease \in IssuedLeases,
               \/ AcknowledgeCancel(lease) \/ Complete(lease)
               \/ \E retryable \in BOOLEAN : Fail(lease, retryable)
        PROVE  Lawful
    BY <1>4, ClosureLawful
  <1>5. CASE RecoverExpired
    BY <1>5, BatchIsExpired, LawfulRecovery DEF RecoverExpired
  <1>6. CASE StageRetention \/ FinishRetention \/ Tick \/ ClockRegress
    BY <1>6 DEF StageRetention, FinishRetention, Tick, ClockRegress,
                Lawful, RowMove, Same, Final
  <1> QED
    BY <1>1, <1>2, <1>3, <1>4, <1>5, <1>6 DEF Next

\* Nothing ever changes the row, the log or the runs of a terminal job.
THEOREM TerminalFinal == Spec => TerminalIsFinal
  <1>1. IInv /\ [Next]_vars =>
          [\A j \in InState(Terminal) :
              /\ jobs'[j] = jobs[j] /\ events'[j] = events[j]
              /\ {r \in runs' : r.job = j} = {r \in runs : r.job = j}]_vars
    BY NextLawful DEF Lawful, Final, InState
  <1> QED
    BY <1>1, Invariance, PTL DEF Spec, TerminalIsFinal

LEMMA MoveIsPromised ==
    ASSUME NEW j \in JobId, RowMove(j, jobs[j], jobs'[j])
    PROVE  [Promise(j)!Next]_(Promise(j)!vars)
  BY DEF RowMove, Same, Promise!Next, Promise!vars, Promise!Submit, Promise!Attempt,
         Promise!Release, Promise!AskToStop, Promise!Cancel, Promise!Finish

\* Every job the registry holds behaves as JobLifecycle promises: bounded attempts,
\* one at a time, no attempt after cancellation, one final outcome.
THEOREM Refinement == Spec => KeepsPromise
  <1>1. Init => \A j \in JobId : Promise(j)!Init
    BY DEF Init, NoRow, Promise!Init
  <1>2. IInv /\ [Next]_vars => [\A j \in JobId : [Promise(j)!Next]_(Promise(j)!vars)]_vars
    BY NextLawful, MoveIsPromised DEF Lawful
  <1> QED
    BY <1>1, <1>2, Invariance, PTL DEF Spec, KeepsPromise

-----------------------------------------------------------------------------
(* The log of every job replays, the row says what the log says, and the    *)
(* runs are those of the closed attempts.  A transaction is taken apart     *)
(* into the events it appends; each of them extends a verified job to a     *)
(* verified one.  Then who may take an attempt from its owner, and how many *)
(* jobs are open.                                                           *)

Asked(log) == {i \in 1..Len(log) : log[i].kind = "cancel_requested"}

\* A job as the verifier accepts it, not older than its log.
Verified(j, row, log) ==
    /\ Replays(j, row, log)
    /\ row.state # "absent" => MatchesLog(j, row, log) /\ LastEvent(log).at <= row.updated
    /\ row.cancelAt = NoTime <=> Asked(log) = {}
    /\ row.result = IF row.state = "succeeded" THEN row.attempt ELSE 0

\* The runs are those of the explicit closures in the logs.
ClosureRuns(j, log) == {RunOf(j, log[i]) : i \in ExplicitClosures(log)}

RunsAreClosures(rs, logs) ==
    /\ \A r \in rs : r.job \in JobId /\ r \in ClosureRuns(r.job, logs[r.job])
    /\ \A j \in JobId : ClosureRuns(j, logs[j]) \subseteq rs
    /\ \A r, s \in rs : r.job = s.job /\ r.attempt = s.attempt => r = s

AllVerified(rows, logs) == \A j \in JobId : Verified(j, rows[j], logs[j])

ReplayInv == IInv /\ AllVerified(jobs, events) /\ RunsAreClosures(runs, events)

-----------------------------------------------------------------------------
\* One more event.

LEMMA AppendFacts ==
    ASSUME NEW log \in Seq(Event), NEW e \in Event
    PROVE  LET L == Append(log, e)
           IN  /\ L \in Seq(Event) /\ Len(log) \in Nat /\ Len(L) = Len(log) + 1
               /\ L[Len(log) + 1] = e /\ LastEvent(L) = e
               /\ \A i \in 1..Len(log) : L[i] = log[i]
  BY DEF LastEvent

LEMMA AppendBefore ==
    ASSUME NEW log \in Seq(Event), NEW e \in Event, NEW kind
    PROVE  /\ \A i \in 1..Len(log) : Before(Append(log, e), i, kind) = Before(log, i, kind)
           /\ Before(Append(log, e), Len(log) + 1, kind) = {k \in 1..Len(log) : log[k].kind = kind}
  <1> DEFINE L == Append(log, e)
  <1>1. Len(log) \in Nat /\ \A i \in 1..Len(log) : L[i] = log[i]
    BY AppendFacts
  <1> HIDE DEF L
  <1>2. \A i \in 1..Len(log) : Before(L, i, kind) = Before(log, i, kind)
    BY <1>1 DEF Before
  <1>3. Len(log) + 1 - 1 = Len(log)
    BY <1>1
  <1>4. Before(L, Len(log) + 1, kind) = {k \in 1..Len(log) : log[k].kind = kind}
    BY <1>1, <1>3 DEF Before
  <1> QED
    BY <1>2, <1>4 DEF L

\* What was legal stays legal when the log grows.
LEMMA AppendKeepsLegal ==
    ASSUME NEW j \in JobId, NEW log \in Seq(Event), NEW e \in Event, NEW i \in 2..Len(log),
           LegalEvent(j, log, i)
    PROVE  LegalEvent(j, Append(log, e), i)
  <1> DEFINE L == Append(log, e)
  <1>1. Len(log) \in Nat /\ L[i] = log[i] /\ L[i - 1] = log[i - 1] /\ i \in 1..Len(log)
        /\ \A k \in 1..Len(log) : L[k] = log[k]
    BY AppendFacts
  <1>2. ASSUME NEW kind PROVE Before(L, i, kind) = Before(log, i, kind)
    <2>1. \A k \in 1..Len(log) : Before(L, k, kind) = Before(log, k, kind)
      BY AppendBefore
    <2> QED
      BY <1>1, <2>1
  <1>3. \A k \in Before(log, i, "claimed") : L[k] = log[k]
    BY <1>1 DEF Before
  <1> HIDE DEF L
  <1>4. ByClaimant(L, i) <=> ByClaimant(log, i)
    BY <1>1, <1>2, <1>3 DEF ByClaimant
  <1> QED
    BY <1>1, <1>2, <1>4 DEF LegalEvent, L

\* What the next event of a log may be.
Claimed(log, e) == \E k \in 1..Len(log) : /\ log[k].kind = "claimed"
                                          /\ log[k].attempt = e.attempt /\ log[k].actor = e.actor

Continues(j, log, e) ==
    LET p == LastEvent(log)
        cancelSeen == Asked(log) # {}
    IN  /\ e.at >= p.at /\ e.from = p.to
        /\ \/ /\ e.kind = "claimed" /\ e.from = "queued" /\ e.to = "running"
              /\ e.attempt = p.attempt + 1 /\ e.attempt <= MaxAttempts[j]
           \/ /\ e.attempt = p.attempt
              /\ \/ /\ e.kind = "cancel_requested" /\ e.from \in Active /\ e.to = e.from
                    /\ e.actor = "requester" /\ ~cancelSeen
                 \/ /\ e.kind = "retried" /\ e.from = "running" /\ e.to = "queued"
                    /\ Claimed(log, e) /\ ~cancelSeen
                 \/ /\ e.kind = "lease_expired" /\ e.from = "running" /\ e.actor = "registry"
                    /\ e.to = CASE cancelSeen -> "cancelled"
                                [] ~cancelSeen /\ e.attempt >= MaxAttempts[j] -> "failed"
                                [] OTHER -> "queued"
                 \/ /\ e.kind = "cancelled" /\ e.to = "cancelled" /\ cancelSeen
                    /\ \/ e.from = "running" /\ Claimed(log, e)
                       \/ e.from = "queued" /\ e.actor = "registry"
                 \/ /\ e.kind \in {"succeeded", "failed"} /\ e.from = "running"
                    /\ e.to = e.kind /\ Claimed(log, e) /\ ~cancelSeen

LEMMA ContinuationIsLegal ==
    ASSUME NEW j \in JobId, NEW log \in Seq(Event), NEW e \in Event, Len(log) > 0, Continues(j, log, e)
    PROVE  LegalEvent(j, Append(log, e), Len(log) + 1)
  <1> DEFINE L == Append(log, e)
             n == Len(log)
  <1>1. n \in Nat /\ L[n + 1] = e /\ n + 1 - 1 = n /\ L[n] = LastEvent(log)
        /\ \A k \in 1..n : L[k] = log[k]
    BY AppendFacts DEF LastEvent
  <1>2. /\ Before(L, n + 1, "cancel_requested") = Asked(log)
        /\ Before(L, n + 1, "claimed") = {k \in 1..n : log[k].kind = "claimed"}
    BY AppendBefore DEF Asked
  <1> HIDE DEF L, n
  <1>3. ByClaimant(L, n + 1) <=> Claimed(log, e)
    BY <1>1, <1>2 DEF ByClaimant, Claimed, n
  <1>4. LegalEvent(j, L, n + 1)
    BY <1>1, <1>2, <1>3 DEF LegalEvent, Continues
  <1> QED
    BY <1>4 DEF L, n

LEMMA AppendReplays ==
    ASSUME NEW j \in JobId, NEW row, NEW new, NEW log \in Seq(Event), NEW e \in Event,
           Replays(j, row, log), row.state # "absent", new.state # "absent",
           new.created = row.created, Continues(j, log, e)
    PROVE  Replays(j, new, Append(log, e))
  <1> DEFINE L == Append(log, e)
  <1>1. Len(log) \in Nat /\ Len(log) > 0 /\ Len(L) = Len(log) + 1 /\ L[1] = log[1]
    BY AppendFacts DEF Replays
  <1>2. FirstEvent(new, L)
    BY <1>1 DEF Replays, FirstEvent
  <1>3. ASSUME NEW i \in 2..Len(L) PROVE LegalEvent(j, L, i)
    <2>1. CASE i = Len(log) + 1
      BY <1>1, <2>1, ContinuationIsLegal
    <2>2. CASE i # Len(log) + 1
      BY <1>1, <1>3, <2>2, AppendKeepsLegal DEF Replays
    <2> QED
      BY <2>1, <2>2
  <1> HIDE DEF L
  <1>4. Replays(j, new, L)
    BY <1>1, <1>2, <1>3 DEF Replays
  <1> QED
    BY <1>4 DEF L

LEMMA AppendAsked ==
    ASSUME NEW log \in Seq(Event), NEW e \in Event
    PROVE  /\ e.kind # "cancel_requested" => Asked(Append(log, e)) = Asked(log)
           /\ e.kind = "cancel_requested" => Asked(Append(log, e)) = Asked(log) \cup {Len(log) + 1}
  <1> DEFINE L == Append(log, e)
  <1>1. Len(log) \in Nat /\ Len(L) = Len(log) + 1 /\ L[Len(log) + 1] = e
        /\ \A i \in 1..Len(log) : L[i] = log[i]
    BY AppendFacts
  <1> HIDE DEF L
  <1>2. /\ e.kind # "cancel_requested" => Asked(L) = Asked(log)
        /\ e.kind = "cancel_requested" => Asked(L) = Asked(log) \cup {Len(log) + 1}
    BY <1>1 DEF Asked
  <1> QED
    BY <1>2 DEF L

-----------------------------------------------------------------------------
\* The rows an operation leaves.

LEMMA ClosedFields ==
    ASSUME NEW row \in Row, NEW s, NEW r, NEW c
    PROVE  LET new == Closed(row, s, r, c)
           IN  /\ new.state = s /\ new.attempt = row.attempt /\ new.created = row.created
               /\ new.updated = clock /\ new.terminalAt = clock /\ new.cancelAt = row.cancelAt
               /\ new.owner = NoWorker /\ new.expires = NoTime /\ new.heartbeat = NoTime
               /\ new.result = r /\ new.failure = c
  <1> DEFINE free == [row EXCEPT !.owner = NoWorker, !.expires = NoTime, !.heartbeat = NoTime]
  <1>1. /\ DOMAIN free = DOMAIN row /\ free.attempt = row.attempt /\ free.created = row.created
        /\ free.cancelAt = row.cancelAt
        /\ free.owner = NoWorker /\ free.expires = NoTime /\ free.heartbeat = NoTime
        /\ DOMAIN row = {"state", "attempt", "created", "updated", "owner", "expires", "heartbeat",
                         "cancelAt", "terminalAt", "result", "failure"}
    BY DEF Row
  <1> HIDE DEF free
  <1>2. LET new == [free EXCEPT !.state = s, !.updated = clock, !.result = r, !.terminalAt = clock, !.failure = c]
        IN  /\ new.state = s /\ new.attempt = row.attempt /\ new.created = row.created
            /\ new.updated = clock /\ new.terminalAt = clock /\ new.cancelAt = row.cancelAt
            /\ new.owner = NoWorker /\ new.expires = NoTime /\ new.heartbeat = NoTime
            /\ new.result = r /\ new.failure = c
    BY <1>1
  <1> QED
    BY <1>2 DEF Closed, Leaseless, free

LEMMA RequeuedFields ==
    ASSUME NEW row \in Row
    PROVE  LET new == Requeued(row)
           IN  /\ new.state = "queued" /\ new.attempt = row.attempt /\ new.created = row.created
               /\ new.updated = clock /\ new.terminalAt = row.terminalAt /\ new.cancelAt = row.cancelAt
               /\ new.owner = NoWorker /\ new.expires = NoTime /\ new.heartbeat = NoTime
               /\ new.result = row.result /\ new.failure = row.failure
  <1> DEFINE free == [row EXCEPT !.owner = NoWorker, !.expires = NoTime, !.heartbeat = NoTime]
  <1>1. /\ DOMAIN free = DOMAIN row /\ free.attempt = row.attempt /\ free.created = row.created
        /\ free.cancelAt = row.cancelAt /\ free.terminalAt = row.terminalAt
        /\ free.owner = NoWorker /\ free.expires = NoTime /\ free.heartbeat = NoTime
        /\ free.result = row.result /\ free.failure = row.failure
        /\ DOMAIN row = {"state", "attempt", "created", "updated", "owner", "expires", "heartbeat",
                         "cancelAt", "terminalAt", "result", "failure"}
    BY DEF Row
  <1> HIDE DEF free
  <1>2. LET new == [free EXCEPT !.state = "queued", !.updated = clock]
        IN  /\ new.state = "queued" /\ new.attempt = row.attempt /\ new.created = row.created
            /\ new.updated = clock /\ new.terminalAt = row.terminalAt /\ new.cancelAt = row.cancelAt
            /\ new.owner = NoWorker /\ new.expires = NoTime /\ new.heartbeat = NoTime
            /\ new.result = row.result /\ new.failure = row.failure
    BY <1>1
  <1> QED
    BY <1>2 DEF Requeued, Leaseless, free

LEMMA EntryFields ==
    ASSUME NEW kind, NEW from, NEW to, NEW a, NEW actor
    PROVE  LET e == Entry(kind, from, to, a, actor)
           IN  e.kind = kind /\ e.from = from /\ e.to = to /\ e.at = clock /\ e.attempt = a /\ e.actor = actor
  BY DEF Entry

\* A lease is never older than the row that holds it, nor than the log.
LEMMA LeaseChronology ==
    ASSUME NEW j \in JobId, NEW row \in Row, NEW log \in Seq(Event), Verified(j, row, log),
           row.state = "running"
    PROVE  /\ row.updated <= row.expires /\ row.heartbeat <= row.updated
           /\ LastEvent(log).at <= row.updated /\ LastEvent(log).to = "running"
           /\ LastEvent(log).attempt = row.attempt /\ row.created <= row.updated
           /\ row.cancelAt # NoTime <=> Asked(log) # {}
           /\ row.terminalAt = NoTime /\ row.failure = "none" /\ row.result = 0
           /\ row.attempt <= MaxAttempts[j]
           /\ \E k \in 1..Len(log) : log[k].kind = "claimed" /\ log[k].attempt = row.attempt
                                     /\ log[k].actor = row.owner /\ log[k].at <= row.heartbeat
  BY DEF Verified, MatchesLog, LeaseMatchesClaim, Terminal, Row, Codes

\* The attempt ends with one event, whoever wrote it.
LEMMA AttemptEnds ==
    ASSUME NEW j \in JobId, NEW row \in Row, NEW new \in Row, NEW log \in Seq(Event), NEW e \in Event,
           Verified(j, row, log), row.state = "running", Continues(j, log, e),
           e.kind \notin {"cancel_requested", "claimed"},
           new.state \in {"queued"} \cup Terminal, new.state = e.to,
           new.attempt = row.attempt, new.created = row.created, new.cancelAt = row.cancelAt,
           new.updated = e.at, row.updated <= e.at,
           new.terminalAt = IF new.state \in Terminal THEN e.at ELSE NoTime,
           new.owner = NoWorker, new.expires = NoTime, new.heartbeat = NoTime,
           new.failure # "none" <=> new.state = "failed",
           e.kind = "lease_expired" /\ new.state = "failed" => new.failure = "lease_attempts_exhausted",
           new.state = "cancelled" <=> row.cancelAt # NoTime,
           new.result = IF new.state = "succeeded" THEN new.attempt ELSE 0
    PROVE  Verified(j, new, Append(log, e))
  <1> DEFINE L == Append(log, e)
  <1>1. new.state # "absent" /\ new.state # "running" /\ row.state # "absent"
    BY DEF Terminal
  <1>2. Replays(j, new, L)
    BY <1>1, AppendReplays DEF Verified
  <1>3. Asked(L) = Asked(log)
    BY AppendAsked
  <1>4. LastEvent(L) = e /\ Len(log) \in Nat /\ Len(L) = Len(log) + 1 /\ \A i \in 1..Len(log) : L[i] = log[i]
    BY AppendFacts
  <1> HIDE DEF L
  <1>5. row.attempt <= MaxAttempts[j] /\ row.created <= row.updated /\ (row.cancelAt = NoTime <=> Asked(log) = {})
        /\ LastEvent(log).attempt = row.attempt
    BY LeaseChronology
  <1>6. e.attempt = row.attempt
    BY <1>5 DEF Continues
  <1>7. CancelMatchesLog(new, L)
    <2>1. \A i \in Asked(log) : row.cancelAt = log[i].at
      BY <1>1 DEF Verified, MatchesLog, CancelMatchesLog, Asked
    <2>2. \A i \in Asked(L) : new.cancelAt = L[i].at
      BY <1>3, <1>4, <2>1 DEF Asked
    <2>3. Asked(L) = {i \in 1..Len(L) : L[i].kind = "cancel_requested"}
      BY DEF Asked
    <2> QED
      BY <1>3, <1>5, <2>2, <2>3 DEF CancelMatchesLog
  <1>8. row.created \in Nat /\ row.updated \in Nat /\ e.at \in Nat
    BY DEF Row, Event
  <1>9. MatchesLog(j, new, L)
    BY <1>1, <1>4, <1>5, <1>6, <1>7, <1>8 DEF MatchesLog
  <1>10. Verified(j, new, L)
    BY <1>2, <1>3, <1>4, <1>5, <1>8, <1>9 DEF Verified
  <1> QED
    BY <1>10 DEF L

-----------------------------------------------------------------------------
\* The events operations write, one at a time.

LEMMA ClockIsTime ==
    ASSUME IInv
    PROVE  clock \in Time /\ clock \in Nat /\ clock # NoTime
  BY BoundsAssumption DEF IInv, TypeOK, Time, NoTime

LEMMA RowAndLog ==
    ASSUME IInv, NEW j \in JobId
    PROVE  jobs[j] \in Row /\ events[j] \in Seq(Event) /\ Consistent(j, jobs[j], Len(events[j]))
  BY DEF IInv, TypeOK, AllConsistent

LEMMA RecoveryVerifies ==
    ASSUME IInv, AllVerified(jobs, events), NEW batch \in SUBSET Expired, NEW j \in JobId
    PROVE  Verified(j, RecoveredJobs(batch)[j], RecoveredEvents(batch)[j])
  <1> DEFINE row == jobs[j]
             log == events[j]
             e == Entry("lease_expired", "running", AfterExpiry(j), jobs[j].attempt, "registry")
             new == ExpireRow(j)
  <1>1. CASE j \notin batch
    BY <1>1 DEF RecoveredJobs, RecoveredEvents, AllVerified
  <1>2. CASE j \in batch
    <2>1. row \in Row /\ log \in Seq(Event) /\ row.state = "running" /\ row.expires <= clock
          /\ Verified(j, row, log)
      BY <1>2, RowAndLog DEF Expired, InState, AllVerified
    <2>2. RecoveredJobs(batch)[j] = new /\ RecoveredEvents(batch)[j] = Append(log, e) /\ new \in Row
      BY <1>2, Recovery DEF RecoveredJobs, RecoveredEvents, IInv
    <2>3. e.kind = "lease_expired" /\ e.from = "running" /\ e.to = AfterExpiry(j) /\ e.at = clock
          /\ e.attempt = row.attempt /\ e.actor = "registry"
      BY DEF Entry
    <2>4. AfterExpiry(j) \in {"cancelled", "failed", "queued"} /\ row.attempt \in Nat
      BY <2>1, FieldTypes DEF AfterExpiry
    <2>5. e \in Event
      BY <2>4, ClockIsTime, EntryType DEF Kinds, JobState, Active, Terminal
    <2>6. /\ row.updated <= row.expires /\ LastEvent(log).at <= row.updated /\ LastEvent(log).to = "running"
          /\ LastEvent(log).attempt = row.attempt
          /\ row.cancelAt # NoTime <=> Asked(log) # {}
          /\ row.terminalAt = NoTime /\ row.failure = "none" /\ row.result = 0
      BY <2>1, LeaseChronology
    <2>7. row.updated \in Nat /\ row.expires \in Nat /\ clock \in Nat /\ MaxAttempts[j] \in Nat
      BY <2>1, ClockIsTime, RequestAssumption DEF Row
    <2>8. row.updated <= clock
      BY <2>1, <2>6, <2>7
    <2>9. LastEvent(log).at <= clock
      <3>1. Len(log) > 0
        BY <2>1 DEF Verified, Replays
      <3>2. LastEvent(log) \in Event
        BY <2>1, <3>1 DEF LastEvent
      <3> QED
        BY <2>6, <2>7, <2>8, <3>2 DEF Event
    <2> HIDE DEF e, new, row, log
    <2>10. AfterExpiry(j) = CASE Asked(log) # {} -> "cancelled"
                              [] ~(Asked(log) # {}) /\ e.attempt >= MaxAttempts[j] -> "failed"
                              [] OTHER -> "queued"
      BY <2>3, <2>6 DEF AfterExpiry, row
    <2>11. Continues(j, log, e)
      BY <2>3, <2>6, <2>9, <2>10 DEF Continues
    <2>12. /\ new.state = AfterExpiry(j) /\ new.attempt = row.attempt /\ new.created = row.created
           /\ new.updated = clock /\ new.cancelAt = row.cancelAt
           /\ new.owner = NoWorker /\ new.expires = NoTime /\ new.heartbeat = NoTime
           /\ new.terminalAt = IF new.state \in Terminal THEN clock ELSE NoTime
           /\ new.result = 0
           /\ new.failure = IF new.state = "failed" THEN "lease_attempts_exhausted" ELSE "none"
      <3>1. CASE AfterExpiry(j) = "queued"
        <4>1. new = Requeued(row)
          BY <3>1 DEF ExpireRow, new, row
        <4> QED
          BY <2>1, <2>6, <3>1, <4>1, RequeuedFields DEF Terminal
      <3>2. CASE AfterExpiry(j) = "cancelled"
        <4>1. new = Closed(row, "cancelled", 0, "none")
          BY <3>2 DEF ExpireRow, new, row
        <4> QED
          BY <2>1, <3>2, <4>1, ClosedFields DEF Terminal
      <3>3. CASE AfterExpiry(j) = "failed"
        <4>1. new = Closed(row, "failed", 0, "lease_attempts_exhausted")
          BY <3>3 DEF ExpireRow, new, row
        <4> QED
          BY <2>1, <3>3, <4>1, ClosedFields DEF Terminal
      <3> QED
        BY <2>4, <3>1, <3>2, <3>3
    <2>13. new.state = "cancelled" <=> row.cancelAt # NoTime
      BY <2>12 DEF AfterExpiry, row
    <2>14. new.state \in {"queued"} \cup Terminal
      BY <2>4, <2>12 DEF Terminal
    <2>15. /\ e.kind \notin {"cancel_requested", "claimed"} /\ new.state = e.to
           /\ new.updated = e.at /\ row.updated <= e.at
           /\ new.terminalAt = IF new.state \in Terminal THEN e.at ELSE NoTime
           /\ new.failure # "none" <=> new.state = "failed"
           /\ e.kind = "lease_expired" /\ new.state = "failed" => new.failure = "lease_attempts_exhausted"
           /\ new.result = IF new.state = "succeeded" THEN new.attempt ELSE 0
      BY <2>3, <2>4, <2>8, <2>12
    <2>16. Verified(j, new, Append(log, e))
      BY <2>1, <2>2, <2>5, <2>11, <2>12, <2>13, <2>14, <2>15, AttemptEnds
    <2> QED
      BY <2>2, <2>16
  <1> QED
    BY <1>1, <1>2

LEMMA ClaimVerifies ==
    ASSUME NEW j \in JobId, NEW row \in Row, NEW new \in Row, NEW log \in Seq(Event), NEW e \in Event,
           NEW w, NEW n, Verified(j, row, log), Consistent(j, row, n), row.state = "queued", row.updated <= clock,
           clock \in Nat,
           e = Entry("claimed", "queued", "running", row.attempt + 1, w),
           new.state = "running", new.attempt = row.attempt + 1, new.updated = clock, new.heartbeat = clock,
           new.owner = w, clock <= new.expires,
           new.created = row.created, new.cancelAt = row.cancelAt, new.terminalAt = row.terminalAt,
           new.result = row.result, new.failure = row.failure
    PROVE  Verified(j, new, Append(log, e))
  <1> DEFINE L == Append(log, e)
  <1>1. e.kind = "claimed" /\ e.from = "queued" /\ e.to = "running" /\ e.at = clock
        /\ e.attempt = row.attempt + 1 /\ e.actor = w
    BY EntryFields
  <1>2. /\ LastEvent(log).at = row.updated /\ LastEvent(log).to = "queued" /\ LastEvent(log).attempt = row.attempt
        /\ row.created <= row.updated /\ CancelMatchesLog(row, log)
        /\ row.terminalAt = NoTime /\ row.failure = "none" /\ row.result = 0
    BY DEF Verified, MatchesLog, Terminal, Row, Codes
  <1>3. row.attempt \in Nat /\ MaxAttempts[j] \in Nat /\ row.attempt + 1 <= MaxAttempts[j]
        /\ row.created \in Nat /\ row.updated \in Nat
    BY RequestAssumption, SMTT(30) DEF Consistent, Row
  <1>4. row.cancelAt = NoTime /\ Asked(log) = {}
    BY DEF Consistent, Verified
  <1>5. Continues(j, log, e)
    BY <1>1, <1>2, <1>3 DEF Continues
  <1>6. Replays(j, new, L)
    BY <1>5, AppendReplays DEF Verified
  <1>7. Asked(L) = {}
    BY <1>1, <1>4, AppendAsked
  <1>8. LastEvent(L) = e /\ Len(log) \in Nat /\ Len(L) = Len(log) + 1 /\ L[Len(log) + 1] = e
    BY AppendFacts
  <1> HIDE DEF L
  <1>9. LeaseMatchesClaim(new, L)
    <2>1. Len(log) + 1 \in 1..Len(L)
      BY <1>8
    <2> QED
      BY <1>1, <1>8, <2>1 DEF LeaseMatchesClaim
  <1>10. CancelMatchesLog(new, L)
    BY <1>4, <1>7 DEF CancelMatchesLog, Asked
  <1>11. MatchesLog(j, new, L)
    BY <1>1, <1>2, <1>3, <1>8, <1>9, <1>10 DEF MatchesLog, Terminal
  <1>12. Verified(j, new, L)
    BY <1>1, <1>2, <1>4, <1>6, <1>7, <1>8, <1>11 DEF Verified
  <1> QED
    BY <1>12 DEF L

LEMMA HeartbeatVerifies ==
    ASSUME NEW j \in JobId, NEW row \in Row, NEW new \in Row, NEW log \in Seq(Event),
           Verified(j, row, log), row.state = "running", row.updated <= clock, clock \in Nat,
           new.state = "running", new.attempt = row.attempt, new.updated = clock, new.heartbeat = clock,
           new.owner = row.owner, clock <= new.expires,
           new.created = row.created, new.cancelAt = row.cancelAt, new.terminalAt = row.terminalAt,
           new.result = row.result, new.failure = row.failure
    PROVE  Verified(j, new, log)
  <1>1. PICK k \in 1..Len(log) : log[k].kind = "claimed" /\ log[k].attempt = row.attempt
                                 /\ log[k].actor = row.owner /\ log[k].at <= row.heartbeat
    BY LeaseChronology
  <1>2. row.updated \in Nat /\ row.heartbeat \in Nat /\ log[k].at \in Nat /\ row.created \in Nat
    <2>1. log[k] \in Event
      BY <1>1
    <2> QED
      BY <2>1 DEF Row, Event
  <1>3. row.heartbeat <= row.updated /\ row.created <= row.updated /\ LastEvent(log).at <= row.updated
    BY LeaseChronology
  <1>4. LeaseMatchesClaim(new, log)
    BY <1>1, <1>2, <1>3 DEF LeaseMatchesClaim
  <1>5. Len(log) > 0 /\ LastEvent(log) \in Event
    BY DEF Verified, Replays, LastEvent
  <1>6. LastEvent(log).at <= clock
    BY <1>2, <1>3, <1>5 DEF Event
  <1>7. MatchesLog(j, new, log)
    BY <1>2, <1>3, <1>4 DEF Verified, MatchesLog, CancelMatchesLog, Terminal
  <1> QED
    BY <1>6, <1>7 DEF Verified, Replays, FirstEvent

\* A running job is asked to stop.
LEMMA AskVerifies ==
    ASSUME NEW j \in JobId, NEW row \in Row, NEW new \in Row, NEW log \in Seq(Event), NEW e \in Event,
           Verified(j, row, log), row.state = "running", row.cancelAt = NoTime,
           row.updated <= clock, clock <= row.expires, clock \in Nat, clock # NoTime,
           e = Entry("cancel_requested", "running", "running", row.attempt, "requester"),
           new.state = "running", new.attempt = row.attempt, new.updated = clock, new.cancelAt = clock,
           new.heartbeat = row.heartbeat, new.owner = row.owner, new.expires = row.expires,
           new.created = row.created, new.terminalAt = row.terminalAt,
           new.result = row.result, new.failure = row.failure
    PROVE  Verified(j, new, Append(log, e))
  <1> DEFINE L == Append(log, e)
  <1>1. e.kind = "cancel_requested" /\ e.from = "running" /\ e.to = "running" /\ e.at = clock
        /\ e.attempt = row.attempt /\ e.actor = "requester"
    BY EntryFields
  <1>2. PICK k \in 1..Len(log) : log[k].kind = "claimed" /\ log[k].attempt = row.attempt
                                 /\ log[k].actor = row.owner /\ log[k].at <= row.heartbeat
    BY LeaseChronology
  <1>3. log[k] \in Event /\ Len(log) > 0 /\ LastEvent(log) \in Event
    BY <1>2 DEF Verified, Replays, LastEvent
  <1>4. row.updated \in Nat /\ row.heartbeat \in Nat /\ log[k].at \in Nat /\ row.created \in Nat
        /\ LastEvent(log).at \in Nat
    BY <1>3 DEF Row, Event
  <1>5. /\ row.heartbeat <= row.updated /\ row.created <= row.updated /\ LastEvent(log).at <= row.updated
        /\ LastEvent(log).to = "running" /\ LastEvent(log).attempt = row.attempt
        /\ Asked(log) = {} /\ row.terminalAt = NoTime /\ row.failure = "none" /\ row.result = 0
        /\ row.attempt <= MaxAttempts[j]
    BY LeaseChronology
  <1>6. Continues(j, log, e)
    BY <1>1, <1>4, <1>5 DEF Continues, Active
  <1>7. Replays(j, new, L)
    BY <1>6, AppendReplays DEF Verified
  <1>8. LastEvent(L) = e /\ Len(log) \in Nat /\ Len(L) = Len(log) + 1 /\ L[Len(log) + 1] = e
        /\ \A i \in 1..Len(log) : L[i] = log[i]
    BY AppendFacts
  <1>9. Asked(L) = {Len(log) + 1}
    BY <1>1, <1>5, AppendAsked
  <1> HIDE DEF L
  <1>10. LeaseMatchesClaim(new, L)
    <2>1. k \in 1..Len(L) /\ L[k] = log[k]
      BY <1>2, <1>8
    <2> QED
      BY <1>2, <1>4, <1>5, <2>1 DEF LeaseMatchesClaim
  <1>11. CancelMatchesLog(new, L)
    BY <1>1, <1>8, <1>9 DEF CancelMatchesLog, Asked
  <1>12. MatchesLog(j, new, L)
    BY <1>1, <1>4, <1>5, <1>8, <1>10, <1>11 DEF MatchesLog, Terminal
  <1>13. Verified(j, new, L)
    BY <1>1, <1>5, <1>7, <1>8, <1>9, <1>12 DEF Verified
  <1> QED
    BY <1>13 DEF L

\* A queued job is cancelled at once, with two events.
LEMMA CancelVerifies ==
    ASSUME NEW j \in JobId, NEW row \in Row, NEW new \in Row, NEW log \in Seq(Event),
           NEW request \in Event, NEW cancel \in Event,
           Verified(j, row, log), row.state = "queued", row.cancelAt = NoTime,
           row.updated <= clock, clock \in Nat, clock # NoTime,
           request = Entry("cancel_requested", "queued", "queued", row.attempt, "requester"),
           cancel = Entry("cancelled", "queued", "cancelled", row.attempt, "registry"),
           new.state = "cancelled", new.attempt = row.attempt, new.updated = clock, new.cancelAt = clock,
           new.terminalAt = clock, new.heartbeat = row.heartbeat, new.owner = row.owner, new.expires = row.expires,
           new.created = row.created, new.result = row.result, new.failure = row.failure
    PROVE  Verified(j, new, Append(Append(log, request), cancel))
  <1> DEFINE L == Append(log, request)
             M == Append(L, cancel)
  <1>1. /\ request.kind = "cancel_requested" /\ request.from = "queued" /\ request.to = "queued"
        /\ request.at = clock /\ request.attempt = row.attempt /\ request.actor = "requester"
        /\ cancel.kind = "cancelled" /\ cancel.from = "queued" /\ cancel.to = "cancelled"
        /\ cancel.at = clock /\ cancel.attempt = row.attempt /\ cancel.actor = "registry"
    BY EntryFields
  <1>2. /\ LastEvent(log).at = row.updated /\ LastEvent(log).to = "queued" /\ LastEvent(log).attempt = row.attempt
        /\ row.created <= row.updated /\ row.attempt <= MaxAttempts[j]
        /\ row.terminalAt = NoTime /\ row.failure = "none" /\ row.result = 0
        /\ row.owner = NoWorker /\ row.expires = NoTime /\ row.heartbeat = NoTime
        /\ Asked(log) = {}
    BY DEF Verified, MatchesLog, Terminal, Row, Codes
  <1>3. Len(log) > 0 /\ row.created \in Nat /\ row.updated \in Nat
    BY DEF Verified, Replays, Row
  <1>4. Continues(j, log, request)
    BY <1>1, <1>2 DEF Continues, Active
  <1>5. Replays(j, row, L)
    BY <1>4, AppendReplays DEF Verified
  <1>6. L \in Seq(Event) /\ Len(L) = Len(log) + 1 /\ Len(log) \in Nat /\ LastEvent(L) = request
        /\ L[Len(log) + 1] = request
    BY AppendFacts
  <1>7. Asked(L) = {Len(log) + 1}
    BY <1>1, <1>2, AppendAsked
  <1> HIDE DEF L
  <1>8. Continues(j, L, cancel)
    BY <1>1, <1>6, <1>7 DEF Continues
  <1>9. Replays(j, new, M)
    BY <1>5, <1>6, <1>8, AppendReplays
  <1>10. Len(M) = Len(L) + 1 /\ LastEvent(M) = cancel /\ \A i \in 1..Len(L) : M[i] = L[i]
    BY <1>6, AppendFacts
  <1>11. Asked(M) = {Len(log) + 1}
    BY <1>1, <1>6, <1>7, AppendAsked
  <1> HIDE DEF M
  <1>12. M[Len(log) + 1] = request
    BY <1>6, <1>10
  <1>13. CancelMatchesLog(new, M)
    BY <1>1, <1>11, <1>12 DEF CancelMatchesLog, Asked
  <1>14. MatchesLog(j, new, M)
    BY <1>1, <1>2, <1>3, <1>10, <1>13 DEF MatchesLog, Terminal
  <1>15. Verified(j, new, M)
    BY <1>1, <1>2, <1>9, <1>10, <1>11, <1>14 DEF Verified
  <1> QED
    BY <1>15 DEF L, M

-----------------------------------------------------------------------------
\* Runs and closures.

Closing(e) == e.from = "running" /\ e.kind \in {"retried", "succeeded", "failed", "cancelled"}

LEMMA AppendClosures ==
    ASSUME NEW j \in JobId, NEW log \in Seq(Event), NEW e \in Event
    PROVE  ClosureRuns(j, Append(log, e)) = ClosureRuns(j, log) \cup IF Closing(e) THEN {RunOf(j, e)} ELSE {}
  <1> DEFINE L == Append(log, e)
  <1>1. Len(log) \in Nat /\ Len(L) = Len(log) + 1 /\ L[Len(log) + 1] = e
        /\ \A i \in 1..Len(log) : L[i] = log[i]
    BY AppendFacts
  <1> HIDE DEF L
  <1>2. ExplicitClosures(L) = ExplicitClosures(log) \cup IF Closing(e) THEN {Len(log) + 1} ELSE {}
    BY <1>1 DEF ExplicitClosures, Closing
  <1>3. \A i \in ExplicitClosures(log) : L[i] = log[i]
    BY <1>1 DEF ExplicitClosures
  <1>4. ClosureRuns(j, L) = ClosureRuns(j, log) \cup IF Closing(e) THEN {RunOf(j, e)} ELSE {}
    BY <1>1, <1>2, <1>3 DEF ClosureRuns
  <1> QED
    BY <1>4 DEF L

LEMMA AppendClosesNothing ==
    ASSUME NEW j \in JobId, NEW log \in Seq(Event), NEW e \in Event, ~Closing(e)
    PROVE  ClosureRuns(j, Append(log, e)) = ClosureRuns(j, log)
  <1>1. ClosureRuns(j, Append(log, e)) = ClosureRuns(j, log) \cup IF Closing(e) THEN {RunOf(j, e)} ELSE {}
    BY AppendClosures
  <1>2. (IF Closing(e) THEN {RunOf(j, e)} ELSE {}) = {}
    OBVIOUS
  <1> QED
    BY <1>1, <1>2

\* Recovery closes attempts without a run.
LEMMA RecoveryClosesNothing ==
    ASSUME IInv, NEW batch \in SUBSET Expired, NEW j \in JobId
    PROVE  ClosureRuns(j, RecoveredEvents(batch)[j]) = ClosureRuns(j, events[j])
  <1> DEFINE e == Entry("lease_expired", "running", AfterExpiry(j), jobs[j].attempt, "registry")
  <1>1. CASE j \notin batch
    BY <1>1 DEF RecoveredEvents
  <1>2. CASE j \in batch
    <2>1. RecoveredEvents(batch)[j] = Append(events[j], e)
      BY <1>2 DEF RecoveredEvents
    <2>2. AfterExpiry(j) \in {"cancelled", "failed", "queued"}
      BY DEF AfterExpiry
    <2>3. e \in Event /\ ~Closing(e) /\ events[j] \in Seq(Event)
      <3>1. e.kind = "lease_expired"
        BY EntryFields
      <3>2. jobs[j].attempt \in Nat /\ events[j] \in Seq(Event)
        BY RowAndLog, FieldTypes
      <3> QED
        BY <2>2, <3>1, <3>2, ClockIsTime, EntryType DEF Kinds, JobState, Active, Terminal, Closing
    <2> QED
      BY <2>1, <2>3, AppendClosesNothing
  <1> QED
    BY <1>1, <1>2

\* Logs that close nothing new leave the runs as they are.
LEMMA SameClosures ==
    ASSUME NEW logs, RunsAreClosures(runs, events),
           \A j \in JobId : ClosureRuns(j, logs[j]) = ClosureRuns(j, events[j])
    PROVE  RunsAreClosures(runs, logs)
  BY DEF RunsAreClosures

\* A transaction recovers, then rewrites one job.
LEMMA UpdateVerifies ==
    ASSUME IInv, AllVerified(jobs, events), NEW batch \in SUBSET Expired, NEW j \in JobId, NEW r, NEW l,
           Verified(j, r, l)
    PROVE  AllVerified([RecoveredJobs(batch) EXCEPT ![j] = r], [RecoveredEvents(batch) EXCEPT ![j] = l])
  BY RecoveryVerifies DEF AllVerified, RecoveredJobs, RecoveredEvents

LEMMA UpdateClosesNothing ==
    ASSUME IInv, RunsAreClosures(runs, events), NEW batch \in SUBSET Expired, NEW j \in JobId, NEW l,
           ClosureRuns(j, l) = ClosureRuns(j, RecoveredEvents(batch)[j])
    PROVE  RunsAreClosures(runs, [RecoveredEvents(batch) EXCEPT ![j] = l])
  <1> DEFINE logs == [RecoveredEvents(batch) EXCEPT ![j] = l]
  <1>1. ASSUME NEW i \in JobId PROVE ClosureRuns(i, logs[i]) = ClosureRuns(i, events[i])
    <2>1. logs[i] = IF i = j THEN l ELSE RecoveredEvents(batch)[i]
      BY DEF RecoveredEvents
    <2> QED
      BY <2>1, RecoveryClosesNothing
  <1> HIDE DEF logs
  <1>2. RunsAreClosures(runs, logs)
    BY <1>1, SameClosures
  <1> QED
    BY <1>2 DEF logs

-----------------------------------------------------------------------------
\* One lemma per operation.

Tables == AllVerified(jobs', events') /\ RunsAreClosures(runs', events')

LEMMA SubmitReplays ==
    ASSUME ReplayInv, NEW j \in JobId, Submit(j)
    PROVE  Tables
  <1> DEFINE r == [NoRow EXCEPT !.state = "queued", !.created = clock, !.updated = clock]
             e == Entry("submitted", "none", "queued", 0, "submitter")
             L == Append(events[j], e)
  <1>1. clock \in Nat /\ clock \in Time
    BY ClockIsTime DEF ReplayInv
  <1>2. /\ r.state = "queued" /\ r.attempt = 0 /\ r.cancelAt = NoTime /\ r.created = clock /\ r.updated = clock
        /\ r.owner = NoWorker /\ r.expires = NoTime /\ r.heartbeat = NoTime /\ r.terminalAt = NoTime
        /\ r.result = 0 /\ r.failure = "none"
    BY DEF NoRow
  <1>3. e.kind = "submitted" /\ e.from = "none" /\ e.to = "queued" /\ e.at = clock /\ e.attempt = 0
        /\ e.actor = "submitter"
    BY EntryFields
  <1>4. e \in Event
    BY <1>1, EntryType DEF Kinds, JobState, Active
  <1>5. events[j] \in Seq(Event) /\ Len(events[j]) = 0 /\ jobs[j].state = "absent"
    BY RowAndLog DEF ReplayInv, Submit, Consistent
  <1>6. Len(L) = 1 /\ L[1] = e /\ LastEvent(L) = e /\ L = Append(events[j], e)
    BY <1>4, <1>5, AppendFacts
  <1>7. /\ jobs' = [jobs EXCEPT ![j] = r] /\ events' = [events EXCEPT ![j] = Append(events[j], e)] /\ runs' = runs
        /\ jobs \in [JobId -> Row] /\ events \in [JobId -> Seq(Event)]
    BY DEF Submit, ReplayInv, IInv, TypeOK
  <1> HIDE DEF r, L
  <1>8. Asked(L) = {}
    BY <1>3, <1>6 DEF Asked
  <1>9. MatchesLog(j, r, L)
    BY <1>1, <1>2, <1>3, <1>6, <1>8, RequestAssumption DEF MatchesLog, CancelMatchesLog, Asked, Terminal
  <1>10. Replays(j, r, L)
    BY <1>2, <1>3, <1>6 DEF Replays, FirstEvent
  <1>11. Verified(j, r, L)
    BY <1>1, <1>2, <1>3, <1>6, <1>8, <1>9, <1>10 DEF Verified
  <1>12. AllVerified(jobs', events')
    BY <1>6, <1>7, <1>11 DEF AllVerified, ReplayInv
  <1>13. ClosureRuns(j, events'[j]) = ClosureRuns(j, events[j])
    <2>1. events'[j] = Append(events[j], e) /\ ~Closing(e)
      BY <1>3, <1>7 DEF Closing
    <2> QED
      BY <1>4, <1>5, <2>1, AppendClosesNothing
  <1>14. \A i \in JobId : ClosureRuns(i, events'[i]) = ClosureRuns(i, events[i])
    BY <1>7, <1>13
  <1> QED
    BY <1>7, <1>12, <1>14, SameClosures DEF Tables, ReplayInv

LEMMA RecoveryReplays ==
    ASSUME ReplayInv, NEW batch \in SUBSET Expired, runs' = runs,
           jobs' = RecoveredJobs(batch), events' = RecoveredEvents(batch)
    PROVE  Tables
  BY RecoveryVerifies, RecoveryClosesNothing, SameClosures, SMTT(30) DEF Tables, ReplayInv, AllVerified

LEMMA ClaimReplays ==
    ASSUME ReplayInv, NEW w \in Workers, NEW term \in LeaseTerms, Claim(w, term)
    PROVE  Tables
  <1> DEFINE batch == Batch({})
             rows == RecoveredJobs(batch)
             logs == RecoveredEvents(batch)
  <1>1. batch \in SUBSET Expired /\ runs' = runs /\ IInv
    BY BatchIsExpired DEF Claim, ReplayInv
  <1>2. CASE jobs' = rows /\ events' = logs
    BY <1>1, <1>2, RecoveryReplays
  <1>3. ASSUME NEW j \in NextQueued(rows), clock >= rows[j].updated,
               jobs' = [rows EXCEPT ![j] =
                     [rows[j] EXCEPT !.state = "running", !.attempt = rows[j].attempt + 1,
                                     !.updated = clock, !.heartbeat = clock,
                                     !.owner = w, !.expires = clock + term]],
               events' = [logs EXCEPT ![j] =
                     Append(logs[j], Entry("claimed", "queued", "running", rows[j].attempt + 1, w))]
        PROVE  Tables
    <2> DEFINE r == [rows[j] EXCEPT !.state = "running", !.attempt = rows[j].attempt + 1,
                                    !.updated = clock, !.heartbeat = clock,
                                    !.owner = w, !.expires = clock + term]
               e == Entry("claimed", "queued", "running", rows[j].attempt + 1, w)
    <2>1. j \in JobId /\ rows[j].state = "queued"
      BY DEF NextQueued
    <2>2. rows[j] \in Row /\ logs[j] \in Seq(Event) /\ Consistent(j, rows[j], Len(logs[j]))
          /\ Verified(j, rows[j], logs[j])
      BY <1>1, <2>1, Recovery, RecoveryVerifies DEF IInv, ReplayInv
    <2>3. clock \in Nat /\ clock \in Time /\ term \in Nat /\ rows[j].attempt \in Nat /\ rows[j].updated \in Nat
      BY <1>1, <2>2, ClockIsTime, RequestAssumption DEF Row
    <2> HIDE DEF rows, logs, batch
    <2>4. /\ r.state = "running" /\ r.attempt = rows[j].attempt + 1 /\ r.updated = clock /\ r.heartbeat = clock
          /\ r.owner = w /\ r.expires = clock + term
          /\ r.created = rows[j].created /\ r.cancelAt = rows[j].cancelAt /\ r.terminalAt = rows[j].terminalAt
          /\ r.result = rows[j].result /\ r.failure = rows[j].failure
      BY <2>2 DEF Row
    <2>5. r \in Row
      <3>1. rows[j].attempt + 1 \in Nat /\ clock + term \in Nat
            /\ "running" \in JobState \cup {"absent"} /\ w \in Workers \cup {NoWorker}
        BY <2>3 DEF JobState, Active
      <3> QED
        BY <2>2, <2>3, <3>1 DEF Row
    <2>6. e \in Event /\ ~Closing(e)
      <3>1. e.from = "queued"
        BY EntryFields
      <3> QED
        BY <2>3, <3>1, EntryType DEF Kinds, JobState, Active, Closing
    <2>7. clock <= r.expires /\ rows[j].updated <= clock
      BY <1>3, <2>3, <2>4
    <2>8. jobs' = [rows EXCEPT ![j] = r] /\ events' = [logs EXCEPT ![j] = Append(logs[j], e)]
          /\ e = Entry("claimed", "queued", "running", rows[j].attempt + 1, w)
      BY <1>3
    <2> HIDE DEF r, e
    <2>9. Verified(j, r, Append(logs[j], e))
      BY <2>1, <2>2, <2>3, <2>4, <2>5, <2>6, <2>7, <2>8, ClaimVerifies
    <2>10. ClosureRuns(j, Append(logs[j], e)) = ClosureRuns(j, logs[j])
      BY <2>1, <2>2, <2>6, AppendClosesNothing
    <2>11. AllVerified(jobs', events')
      BY <1>1, <2>1, <2>8, <2>9, UpdateVerifies DEF rows, logs, ReplayInv
    <2>12. RunsAreClosures(runs', events')
      BY <1>1, <2>1, <2>8, <2>10, UpdateClosesNothing DEF rows, logs, ReplayInv
    <2> QED
      BY <2>11, <2>12 DEF Tables
  <1> QED
    BY <1>2, <1>3 DEF Claim

LEMMA HeartbeatReplays ==
    ASSUME ReplayInv, NEW lease \in IssuedLeases, NEW term \in LeaseTerms, Heartbeat(lease, term)
    PROVE  Tables
  <1> DEFINE batch == Batch({})
             rows == RecoveredJobs(batch)
             logs == RecoveredEvents(batch)
             j == lease.job
             r == [rows[j] EXCEPT !.updated = clock, !.heartbeat = clock, !.expires = clock + term]
  <1>1. batch \in SUBSET Expired /\ runs' = runs /\ IInv /\ j \in JobId
    BY BatchIsExpired, LeaseType DEF Heartbeat, ReplayInv
  <1>2. rows[j].state = "running" /\ clock >= rows[j].updated
        /\ jobs' = [rows EXCEPT ![j] = r] /\ events' = logs
    BY DEF Heartbeat, Owns
  <1>3. rows[j] \in Row /\ logs[j] \in Seq(Event) /\ Verified(j, rows[j], logs[j])
    BY <1>1, Recovery, RecoveryVerifies DEF IInv, ReplayInv
  <1>4. clock \in Nat /\ term \in Nat /\ clock + term \in Nat /\ rows[j].updated \in Nat
    BY <1>1, <1>3, ClockIsTime, RequestAssumption, SMTT(30) DEF Row
  <1>5. logs = [logs EXCEPT ![j] = logs[j]]
    BY DEF RecoveredEvents
  <1> HIDE DEF rows, logs, batch, j
  <1>6. /\ r \in Row /\ r.state = "running" /\ r.attempt = rows[j].attempt /\ r.updated = clock
        /\ r.heartbeat = clock /\ r.owner = rows[j].owner /\ r.expires = clock + term
        /\ r.created = rows[j].created /\ r.cancelAt = rows[j].cancelAt /\ r.terminalAt = rows[j].terminalAt
        /\ r.result = rows[j].result /\ r.failure = rows[j].failure
    BY <1>2, <1>3, <1>4 DEF Row
  <1>7. clock <= r.expires /\ rows[j].updated <= clock
    BY <1>2, <1>4, <1>6
  <1> HIDE DEF r
  <1>8. Verified(j, r, logs[j])
    BY <1>1, <1>2, <1>3, <1>4, <1>6, <1>7, HeartbeatVerifies
  <1>9. AllVerified(jobs', events')
    <2>1. events' = [logs EXCEPT ![j] = logs[j]]
      BY <1>2, <1>5
    <2>2. AllVerified([RecoveredJobs(batch) EXCEPT ![j] = r], [RecoveredEvents(batch) EXCEPT ![j] = logs[j]])
      BY <1>1, <1>8, UpdateVerifies DEF ReplayInv
    <2> QED
      BY <1>2, <2>1, <2>2 DEF rows, logs
  <1>10. RunsAreClosures(runs', events')
    BY <1>1, <1>2, RecoveryClosesNothing, SameClosures DEF logs, ReplayInv
  <1> QED
    BY <1>9, <1>10 DEF Tables

LEMMA RequestCancelReplays ==
    ASSUME ReplayInv, NEW j \in JobId, RequestCancel(j)
    PROVE  Tables
  <1> DEFINE batch == Batch({j})
             rows == RecoveredJobs(batch)
             logs == RecoveredEvents(batch)
             marked == [rows[j] EXCEPT !.cancelAt = clock, !.updated = clock]
             ended == [marked EXCEPT !.state = "cancelled", !.terminalAt = clock]
             request == Entry("cancel_requested", rows[j].state, rows[j].state, rows[j].attempt, "requester")
             cancel == Entry("cancelled", "queued", "cancelled", rows[j].attempt, "registry")
  <1>1. batch \in SUBSET Expired /\ runs' = runs /\ IInv /\ rows[j].state # "absent"
        /\ clock >= rows[j].updated
    BY BatchIsExpired DEF RequestCancel, ReplayInv
  <1>2. \/ jobs' = rows /\ events' = logs
        \/ /\ ~CancelSettled(rows[j]) /\ rows[j].state # "queued"
           /\ jobs' = [rows EXCEPT ![j] = marked]
           /\ events' = [logs EXCEPT ![j] = Append(logs[j], request)]
        \/ /\ ~CancelSettled(rows[j]) /\ rows[j].state = "queued"
           /\ jobs' = [rows EXCEPT ![j] = ended]
           /\ events' = [logs EXCEPT ![j] = Append(Append(logs[j], request), cancel)]
    BY DEF RequestCancel
  <1>3. rows[j] \in Row /\ logs[j] \in Seq(Event) /\ Verified(j, rows[j], logs[j])
    BY <1>1, Recovery, RecoveryVerifies DEF IInv, ReplayInv
  <1>4. clock \in Nat /\ clock \in Time /\ clock # NoTime /\ rows[j].attempt \in Nat /\ rows[j].updated \in Nat
        /\ rows[j].state \in JobState
    BY <1>1, <1>3, ClockIsTime DEF Row
  <1>5. rows[j].state = "running" => clock <= rows[j].expires
    <2>1. ASSUME rows[j].state = "running" PROVE j \notin Expired /\ rows[j] = jobs[j]
      <3>1. rows[j] = jobs[j]
        BY <1>1, <2>1, Recovery DEF IInv
      <3>2. CASE j \in Expired
        <4>1. j \in batch
          BY <3>2 DEF Batch
        <4>2. rows[j] = ExpireRow(j) /\ AfterExpiry(j) \in {"cancelled", "failed", "queued"} /\ jobs[j] \in Row
          BY <1>1, <4>1, RowAndLog DEF RecoveredJobs, AfterExpiry
        <4>3. rows[j].state # "running"
          BY <4>2, RequeuedFields, ClosedFields DEF ExpireRow
        <4> QED
          BY <2>1, <4>3
      <3> QED
        BY <3>1, <3>2
    <2>2. jobs[j].expires \in Nat
      BY <1>1, RowAndLog DEF Row
    <2> QED
      BY <1>4, <2>1, <2>2 DEF Expired, InState
  <1> HIDE DEF rows, logs, batch
  <1>6. CASE jobs' = rows /\ events' = logs
    BY <1>1, <1>6, RecoveryReplays DEF rows, logs
  <1>7. /\ marked \in Row /\ marked.state = rows[j].state /\ marked.attempt = rows[j].attempt
        /\ marked.updated = clock /\ marked.cancelAt = clock /\ marked.heartbeat = rows[j].heartbeat
        /\ marked.owner = rows[j].owner /\ marked.expires = rows[j].expires
        /\ marked.created = rows[j].created /\ marked.terminalAt = rows[j].terminalAt
        /\ marked.result = rows[j].result /\ marked.failure = rows[j].failure
    BY <1>3, <1>4 DEF Row
  <1>8. request \in Event /\ cancel \in Event /\ ~Closing(request) /\ ~Closing(cancel)
    <2>1. request.kind = "cancel_requested" /\ cancel.from = "queued"
      BY EntryFields
    <2> QED
      BY <1>4, <2>1, EntryType DEF Kinds, JobState, Active, Terminal, Closing
  <1> HIDE DEF marked
  <1>9. /\ ended \in Row /\ ended.state = "cancelled" /\ ended.attempt = rows[j].attempt
        /\ ended.updated = clock /\ ended.cancelAt = clock /\ ended.terminalAt = clock
        /\ ended.heartbeat = rows[j].heartbeat /\ ended.owner = rows[j].owner /\ ended.expires = rows[j].expires
        /\ ended.created = rows[j].created /\ ended.result = rows[j].result /\ ended.failure = rows[j].failure
    BY <1>4, <1>7 DEF Row, JobState, Terminal
  <1> HIDE DEF ended
  <1>10. CASE /\ ~CancelSettled(rows[j]) /\ rows[j].state # "queued"
              /\ jobs' = [rows EXCEPT ![j] = marked]
              /\ events' = [logs EXCEPT ![j] = Append(logs[j], request)]
    <2>1. rows[j].state = "running" /\ rows[j].cancelAt = NoTime
      BY <1>4, <1>10 DEF CancelSettled, JobState, Active
    <2>2. request = Entry("cancel_requested", "running", "running", rows[j].attempt, "requester")
      BY <2>1
    <2> HIDE DEF request
    <2>3. Verified(j, marked, Append(logs[j], request))
      BY <1>1, <1>3, <1>4, <1>5, <1>7, <1>8, <2>1, <2>2, AskVerifies
    <2>4. ClosureRuns(j, Append(logs[j], request)) = ClosureRuns(j, logs[j])
      BY <1>3, <1>8, AppendClosesNothing
    <2>5. AllVerified(jobs', events')
      BY <1>1, <1>10, <2>3, UpdateVerifies DEF rows, logs, ReplayInv
    <2>6. RunsAreClosures(runs', events')
      BY <1>1, <1>10, <2>4, UpdateClosesNothing DEF logs, ReplayInv
    <2> QED
      BY <2>5, <2>6 DEF Tables
  <1>11. CASE /\ ~CancelSettled(rows[j]) /\ rows[j].state = "queued"
              /\ jobs' = [rows EXCEPT ![j] = ended]
              /\ events' = [logs EXCEPT ![j] = Append(Append(logs[j], request), cancel)]
    <2>1. rows[j].cancelAt = NoTime
      BY <1>11 DEF CancelSettled
    <2>2. request = Entry("cancel_requested", "queued", "queued", rows[j].attempt, "requester")
          /\ cancel = Entry("cancelled", "queued", "cancelled", rows[j].attempt, "registry")
      BY <1>11
    <2> HIDE DEF request, cancel
    <2>3. Verified(j, ended, Append(Append(logs[j], request), cancel))
      BY <1>1, <1>3, <1>4, <1>8, <1>9, <1>11, <2>1, <2>2, CancelVerifies
    <2>4. Append(logs[j], request) \in Seq(Event)
      BY <1>3, <1>8, AppendType
    <2>5. ClosureRuns(j, Append(Append(logs[j], request), cancel)) = ClosureRuns(j, logs[j])
      BY <1>3, <1>8, <2>4, AppendClosesNothing
    <2>6. AllVerified(jobs', events')
      BY <1>1, <1>11, <2>3, UpdateVerifies DEF rows, logs, ReplayInv
    <2>7. RunsAreClosures(runs', events')
      BY <1>1, <1>11, <2>5, UpdateClosesNothing DEF logs, ReplayInv
    <2> QED
      BY <2>6, <2>7 DEF Tables
  <1> QED
    BY <1>2, <1>6, <1>10, <1>11

\* What the row and the event of an explicit closure have in common.
ClosesAs(row, kind, status, new) ==
    /\ new \in Row /\ new.attempt = row.attempt /\ new.created = row.created /\ new.cancelAt = row.cancelAt
    /\ new.updated = clock /\ new.owner = NoWorker /\ new.expires = NoTime /\ new.heartbeat = NoTime
    /\ new.terminalAt = IF new.state \in Terminal THEN clock ELSE NoTime
    /\ new.failure # "none" <=> new.state = "failed"
    /\ new.result = IF new.state = "succeeded" THEN new.attempt ELSE 0
    /\ \/ kind = "retried" /\ new.state = "queued" /\ row.cancelAt = NoTime /\ status = "failed"
       \/ kind = "cancelled" /\ new.state = "cancelled" /\ row.cancelAt # NoTime /\ status = "cancelled"
       \/ /\ kind \in {"succeeded", "failed"} /\ new.state = kind /\ row.cancelAt = NoTime /\ status = kind

LEMMA CloseAttemptReplays ==
    ASSUME ReplayInv, NEW lease \in IssuedLeases, NEW kind, NEW status, NEW closed,
           CloseAttempt(lease, kind, status, closed),
           jobs[lease.job].state = "running" => ClosesAs(jobs[lease.job], kind, status, closed)
    PROVE  Tables
  <1> DEFINE batch == Batch({})
             rows == RecoveredJobs(batch)
             logs == RecoveredEvents(batch)
             j == lease.job
             e == Entry(kind, "running", closed.state, rows[j].attempt, lease.worker)
             run == NewRun(rows, lease, status)
  <1>1. batch \in SUBSET Expired /\ IInv /\ j \in JobId /\ lease.worker \in Workers
    BY BatchIsExpired, LeaseType DEF ReplayInv
  <1>2. /\ rows[j].state = "running" /\ clock >= rows[j].updated
        /\ rows[j].owner = lease.worker /\ rows[j].attempt = lease.attempt
        /\ jobs' = [rows EXCEPT ![j] = closed]
        /\ events' = [logs EXCEPT ![j] = Append(logs[j], e)]
        /\ runs' = runs \cup {run}
        /\ \A r \in runs : ~(r.job = j /\ r.attempt = rows[j].attempt)
    BY DEF CloseAttempt, Owns, MayRecordRun
  <1>3. jobs[j].state = "running" /\ rows[j] = jobs[j] /\ logs[j] = events[j]
    BY <1>1, <1>2, Recovery DEF IInv
  <1>4. ClosesAs(rows[j], kind, status, closed)
    BY <1>3
  <1>5. rows[j] \in Row /\ logs[j] \in Seq(Event) /\ Verified(j, rows[j], logs[j])
    BY <1>1, <1>3, RowAndLog DEF ReplayInv, AllVerified
  <1>6. clock \in Nat /\ clock \in Time /\ rows[j].attempt \in Nat /\ rows[j].updated \in Nat
    BY <1>1, <1>5, ClockIsTime DEF Row
  <1>7. e.kind = kind /\ e.from = "running" /\ e.to = closed.state /\ e.at = clock
        /\ e.attempt = rows[j].attempt /\ e.actor = rows[j].owner
    BY <1>2, EntryFields
  <1>8. run.job = j /\ run.attempt = rows[j].attempt /\ run = RunOf(j, e)
    <2>1. StatusOf(e) = status
      BY <1>4, <1>7 DEF ClosesAs, StatusOf
    <2> QED
      BY <1>7, <2>1 DEF NewRun, RunOf
  <1> HIDE DEF rows, logs, batch, j, run
  <1>9. e \in Event
    <2>1. kind \in Kinds /\ closed.state \in JobState /\ "running" \in JobState \cup {"none"}
      BY <1>4 DEF ClosesAs, Kinds, JobState, Active, Terminal
    <2> QED
      BY <1>1, <1>6, <2>1, EntryType
  <1> HIDE DEF e
  <1>10. Closing(e)
    BY <1>4, <1>7 DEF ClosesAs, Closing
  <1>11. /\ LastEvent(logs[j]).at <= rows[j].updated /\ LastEvent(logs[j]).to = "running"
         /\ LastEvent(logs[j]).attempt = rows[j].attempt
         /\ rows[j].cancelAt # NoTime <=> Asked(logs[j]) # {}
    BY <1>1, <1>2, <1>5, LeaseChronology
  <1>12. Claimed(logs[j], e)
    <2>1. PICK k \in 1..Len(logs[j]) : /\ logs[j][k].kind = "claimed"
                                       /\ logs[j][k].attempt = rows[j].attempt
                                       /\ logs[j][k].actor = rows[j].owner
      BY <1>1, <1>2, <1>5, LeaseChronology
    <2> QED
      BY <1>7, <2>1 DEF Claimed
  <1>13. LastEvent(logs[j]).at <= clock
    <2>1. LastEvent(logs[j]) \in Event
      BY <1>2, <1>5 DEF Verified, Replays, LastEvent
    <2> QED
      BY <1>2, <1>6, <1>11, <2>1 DEF Event
  <1>14. Continues(j, logs[j], e)
    BY <1>4, <1>7, <1>11, <1>12, <1>13 DEF Continues, ClosesAs
  <1>15. Verified(j, closed, Append(logs[j], e))
    <2>1. /\ e.kind \notin {"cancel_requested", "claimed"} /\ closed.state \in {"queued"} \cup Terminal
          /\ closed.state = e.to /\ closed.updated = e.at /\ rows[j].updated <= e.at
          /\ closed.terminalAt = IF closed.state \in Terminal THEN e.at ELSE NoTime
          /\ e.kind = "lease_expired" /\ closed.state = "failed" => closed.failure = "lease_attempts_exhausted"
          /\ closed.state = "cancelled" <=> rows[j].cancelAt # NoTime
      BY <1>2, <1>4, <1>6, <1>7 DEF ClosesAs, Terminal
    <2>2. /\ closed \in Row /\ closed.attempt = rows[j].attempt /\ closed.created = rows[j].created
          /\ closed.cancelAt = rows[j].cancelAt
          /\ closed.owner = NoWorker /\ closed.expires = NoTime /\ closed.heartbeat = NoTime
          /\ closed.failure # "none" <=> closed.state = "failed"
          /\ closed.result = IF closed.state = "succeeded" THEN closed.attempt ELSE 0
      BY <1>4 DEF ClosesAs
    <2> QED
      BY <1>1, <1>2, <1>5, <1>9, <1>14, <2>1, <2>2, AttemptEnds
  <1>16. AllVerified(jobs', events')
    BY <1>1, <1>2, <1>15, UpdateVerifies DEF rows, logs, ReplayInv
  <1>17. ASSUME NEW i \in JobId
         PROVE  ClosureRuns(i, events'[i]) = ClosureRuns(i, events[i]) \cup IF i = j THEN {run} ELSE {}
    <2>1. CASE i = j
      <3>1. events'[j] = Append(logs[j], e)
        BY <1>1, <1>2 DEF logs, RecoveredEvents
      <3>2. ClosureRuns(j, Append(logs[j], e)) = ClosureRuns(j, logs[j]) \cup IF Closing(e) THEN {RunOf(j, e)} ELSE {}
        BY <1>1, <1>5, <1>9, AppendClosures
      <3>3. (IF Closing(e) THEN {RunOf(j, e)} ELSE {}) = {run}
        BY <1>8, <1>10
      <3> QED
        BY <1>3, <2>1, <3>1, <3>2, <3>3
    <2>2. CASE i # j
      <3>1. events'[i] = logs[i]
        BY <1>2, <2>2 DEF logs, RecoveredEvents
      <3>2. ClosureRuns(i, logs[i]) = ClosureRuns(i, events[i])
        BY <1>1, RecoveryClosesNothing DEF logs
      <3> QED
        BY <2>2, <3>1, <3>2
    <2> QED
      BY <2>1, <2>2
  <1>18. RunsAreClosures(runs', events')
    <2>1. runs' = runs \cup {run} /\ RunsAreClosures(runs, events)
      BY <1>2 DEF ReplayInv
    <2>2. ASSUME NEW r \in runs' PROVE r.job \in JobId /\ r \in ClosureRuns(r.job, events'[r.job])
      <3>1. CASE r \in runs
        BY <1>17, <2>1, <3>1 DEF RunsAreClosures
      <3>2. CASE r = run
        BY <1>1, <1>8, <1>17, <3>2
      <3> QED
        BY <2>1, <3>1, <3>2
    <2>3. ASSUME NEW i \in JobId PROVE ClosureRuns(i, events'[i]) \subseteq runs'
      <3>1. ClosureRuns(i, events[i]) \subseteq runs
        BY <2>1 DEF RunsAreClosures
      <3>2. (IF i = j THEN {run} ELSE {}) \subseteq {run}
        OBVIOUS
      <3> QED
        BY <1>17, <2>1, <3>1, <3>2
    <2>4. ASSUME NEW r \in runs', NEW s \in runs', r.job = s.job, r.attempt = s.attempt PROVE r = s
      <3>1. CASE r \in runs /\ s \in runs
        BY <2>1, <2>4, <3>1 DEF RunsAreClosures
      <3>2. \A x \in runs : ~(x.job = run.job /\ x.attempt = run.attempt)
        BY <1>2, <1>8
      <3>3. CASE r = run \/ s = run
        BY <2>1, <2>4, <3>2, <3>3
      <3> QED
        BY <2>1, <3>1, <3>3
    <2> QED
      BY <2>2, <2>3, <2>4 DEF RunsAreClosures
  <1> QED
    BY <1>16, <1>18 DEF Tables

LEMMA ClosureReplays ==
    ASSUME ReplayInv, NEW lease \in IssuedLeases,
           \/ AcknowledgeCancel(lease) \/ Complete(lease)
           \/ \E retryable \in BOOLEAN : Fail(lease, retryable)
    PROVE  Tables
  <1> DEFINE j == lease.job
             row == jobs[j]
  <1>1. j \in JobId /\ row \in Row /\ clock \in Time /\ row.attempt \in Nat /\ IInv
    BY LeaseType, RowAndLog, FieldTypes DEF ReplayInv, IInv, TypeOK
  <1>2. row.state = "running" => row.terminalAt = NoTime /\ row.failure = "none" /\ row.result = 0
    BY <1>1, RowAndLog, LeaseChronology DEF ReplayInv, AllVerified
  <1>3. /\ "cancelled" \in JobState /\ "succeeded" \in JobState /\ "failed" \in JobState
        /\ "none" \in Codes /\ "reported" \in Codes /\ 0 \in Nat
    BY DEF JobState, Terminal, Codes
  <1>4. CASE CancelRequested(lease) /\ CloseAttempt(lease, "cancelled", "cancelled", CancelledRow(j))
    <2>1. CancelledRow(j) = Closed(row, "cancelled", 0, "none") /\ row.cancelAt # NoTime
      BY <1>4 DEF CancelledRow, CancelRequested
    <2>2. Closed(row, "cancelled", 0, "none") \in Row
      BY <1>1, <1>3, ClosedRow
    <2> HIDE DEF row
    <2>3. ClosesAs(row, "cancelled", "cancelled", Closed(row, "cancelled", 0, "none"))
      BY <1>1, <2>1, <2>2, ClosedFields DEF ClosesAs, Terminal
    <2> QED
      BY <1>4, <2>1, <2>3, CloseAttemptReplays DEF row
  <1>5. CASE ~CancelRequested(lease) /\ CloseAttempt(lease, "succeeded", "succeeded", SucceededRow(j))
    <2>1. SucceededRow(j) = Closed(row, "succeeded", row.attempt, "none") /\ row.cancelAt = NoTime
      BY <1>5 DEF SucceededRow, CancelRequested
    <2>2. Closed(row, "succeeded", row.attempt, "none") \in Row
      BY <1>1, <1>3, ClosedRow
    <2> HIDE DEF row
    <2>3. ClosesAs(row, "succeeded", "succeeded", Closed(row, "succeeded", row.attempt, "none"))
      BY <1>1, <2>1, <2>2, ClosedFields DEF ClosesAs, Terminal
    <2> QED
      BY <1>5, <2>1, <2>3, CloseAttemptReplays DEF row
  <1>6. CASE ~CancelRequested(lease) /\ CloseAttempt(lease, "failed", "failed", FailedRow(j))
    <2>1. FailedRow(j) = Closed(row, "failed", 0, "reported") /\ row.cancelAt = NoTime
      BY <1>6 DEF FailedRow, CancelRequested
    <2>2. Closed(row, "failed", 0, "reported") \in Row
      BY <1>1, <1>3, ClosedRow
    <2> HIDE DEF row
    <2>3. ClosesAs(row, "failed", "failed", Closed(row, "failed", 0, "reported"))
      BY <1>1, <2>1, <2>2, ClosedFields DEF ClosesAs, Terminal
    <2> QED
      BY <1>6, <2>1, <2>3, CloseAttemptReplays DEF row
  <1>7. CASE ~CancelRequested(lease) /\ CloseAttempt(lease, "retried", "failed", Requeued(row))
    <2>1. Requeued(row) \in Row /\ row.cancelAt = NoTime
      BY <1>1, <1>7, RequeuedRow DEF CancelRequested
    <2> HIDE DEF row
    <2>2. row.state = "running" => ClosesAs(row, "retried", "failed", Requeued(row))
      BY <1>1, <1>2, <2>1, RequeuedFields DEF ClosesAs, Terminal
    <2> QED
      BY <1>7, <2>2, CloseAttemptReplays DEF row
  <1> QED
    BY <1>4, <1>5, <1>6, <1>7 DEF AcknowledgeCancel, Complete, Fail

-----------------------------------------------------------------------------
LEMMA ReplayKeeps ==
    ASSUME ReplayInv, [Next]_vars
    PROVE  ReplayInv'
  <1>1. IInv'
    BY NextInv DEF ReplayInv
  <1>2. ASSUME jobs' = jobs, events' = events, runs' = runs PROVE Tables
    BY <1>2 DEF ReplayInv, Tables, AllVerified, RunsAreClosures
  <1>3. ASSUME UNCHANGED vars PROVE Tables
    BY <1>2, <1>3 DEF vars
  <1>4. ASSUME Next PROVE Tables
    <2>1. ASSUME NEW j \in JobId, Submit(j) \/ RequestCancel(j) PROVE Tables
      BY <2>1, SubmitReplays, RequestCancelReplays
    <2>2. ASSUME NEW lease \in IssuedLeases,
                 \/ AcknowledgeCancel(lease) \/ Complete(lease)
                 \/ \E retryable \in BOOLEAN : Fail(lease, retryable)
          PROVE  Tables
      BY <2>2, ClosureReplays
    <2>3. CASE RecoverExpired
      <3>1. /\ Batch({}) \in SUBSET Expired /\ runs' = runs
            /\ jobs' = RecoveredJobs(Batch({})) /\ events' = RecoveredEvents(Batch({}))
        BY <2>3, BatchIsExpired DEF RecoverExpired
      <3> QED
        BY <3>1, RecoveryReplays
    <2>4. CASE StageRetention \/ FinishRetention \/ Tick \/ ClockRegress
      BY <1>2, <2>4 DEF StageRetention, FinishRetention, Tick, ClockRegress
    <2> QED
      BY <1>4, <2>1, <2>2, <2>3, <2>4, ClaimReplays, HeartbeatReplays DEF Next
  <1>5. Tables
    BY <1>3, <1>4
  <1> QED
    BY <1>1, <1>5 DEF Tables, ReplayInv, AllVerified, RunsAreClosures

LEMMA InitReplays == Init => ReplayInv
  <1> SUFFICES ASSUME Init PROVE ReplayInv
    OBVIOUS
  <1>1. runs = {} /\ \A j \in JobId : jobs[j] = NoRow /\ events[j] = <<>>
    BY DEF Init
  <1>2. Len(<<>>) = 0 /\ Asked(<<>>) = {} /\ ExplicitClosures(<<>>) = {}
    BY DEF Asked, ExplicitClosures
  <1>3. NoRow.state = "absent" /\ NoRow.cancelAt = NoTime /\ NoRow.result = 0
    BY DEF NoRow
  <1>4. ASSUME NEW j PROVE Verified(j, NoRow, <<>>)
    BY <1>2, <1>3 DEF Verified, Replays
  <1>5. AllVerified(jobs, events)
    BY <1>1, <1>4 DEF AllVerified
  <1>6. \A j \in JobId : ClosureRuns(j, events[j]) = {}
    BY <1>1, <1>2 DEF ClosureRuns
  <1> QED
    BY <1>1, <1>5, <1>6, InitInv DEF ReplayInv, RunsAreClosures

LEMMA ReplayInvariance == Spec => []ReplayInv
  BY InitReplays, ReplayKeeps, PTL DEF Spec

\* Whatever is called in whatever order, with the clock set back or not, the store the
\* registry leaves is one its own verifier accepts at the next start.
THEOREM VerifierAccepted == Spec => []VerifierAccepts
  <1>1. ASSUME ReplayInv PROVE VerifierAccepts
    <2>1. LifecycleReplays /\ RowMatchesLog
      BY <1>1 DEF ReplayInv, AllVerified, Verified, LifecycleReplays, RowMatchesLog
    <2>2. \A j \in JobId : \A i \in ExplicitClosures(events[j]) : RunOf(j, events[j][i]) \in runs
      BY <1>1 DEF ReplayInv, RunsAreClosures, ClosureRuns
    <2>3. ASSUME NEW r \in runs
          PROVE  \E i \in ExplicitClosures(events[r.job]) : events[r.job][i].attempt = r.attempt
      <3>1. PICK i \in ExplicitClosures(events[r.job]) : r = RunOf(r.job, events[r.job][i])
        BY <1>1 DEF ReplayInv, RunsAreClosures, ClosureRuns
      <3> QED
        BY <3>1 DEF RunOf
    <2>4. \A j \in JobId : jobs[j].result = IF jobs[j].state = "succeeded" THEN jobs[j].attempt ELSE 0
      BY <1>1 DEF ReplayInv, AllVerified, Verified
    <2>5. \A r, s \in runs : r.job = s.job /\ r.attempt = s.attempt => r = s
      BY <1>1 DEF ReplayInv, RunsAreClosures
    <2>6. RunsMatchClosures
      BY <2>2, <2>3, <2>4, <2>5 DEF RunsMatchClosures
    <2> QED
      BY <2>1, <2>6 DEF VerifierAccepts
  <1> QED
    BY <1>1, ReplayInvariance, PTL
-----------------------------------------------------------------------------
\* Who takes an attempt from whom, and who enters the queue.

\* OwnershipIsFenced, said of one step.
HandedOver(j) ==
    jobs'[j].attempt # jobs[j].attempt \/ jobs'[j].state # "running" =>
       \/ jobs[j].expires <= clock
       \/ /\ Len(events'[j]) = Len(events[j]) + 1
          /\ events'[j][Len(events'[j])].actor = jobs[j].owner

Fences == \A j \in InState({"running"}) : HandedOver(j)

NoneJoins == \A j \in JobId : jobs'[j].state \in Active => jobs[j].state \in Active

LEMMA RecoveryFences ==
    ASSUME IInv, NEW batch \in SUBSET Expired, NEW j \in JobId, jobs'[j] = RecoveredJobs(batch)[j]
    PROVE  /\ jobs[j].state = "running" => HandedOver(j)
           /\ jobs'[j].state \in Active => jobs[j].state \in Active
  <1>1. CASE j \in batch
    BY <1>1 DEF Expired, InState, HandedOver, Active
  <1>2. CASE j \notin batch
    BY <1>2 DEF RecoveredJobs, HandedOver
  <1> QED
    BY <1>1, <1>2

\* A transaction that recovers, then rewrites the row of an active job.
LEMMA UpdateFences ==
    ASSUME IInv, NEW batch \in SUBSET Expired, NEW k \in JobId, NEW r,
           jobs' = [RecoveredJobs(batch) EXCEPT ![k] = r],
           jobs[k].state \in Active,
           jobs[k].state = "running" /\ ~(jobs[k].expires <= clock) => HandedOver(k)
    PROVE  Fences /\ NoneJoins
  <1>1. \A j \in JobId : j # k => jobs'[j] = RecoveredJobs(batch)[j]
    BY DEF RecoveredJobs
  <1>2. jobs[k].state = "running" => HandedOver(k)
    BY DEF HandedOver
  <1>3. ASSUME NEW j \in JobId
        PROVE  /\ jobs[j].state = "running" => HandedOver(j)
               /\ jobs'[j].state \in Active => jobs[j].state \in Active
    <2>1. CASE j = k
      BY <1>2, <2>1
    <2>2. CASE j # k
      BY <1>1, <2>2, RecoveryFences
    <2> QED
      BY <2>1, <2>2
  <1> QED
    BY <1>3 DEF Fences, NoneJoins, InState

LEMMA AllRecoveredFence ==
    ASSUME IInv, NEW batch \in SUBSET Expired, jobs' = RecoveredJobs(batch)
    PROVE  Fences /\ NoneJoins
  BY RecoveryFences DEF Fences, NoneJoins, InState

LEMMA SubmitFences ==
    ASSUME IInv, NEW j \in JobId, Submit(j)
    PROVE  Fences
  <1>1. jobs[j].state = "absent" /\ \A i \in JobId : i # j => jobs'[i] = jobs[i]
    BY DEF Submit, IInv, TypeOK
  <1> QED
    BY <1>1 DEF Fences, HandedOver, InState

LEMMA ClaimFences ==
    ASSUME IInv, NEW w \in Workers, NEW term \in LeaseTerms, Claim(w, term)
    PROVE  Fences /\ NoneJoins
  <1> DEFINE rows == RecoveredJobs(Batch({}))
  <1>1. Batch({}) \in SUBSET Expired
    BY BatchIsExpired
  <1>2. CASE jobs' = rows
    BY <1>1, <1>2, AllRecoveredFence
  <1>3. ASSUME NEW j \in NextQueued(rows), NEW r, jobs' = [rows EXCEPT ![j] = r]
        PROVE  Fences /\ NoneJoins
    <2>1. j \in JobId /\ rows[j].state = "queued"
      BY DEF NextQueued
    <2>2. jobs[j].state \in Active
      BY <1>1, <2>1, Recovery DEF IInv
    <2>3. jobs[j].state = "running" => j \in Batch({})
      BY <2>1 DEF RecoveredJobs
    <2>4. jobs[j].state = "running" => jobs[j].expires <= clock
      BY <1>1, <2>3 DEF Expired
    <2> QED
      BY <1>1, <1>3, <2>1, <2>2, <2>4, UpdateFences
  <1> QED
    BY <1>2, <1>3 DEF Claim

LEMMA HeartbeatFences ==
    ASSUME IInv, NEW lease \in IssuedLeases, NEW term \in LeaseTerms, Heartbeat(lease, term)
    PROVE  Fences /\ NoneJoins
  <1> DEFINE rows == RecoveredJobs(Batch({}))
             k == lease.job
             r == [rows[k] EXCEPT !.updated = clock, !.heartbeat = clock, !.expires = clock + term]
  <1>1. k \in JobId /\ Batch({}) \in SUBSET Expired
    BY LeaseType, BatchIsExpired
  <1>2. rows[k].state = "running" /\ jobs' = [rows EXCEPT ![k] = r]
    BY DEF Heartbeat, Owns
  <1>3. rows[k] = jobs[k] /\ jobs[k] \in Row /\ jobs[k].state = "running"
    BY <1>1, <1>2, Recovery DEF IInv, TypeOK
  <1>4. jobs'[k] = r
    BY <1>1, <1>2 DEF RecoveredJobs
  <1> HIDE DEF rows
  <1>5. r.state = "running" /\ r.attempt = jobs[k].attempt
    BY <1>2, <1>3 DEF Row
  <1> HIDE DEF r
  <1>6. HandedOver(k)
    BY <1>4, <1>5 DEF HandedOver
  <1> QED
    BY <1>1, <1>2, <1>3, <1>6, UpdateFences DEF rows, Active

LEMMA RequestCancelFences ==
    ASSUME IInv, NEW j \in JobId, RequestCancel(j)
    PROVE  Fences /\ NoneJoins
  <1> DEFINE rows == RecoveredJobs(Batch({j}))
             marked == [rows[j] EXCEPT !.cancelAt = clock, !.updated = clock]
             ended == [marked EXCEPT !.state = "cancelled", !.terminalAt = clock]
  <1>1. Batch({j}) \in SUBSET Expired
    BY BatchIsExpired
  <1>2. \/ jobs' = rows
        \/ /\ ~CancelSettled(rows[j]) /\ rows[j].state \notin {"queued", "absent"}
           /\ jobs' = [rows EXCEPT ![j] = marked]
        \/ /\ ~CancelSettled(rows[j]) /\ rows[j].state = "queued"
           /\ jobs' = [rows EXCEPT ![j] = ended]
    BY DEF RequestCancel
  <1>3. /\ rows[j] \in Row /\ rows[j].attempt = jobs[j].attempt
        /\ rows[j].state = "running" => jobs[j].state = "running"
        /\ rows[j].state = "queued" => jobs[j].state \in Active
    BY <1>1, Recovery DEF IInv
  <1>4. CASE jobs' = rows
    BY <1>1, <1>4, AllRecoveredFence
  <1>5. CASE /\ ~CancelSettled(rows[j]) /\ rows[j].state \notin {"queued", "absent"}
             /\ jobs' = [rows EXCEPT ![j] = marked]
    <2>1. rows[j].state = "running"
      BY <1>3, <1>5 DEF CancelSettled, Row, JobState, Active
    <2>2. jobs'[j] = marked
      BY <1>5 DEF RecoveredJobs
    <2> HIDE DEF rows
    <2>3. marked.state = "running" /\ marked.attempt = jobs[j].attempt
      BY <1>3, <2>1 DEF Row
    <2> HIDE DEF marked
    <2>4. HandedOver(j)
      BY <2>2, <2>3 DEF HandedOver
    <2> QED
      BY <1>1, <1>3, <1>5, <2>1, <2>4, UpdateFences DEF rows, Active
  <1>6. CASE rows[j].state = "queued" /\ jobs' = [rows EXCEPT ![j] = ended]
    <2>1. jobs[j].state = "running" => j \in Batch({j})
      BY <1>6 DEF RecoveredJobs
    <2>2. jobs[j].state = "running" => jobs[j].expires <= clock
      BY <1>1, <2>1 DEF Expired
    <2> HIDE DEF ended
    <2> QED
      BY <1>1, <1>3, <1>6, <2>2, UpdateFences
  <1> QED
    BY <1>2, <1>4, <1>5, <1>6

LEMMA ClosureFences ==
    ASSUME IInv, NEW lease \in IssuedLeases, NEW kind, NEW status, NEW closed,
           CloseAttempt(lease, kind, status, closed)
    PROVE  Fences /\ NoneJoins
  <1> DEFINE rows == RecoveredJobs(Batch({}))
             logs == RecoveredEvents(Batch({}))
             k == lease.job
             e == Entry(kind, "running", closed.state, rows[k].attempt, lease.worker)
  <1>1. k \in JobId /\ Batch({}) \in SUBSET Expired
    BY LeaseType, BatchIsExpired
  <1>2. /\ rows[k].state = "running" /\ rows[k].owner = lease.worker
        /\ jobs' = [rows EXCEPT ![k] = closed] /\ events' = [logs EXCEPT ![k] = Append(logs[k], e)]
    BY DEF CloseAttempt, Owns
  <1>3. /\ rows[k] = jobs[k] /\ logs[k] = events[k] /\ jobs[k].state = "running"
        /\ events[k] \in Seq(Event)
    BY <1>1, <1>2, Recovery DEF IInv, TypeOK
  <1>4. events'[k] = Append(events[k], e)
    BY <1>1, <1>2, <1>3 DEF RecoveredEvents
  <1>5. e.actor = jobs[k].owner
    BY <1>2, <1>3 DEF Entry
  <1> HIDE DEF e, rows, logs
  <1>6. Len(Append(events[k], e)) = Len(events[k]) + 1 /\ Append(events[k], e)[Len(events[k]) + 1] = e
    BY <1>3
  <1>7. HandedOver(k)
    BY <1>4, <1>5, <1>6 DEF HandedOver
  <1> QED
    BY <1>1, <1>2, <1>3, <1>7, UpdateFences DEF rows, Active

LEMMA NextFences ==
    ASSUME IInv, Next
    PROVE  Fences /\ (NoneJoins \/ \E j \in JobId : Submit(j))
  <1>1. ASSUME NEW lease \in IssuedLeases,
               \/ AcknowledgeCancel(lease) \/ Complete(lease)
               \/ \E retryable \in BOOLEAN : Fail(lease, retryable)
        PROVE  Fences /\ NoneJoins
    BY <1>1, ClosureFences DEF AcknowledgeCancel, Complete, Fail
  <1>2. ASSUME RecoverExpired PROVE Fences /\ NoneJoins
    <2>1. Batch({}) \in SUBSET Expired /\ jobs' = RecoveredJobs(Batch({}))
      BY <1>2, BatchIsExpired DEF RecoverExpired
    <2> QED
      BY <2>1, AllRecoveredFence
  <1>3. ASSUME StageRetention \/ FinishRetention \/ Tick \/ ClockRegress PROVE Fences /\ NoneJoins
    BY <1>3 DEF StageRetention, FinishRetention, Tick, ClockRegress, Fences, HandedOver, NoneJoins, InState
  <1> QED
    BY <1>1, <1>2, <1>3, SubmitFences, RequestCancelFences, ClaimFences, HeartbeatFences DEF Next

\* No operation takes a live attempt from its owner behind its back: a running attempt ends
\* by its owner's own closing event, or its lease had expired.
THEOREM Fenced == Spec => OwnershipIsFenced
  <1>1. IInv /\ [Next]_vars =>
          [\A j \in InState({"running"}) :
              jobs'[j].attempt # jobs[j].attempt \/ jobs'[j].state # "running" =>
                 \/ jobs[j].expires <= clock
                 \/ /\ Len(events'[j]) = Len(events[j]) + 1
                    /\ events'[j][Len(events'[j])].actor = jobs[j].owner]_vars
    BY NextFences DEF Fences, HandedOver
  <1> QED
    BY <1>1, Invariance, PTL DEF Spec, OwnershipIsFenced

LEMMA OpenJobsAreFinite == \A s : IsFiniteSet(InState(s)) /\ Cardinality(InState(s)) \in Nat
  <1>1. IsFiniteSet(JobId)
    BY BoundsAssumption, FS_Interval DEF JobId
  <1>2. ASSUME NEW s PROVE InState(s) \in SUBSET JobId
    BY DEF InState
  <1> QED
    BY <1>1, <1>2, FS_Subset, FS_CardinalityType

LEMMA CapacityKept ==
    ASSUME IInv, QueueWithinCapacity, [Next]_vars
    PROVE  QueueWithinCapacity'
  <1> DEFINE open == InState(Active)
             openNext == {i \in JobId : jobs'[i].state \in Active}
  <1>1. InState(Active)' = openNext
    BY DEF InState, Active
  <1>2. IsFiniteSet(open) /\ Cardinality(open) \in Nat /\ QueueCapacity \in Nat
        /\ Cardinality(open) <= QueueCapacity
    BY OpenJobsAreFinite, LimitAssumption DEF QueueWithinCapacity
  <1>3. ASSUME openNext \subseteq open PROVE Cardinality(openNext) <= QueueCapacity
    <2>1. IsFiniteSet(openNext) /\ Cardinality(openNext) <= Cardinality(open)
      BY <1>2, <1>3, FS_Subset
    <2>2. Cardinality(openNext) \in Nat
      BY <2>1, FS_CardinalityType
    <2> QED
      BY <1>2, <2>1, <2>2
  <1>4. ASSUME NEW j \in JobId, Submit(j) PROVE Cardinality(openNext) <= QueueCapacity
    <2>1. Cardinality(open) < QueueCapacity /\ \A i \in JobId : i # j => jobs'[i] = jobs[i]
      BY <1>4 DEF Submit, OpenJobs, IInv, TypeOK
    <2>2. openNext \subseteq open \cup {j}
      BY <2>1 DEF InState
    <2>3. IsFiniteSet(open \cup {j}) /\ Cardinality(open \cup {j}) <= Cardinality(open) + 1
          /\ Cardinality(open \cup {j}) \in Nat
      BY <1>2, FS_AddElement
    <2>4. IsFiniteSet(openNext) /\ Cardinality(openNext) <= Cardinality(open \cup {j})
      BY <2>2, <2>3, FS_Subset
    <2>5. Cardinality(openNext) \in Nat
      BY <2>4, FS_CardinalityType
    <2> HIDE DEF open, openNext
    <2> QED
      BY <1>2, <2>1, <2>3, <2>4, <2>5
  <1>5. ASSUME NoneJoins PROVE openNext \subseteq open
    BY <1>5 DEF NoneJoins, InState
  <1>6. ASSUME UNCHANGED vars PROVE openNext \subseteq open
    BY <1>6 DEF vars, InState
  <1>7. Cardinality(openNext) <= QueueCapacity
    BY <1>3, <1>4, <1>5, <1>6, NextFences
  <1> QED
    BY <1>1, <1>7 DEF QueueWithinCapacity

\* Requeueing never overflows the queue: running jobs were counted when they were admitted.
THEOREM QueueBounded == Spec => []QueueWithinCapacity
  <1>1. Init => QueueWithinCapacity
    <2>1. ASSUME Init PROVE InState(Active) = {}
      BY <2>1 DEF Init, InState, Active, NoRow
    <2> QED
      BY <2>1, FS_EmptySet, LimitAssumption DEF QueueWithinCapacity
  <1> QED
    BY <1>1, CapacityKept, Invariance, PTL DEF Spec
=============================================================================
