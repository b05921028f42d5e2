---------------------------- MODULE EvidenceReads ----------------------------
(***************************************************************************)
(* Paged reads of the registry while it is written                          *)
(* (RunRegistry.list_jobs and list_events, RegistryReadPorts.list_runs and  *)
(* list_run_artifacts):                                                     *)
(* every page is a read transaction of its own, and a cursor carries from   *)
(* one to the next what the first one fixed.  Jobs change their state,      *)
(* events and registry runs are only ever appended, and the rows of the     *)
(* legacy tracker, listed behind the registry's runs, may be changed or     *)
(* deleted by hand, after which SQLite gives their rowids away again.       *)
(* The cursor's HMAC is external: a cursor comes back as it was issued.     *)
(***************************************************************************)
EXTENDS Naturals, Sequences, FiniteSets, SequencesExt

CONSTANTS
    States,                      \* of a job; the first event leaves it in Fresh
    Fresh,
    RunIds, Statuses,            \* of a terminal run
    Filters,                     \* the statuses asked for, among them
    All,                         \* no filter
    Base,                        \* legacy rows are numbered from here (2^31)
    PageSize,
    Roles,                       \* of an artifact in its run
    MaxJobs, MaxEvents, MaxRuns, MaxLinks  \* bounds, MaxLinks of one run

Gone == [id |-> All, status |-> All]

VARIABLES
    jobs,      \* the state of each job, by its sequence
    events,    \* the job of each event, by its sequence
    runs,      \* the registry's runs, by their sequence
    legacy,    \* the legacy row at each rowid, Gone if there is none
    links,     \* the run and role of each artifact linked, by its sequence
    reading,   \* the listing under way: its query, its cursor, what it returned
    expected,  \* what was there for it when its first page was read
    topic      \* the lists share no rows: a behaviour is about one of them

vars == <<jobs, events, runs, legacy, links, reading, expected, topic>>

Run == [id : RunIds, status : Statuses]
Link == [run : RunIds, role : Roles]
Idle == [kind |-> "none", filter |-> All, source |-> All, started |-> FALSE, snapshot |-> 0,
         seen |-> 0, after |-> 0, print |-> <<>>, got |-> <<>>, done |-> FALSE]

TypeOK ==
    /\ jobs \in Seq(States) /\ Len(jobs) <= MaxJobs
    /\ events \in Seq(1..MaxJobs) /\ Len(events) <= MaxEvents
    /\ runs \in Seq(Run) /\ Len(runs) <= MaxRuns
    /\ legacy \in [1..(Base - 1) -> Run \cup {Gone}]
    /\ links \in Seq(Link) /\ Len(links) <= MaxLinks * MaxRuns
    /\ reading.kind \in {"none", "jobs", "events", "runs", "artifacts"}
    /\ reading.after \in Nat /\ reading.snapshot \in Nat

Init ==
    /\ jobs = <<>> /\ events = <<>> /\ runs = <<>> /\ links = <<>>
    /\ legacy = [n \in 1..(Base - 1) |-> Gone]
    /\ reading = Idle /\ expected = <<>>
    /\ topic \in {"jobs", "runs", "artifacts"}

-----------------------------------------------------------------------------
\* What the writers commit.

HasRoom == Len(events) < MaxEvents

Submit ==
    /\ HasRoom /\ Len(jobs) < MaxJobs
    /\ jobs' = Append(jobs, Fresh) /\ events' = Append(events, Len(jobs) + 1)
    /\ UNCHANGED <<runs, legacy, links, reading, expected, topic>>

\* Every change of state leaves an event.
Change(j, state) ==
    /\ HasRoom /\ jobs[j] # state /\ state # Fresh
    /\ jobs' = [jobs EXCEPT ![j] = state] /\ events' = Append(events, j)
    /\ UNCHANGED <<runs, legacy, links, reading, expected, topic>>

\* A run is recorded with the links of its artifacts, one after the other; no link is
\* added, changed or removed later.
AddRun(run, roles) ==
    /\ Len(runs) < MaxRuns /\ \A i \in 1..Len(runs) : runs[i].id # run.id
    /\ runs' = Append(runs, run)
    /\ links' = links \o [i \in 1..Len(roles) |-> [run |-> run.id, role |-> roles[i]]]
    /\ UNCHANGED <<jobs, events, legacy, reading, expected, topic>>

Rows == {n \in 1..(Base - 1) : legacy[n] # Gone}
LegacyMax == IF Rows = {} THEN 0 ELSE Max(Rows)

\* The legacy tracker inserts a finished run, whose id is its primary key.
PersistLegacy(run) ==
    /\ LegacyMax + 1 < Base /\ \A n \in Rows : legacy[n].id # run.id
    /\ legacy' = [legacy EXCEPT ![LegacyMax + 1] = run]
    /\ UNCHANGED <<jobs, events, runs, links, reading, expected, topic>>

\* Somebody edits or deletes a legacy row.
TouchLegacy(n, row) ==
    /\ n \in Rows /\ row # legacy[n]
    /\ \/ row = Gone
       \/ row.id = legacy[n].id
    /\ legacy' = [legacy EXCEPT ![n] = row]
    /\ UNCHANGED <<jobs, events, runs, links, reading, expected, topic>>

-----------------------------------------------------------------------------
\* list_jobs

\* Rows in the order of their positions.
InOrder(found) ==
    [i \in 1..Cardinality(found) |-> CHOOSE n \in found : Cardinality({m \in found : m <= n}) = i]

\* The rows behind the cursor, up to the snapshot.
JobRows(filter, after, snapshot) ==
    InOrder({n \in (after + 1)..snapshot : filter \in {All, jobs[n]}})

\* Mutant: jobs that changed since the first page are not looked for.
NeverChanged(after, snapshot, seen) == FALSE

\* A job still to come has an event the first page did not see.
ChangedSince(after, snapshot, seen) ==
    \E e \in (seen + 1)..Len(events) : events[e] \in (after + 1)..snapshot

StateFilterBroken ==
    reading.filter # All /\ reading.started
        /\ ChangedSince(reading.after, reading.snapshot, reading.seen)

\* Mutant: the row after the page is the page's last.
OneTooMany(rows) == SubSeq(rows, 1, IF Len(rows) <= PageSize THEN Len(rows) ELSE PageSize + 1)

Visible(rows) == SubSeq(rows, 1, IF Len(rows) < PageSize THEN Len(rows) ELSE PageSize)

\* A page of rows, with a cursor if there are more.
Turn(rows, item, snapshot, seen, print) ==
    reading' = [reading EXCEPT
        !.started = TRUE, !.snapshot = snapshot, !.seen = seen, !.print = print,
        !.got = @ \o [i \in 1..Len(Visible(rows)) |-> item[Visible(rows)[i]]],
        !.after = IF Len(rows) > PageSize THEN rows[PageSize] ELSE @,
        !.done = Len(rows) <= PageSize]

\* What the first page sees is what the listing is to return.
Expect(rows, item) ==
    expected' = IF reading.started THEN expected ELSE [i \in 1..Len(rows) |-> item[rows[i]]]

ListJobs ==
    /\ reading.kind = "jobs" /\ ~reading.done /\ ~StateFilterBroken
    /\ LET snapshot == IF reading.started THEN reading.snapshot ELSE Len(jobs)
           seen == IF reading.started THEN reading.seen ELSE Len(events)
           rows == JobRows(reading.filter, reading.after, snapshot)
           item == [n \in 1..Len(jobs) |-> n]
       IN Turn(rows, item, snapshot, seen, <<>>) /\ Expect(rows, item)
    /\ UNCHANGED <<jobs, events, runs, legacy, links, topic>>

\* list_events
ListEvents ==
    /\ reading.kind = "events" /\ ~reading.done
    /\ LET snapshot == IF reading.started THEN reading.snapshot ELSE Len(events)
           rows == InOrder({n \in (reading.after + 1)..snapshot : reading.filter \in {All, events[n]}})
           item == [n \in 1..Len(events) |-> n]
       IN Turn(rows, item, snapshot, 0, <<>>) /\ Expect(rows, item)
    /\ UNCHANGED <<jobs, events, runs, legacy, links, topic>>

-----------------------------------------------------------------------------
\* list_runs: registry runs, then legacy rows, under two high-water marks.

EncodeSnapshot(registryMax, legacyMax) == registryMax * Base + legacyMax
RegistryMax(snapshot) == snapshot \div Base
LegacyMaxOf(snapshot) == snapshot % Base

RunAt == [n \in 1..(2 * Base - 1) |->
            IF n < Base THEN IF n <= Len(runs) THEN [at |-> n, run |-> runs[n]] ELSE [at |-> n, run |-> Gone]
            ELSE [at |-> n, run |-> IF n > Base THEN legacy[n - Base] ELSE Gone]]

\* Registry runs while the cursor is among them, legacy rows from their first.
RunRows(filter, source, after, snapshot) ==
    LET wanted == {n \in DOMAIN RunAt : filter \in {All, RunAt[n].run.status}}
        legacyAfter == IF after > Base THEN after ELSE Base
        inRegistry == {n \in (after + 1)..RegistryMax(snapshot) : source # "legacy" /\ n \in wanted}
        inLegacy == {n \in (legacyAfter + 1)..(Base + LegacyMaxOf(snapshot)) :
                        source # "registry" /\ RunAt[n].run # Gone /\ n \in wanted}
    IN (IF after < Base THEN InOrder(inRegistry) ELSE <<>>) \o InOrder(inLegacy)

\* Mutant: only how many legacy rows there are.
CountOnly(legacyMax) == <<Cardinality({n \in Rows : n <= legacyMax})>>

\* Every field the projection reads of every row up to the mark.
Fingerprint(legacyMax) == [n \in 1..legacyMax |-> legacy[n]]

\* No id in both sources, none twice among the legacy rows.
Unambiguous(snapshot) ==
    LET old == {n \in Rows : n <= LegacyMaxOf(snapshot)} IN
    /\ reading.source = All =>
          \A i \in 1..RegistryMax(snapshot), n \in old : runs[i].id # legacy[n].id
    /\ reading.source # "registry" => \A n, k \in old : n # k => legacy[n].id # legacy[k].id

LegacyIsAsItWas ==
    reading.started /\ reading.source # "registry" =>
        reading.print = Fingerprint(LegacyMaxOf(reading.snapshot))

\* A registry whose sequences do not fit into the snapshot is not listed.
ListRuns ==
    /\ reading.kind = "runs" /\ ~reading.done /\ LegacyIsAsItWas
    /\ reading.started \/ Len(runs) < Base
    /\ LET snapshot == IF reading.started THEN reading.snapshot
                       ELSE EncodeSnapshot(Len(runs), LegacyMax)
           rows == RunRows(reading.filter, reading.source, reading.after, snapshot)
       IN /\ Unambiguous(snapshot)
          /\ Turn(rows, RunAt, snapshot, 0, Fingerprint(LegacyMaxOf(snapshot)))
          /\ Expect(rows, RunAt)
    /\ UNCHANGED <<jobs, events, runs, legacy, links, topic>>

-----------------------------------------------------------------------------
\* list_run_artifacts of a recorded run: reading.source is its id, reading.filter a role.

\* Sequences are given out over all runs; the mark is the last of this one.
LinkMax(run) ==
    LET Own == {n \in 1..Len(links) : links[n].run = run} IN IF Own = {} THEN 0 ELSE Max(Own)

LinkRows(run, role, after, snapshot) ==
    InOrder({n \in (after + 1)..snapshot : links[n].run = run /\ role \in {All, links[n].role}})

ListRunArtifacts ==
    /\ reading.kind = "artifacts" /\ ~reading.done
    /\ LET mark == LinkMax(reading.source)
           snapshot == IF reading.started THEN reading.snapshot ELSE mark
           rows == LinkRows(reading.source, reading.filter, reading.after, snapshot)
           item == [n \in 1..Len(links) |-> n]
       IN mark >= snapshot /\ Turn(rows, item, snapshot, 0, <<>>) /\ Expect(rows, item)
    /\ UNCHANGED <<jobs, events, runs, legacy, links, topic>>

-----------------------------------------------------------------------------
Ask(kind, filter, source) ==
    /\ reading = Idle
    /\ reading' = [Idle EXCEPT !.kind = kind, !.filter = filter, !.source = source]
    /\ UNCHANGED <<jobs, events, runs, legacy, links, expected, topic>>

\* The caller has all pages, gives up, or was told to start again.
EndListing ==
    /\ reading # Idle /\ reading' = Idle /\ expected' = <<>>
    /\ UNCHANGED <<jobs, events, runs, legacy, links, topic>>

Next ==
    \/ EndListing
    \/ /\ topic = "jobs"
       /\ \/ Submit \/ ListJobs \/ ListEvents
          \/ \E j \in 1..Len(jobs), state \in States : Change(j, state)
          \/ \E state \in States \cup {All} : Ask("jobs", state, All)
          \/ \E j \in (1..MaxJobs) \cup {All} : Ask("events", j, All)
    \/ /\ topic = "runs"
       /\ \/ ListRuns
          \/ \E run \in Run : AddRun(run, <<>>) \/ PersistLegacy(run)
          \/ \E n \in Rows, row \in Run \cup {Gone} : TouchLegacy(n, row)
          \/ \E status \in Filters \cup {All}, source \in {All, "registry", "legacy"} :
                Ask("runs", status, source)
    \/ /\ topic = "artifacts"
       /\ \/ ListRunArtifacts
          \/ \E run \in Run, n \in 0..MaxLinks : \E roles \in [1..n -> Roles] : AddRun(run, roles)
          \/ \E i \in 1..Len(runs), role \in Roles \cup {All} : Ask("artifacts", role, runs[i].id)

Spec == Init /\ [][Next]_vars

-----------------------------------------------------------------------------
\* The pages of a listing that comes to its end are, put together, what was there
\* when the first one was read: nothing skipped, nothing twice, in order, whatever
\* was written between the pages (cursors of registry.py and read_ports.py).
PagesAreTheSnapshot == reading.done => reading.got = expected

\* And no page before the last strays from it.
PagesArePrefixes == reading.started => IsPrefix(reading.got, expected)
=============================================================================
