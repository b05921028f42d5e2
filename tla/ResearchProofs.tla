--------------------------- MODULE ResearchProofs ---------------------------
(***************************************************************************)
(* What holds of the research pipeline's stores for every number of         *)
(* partitions, writers, clients, exporters, pages and records: the backfill *)
(* (FeatureBackfill), the feature stores (FeatureObjects), the downloads    *)
(* (MarketDownload), the panel (MarketPanel) and the bundles (SignalBundle).*)
(***************************************************************************)
EXTENDS Research, FiniteSetTheorems, SequenceTheorems, WellFoundedInduction, TLAPS

-----------------------------------------------------------------------------
\* The backfill (FeatureBackfill).

RowRecord == [status : {"absent", "planned", "running", "completed", "failed"},
              attempts : 0..MaxAttempts, content : Content]
PoolStates == {"idle", "claimed", "queued", "computing", "written", "broken"}
Gathered == {"gathered", "assembling", "materializing", "publishing"}

\* A partition whose row is r and whose file f, with q in the pool and h in memory, while
\* the run is at the place k and the job has the status s.  What is completed is out of the
\* pool, and once the pool is claimed what is out of it is completed and held in memory.
PartitionHolds(k, s, r, f, q, h) ==
    /\ r.status = "completed" => q = "idle" /\ f = r.content /\ f \in Frames
    /\ q = "claimed" => r.status \in {"planned", "running", "failed"} /\ r.attempts < MaxAttempts
    /\ q \in {"queued", "computing", "written", "broken"} => r.status = "running"
    /\ q = "written" => f \in Frames
    /\ k \in {"down", "ensured"} \cup Gathered => q = "idle"
    /\ k \in {"recovered", "marking", "executing"} \cup Gathered /\ q = "idle" =>
          r.status = "completed" /\ h = r.content
    /\ s = "absent" => r.status = "absent"

\* The job's status at each place of a run; what a run may have left behind as running
\* or assembling it left through one of the unhandled kinds of faults.
JobHolds(k, s, kinds) ==
    /\ s \in {"absent", "published"} => k = "down"
    /\ k \in {"marking", "executing", "interrupting", "failing"} => s = "running"
    /\ k = "draining" => s \in {"interrupted", "failed"}
    /\ k \in {"assembling", "materializing", "publishing"} => s = "assembling"
    /\ kinds \cap Unhandled = {} =>
          /\ k \in {"down", "ensured", "recovered"} => s \notin {"running", "assembling"}
          /\ k = "gathered" => s # "assembling"

PartitionsHold ==
    \A p \in Partitions : PartitionHolds(pc, job.status, part[p], file[p], pool[p], held[p])

JobRecord == [status : {"absent", "planned", "running", "assembling", "interrupted", "failed", "published"},
              object : {Everywhere("none")} \cup [Partitions -> Frames]]
Places == {"down", "ensured", "recovered", "marking", "executing", "interrupting", "failing",
           "draining", "gathered", "assembling", "materializing", "publishing"}

BackfillTyped ==
    /\ job \in JobRecord /\ part \in [Partitions -> RowRecord]
    /\ file \in [Partitions -> Content] /\ held \in [Partitions -> Content]
    /\ pc \in Places /\ pool \in [Partitions -> PoolStates]
    /\ faults \in [count : 0..MaxFaults, kinds : SUBSET Faults]

BackfillInv ==
    /\ BackfillTyped /\ JobHolds(pc, job.status, faults.kinds) /\ PartitionsHold
    /\ PublishedIsWhole

LEMMA BackfillTypes == BackfillTyped => TypeOK
  BY DEF TypeOK, BackfillTyped, RowRecord, PoolStates, JobRecord, Places

\* A fault is counted, and its kind remembered.
LEMMA FaultTyped ==
    ASSUME BackfillTyped, NEW f, Fault(f)
    PROVE  /\ faults' \in [count : 0..MaxFaults, kinds : SUBSET Faults]
           /\ faults.kinds \subseteq faults'.kinds /\ f \in faults'.kinds
  <1>1. /\ faults.count \in 0..MaxFaults /\ faults.kinds \in SUBSET Faults
        /\ f \in Faults /\ faults.count < MaxFaults
        /\ faults' = [count |-> faults.count + 1, kinds |-> faults.kinds \cup {f}]
    BY DEF BackfillTyped, Fault
  <1>2. faults.count + 1 \in 0..MaxFaults
    BY <1>1, BackfillAssumption
  <1>3. faults.kinds \cup {f} \in SUBSET Faults
    BY <1>1
  <1> QED
    BY <1>1, <1>2, <1>3

LEMMA BackfillInit == Init => BackfillInv
  <1> SUFFICES ASSUME Init PROVE BackfillInv
    OBVIOUS
  <1>1. BackfillTyped
    BY BackfillAssumption DEF Init, BackfillTyped, RowRecord, PoolStates, JobRecord, Places, Content, NoRow, Everywhere
  <1>2. JobHolds(pc, job.status, faults.kinds) /\ PublishedIsWhole
    BY DEF Init, JobHolds, PublishedIsWhole
  <1>3. PartitionsHold
    BY DEF Init, PartitionsHold, PartitionHolds, Everywhere, NoRow, Gathered
  <1> QED
    BY <1>1, <1>2, <1>3 DEF BackfillInv

\* A run that raises leaves the catalog as it is and the pool empty.
LEMMA RaiseHolds ==
    ASSUME BackfillInv, Raise, UNCHANGED <<part, file>>, job' \in JobRecord,
           job'.object = job.object, job'.status = job.status \/ job'.status \in {"interrupted", "failed"},
           faults' \in [count : 0..MaxFaults, kinds : SUBSET Faults], faults.kinds \subseteq faults'.kinds,
           pc # "down", job.status # "absent",
           faults'.kinds \cap Unhandled = {} => job'.status \notin {"running", "assembling"}
    PROVE  BackfillInv'
  <1>1. BackfillTyped'
    BY DEF BackfillInv, BackfillTyped, Raise, Places, PoolStates, Content, Everywhere
  <1>2. JobHolds(pc, job.status, faults.kinds)'
    BY DEF BackfillInv, JobHolds, Raise
  <1>3. PartitionsHold'
    BY DEF BackfillInv, BackfillTyped, PartitionsHold, PartitionHolds, Raise, Everywhere, Gathered
  <1>4. PublishedIsWhole'
    BY DEF BackfillInv, JobHolds, PublishedIsWhole
  <1> QED
    BY <1>1, <1>2, <1>3, <1>4 DEF BackfillInv

LEMMA EnsureJobHolds == BackfillInv /\ EnsureJob => BackfillInv'
  <1> SUFFICES ASSUME BackfillInv, EnsureJob PROVE BackfillInv'
    OBVIOUS
  <1>1. BackfillTyped'
    BY BackfillAssumption DEF BackfillInv, BackfillTyped, EnsureJob, Places, JobRecord, RowRecord, Content, NoRow, Everywhere, catalog
  <1>2. JobHolds(pc, job.status, faults.kinds)' /\ PublishedIsWhole'
    BY DEF BackfillInv, BackfillTyped, JobRecord, JobHolds, EnsureJob, PublishedIsWhole, catalog
  <1>3. PartitionsHold'
    BY DEF BackfillInv, BackfillTyped, JobRecord, PartitionsHold, PartitionHolds, EnsureJob, Everywhere, NoRow, Gathered, catalog
  <1> QED
    BY <1>1, <1>2, <1>3 DEF BackfillInv

LEMMA RecoverHolds == BackfillInv /\ Recover => BackfillInv'
  <1> SUFFICES ASSUME BackfillInv, Recover PROVE BackfillInv'
    OBVIOUS
  <1>1. CASE \A p \in Partitions : p \in Completed \/ Recoverable(p)
    <2>1. /\ pool' = [p \in Partitions |-> IF Recoverable(p) THEN "claimed" ELSE "idle"]
          /\ held' = [p \in Partitions |-> IF Recoverable(p) THEN "none" ELSE part[p].content]
          /\ pc' = IF pool' = Everywhere("idle") THEN "gathered" ELSE "recovered"
          /\ UNCHANGED <<job, part, file, faults>> /\ pc = "ensured"
      BY <1>1 DEF Recover
    <2>2. BackfillTyped'
      BY <2>1 DEF BackfillInv, BackfillTyped, RowRecord, Places, PoolStates, Content
    <2>3. JobHolds(pc, job.status, faults.kinds)' /\ PublishedIsWhole'
      BY <2>1 DEF BackfillInv, JobHolds, PublishedIsWhole
    <2>4. PartitionsHold'
      BY <1>1, <2>1 DEF BackfillInv, BackfillTyped, JobHolds, PartitionsHold, PartitionHolds, Everywhere, Gathered, Completed,
                        Recoverable, Claimable
    <2> QED
      BY <2>2, <2>3, <2>4 DEF BackfillInv
  <1>2. CASE ~\A p \in Partitions : p \in Completed \/ Recoverable(p)
    BY <1>2, RaiseHolds DEF Recover, BackfillInv, BackfillTyped, JobHolds
  <1> QED
    BY <1>1, <1>2

\* A transition either moves the job and the run, and nothing of the partitions, or raises.
LEMMA TransitionHolds ==
    ASSUME BackfillInv, NEW allowed, NEW target, NEW next, Transition(allowed, target, next),
           UNCHANGED <<part, file, faults>>, pc \notin {"down", "ensured"},
           next \in Places \ {"down", "ensured", "executing", "recovered"},
           target \in {"running", "interrupted", "assembling"},
           pc \in {"recovered", "marking", "executing"} \cup Gathered \/ next \notin {"marking"} \cup Gathered,
           next \in Gathered => pc \in Gathered,
           job.status \in allowed => JobHolds(next, target, faults.kinds),
           job.status \notin allowed /\ faults.kinds \cap Unhandled = {} => job.status \notin {"running", "assembling"}
    PROVE  BackfillInv'
  <1>1. CASE job.status \in allowed
    <2>1. job' = [job EXCEPT !.status = target] /\ pc' = next /\ UNCHANGED <<pool, held, part, file, faults>>
      BY <1>1 DEF Transition
    <2>2. BackfillTyped' /\ job'.status = target
      BY <2>1 DEF BackfillInv, BackfillTyped, JobRecord
    <2>3. JobHolds(pc, job.status, faults.kinds)' /\ PublishedIsWhole'
      BY <1>1, <2>1, <2>2 DEF PublishedIsWhole
    <2>4. PartitionsHold'
      BY <2>1, <2>2 DEF BackfillInv, BackfillTyped, PartitionsHold, PartitionHolds, Places, Gathered
    <2> QED
      BY <2>2, <2>3, <2>4 DEF BackfillInv
  <1>2. CASE job.status \notin allowed
    BY <1>2, RaiseHolds DEF Transition, BackfillInv, BackfillTyped, JobHolds
  <1> QED
    BY <1>1, <1>2

LEMMA TransitionsHold == BackfillInv /\ (StartRunning \/ Interrupt \/ StartAssembling) => BackfillInv'
  <1> SUFFICES ASSUME BackfillInv, StartRunning \/ Interrupt \/ StartAssembling PROVE BackfillInv'
    OBVIOUS
  <1>2. CASE StartRunning
    BY <1>2, TransitionHolds DEF StartRunning, BackfillInv, JobHolds, Places, Gathered
  <1>3. CASE Interrupt
    BY <1>3, TransitionHolds DEF Interrupt, BackfillInv, JobHolds, Places, Gathered
  <1>4. CASE StartAssembling
    BY <1>4, TransitionHolds DEF StartAssembling, BackfillInv, JobHolds, Places, Gathered
  <1> QED
    BY <1>2, <1>3, <1>4

\* The steps that leave the catalog's job alone while the pool is at work.
LEMMA PoolHolds ==
    ASSUME BackfillInv, NEW p \in Partitions,
           MarkRunning(p) \/ StartWorker(p) \/ WriteCheckpoint(p) \/ LoaderFails(p) \/ Collect(p)
              \/ CollectAndInterrupt(p) \/ CollectFailure(p)
    PROVE  BackfillInv'
  <1> USE DEF BackfillInv, BackfillTyped
  <1>1. pc # "down"
    <2>1. pool[p] # "idle"
      BY DEF MarkRunning, StartWorker, WriteCheckpoint, LoaderFails, Collect, CollectAndInterrupt, CollectFailure
    <2>2. PartitionHolds(pc, job.status, part[p], file[p], pool[p], held[p])
      BY DEF PartitionsHold
    <2> QED
      BY <2>1, <2>2 DEF PartitionHolds
  <1>2. job' = job /\ job.status # "published"
    BY <1>1 DEF MarkRunning, StartWorker, WriteCheckpoint, LoaderFails, Collect, CollectAndInterrupt, CollectFailure, MarkCompleted,
           JobHolds
  <1>3. PublishedIsWhole'
    BY <1>2 DEF PublishedIsWhole
  <1>4. CASE MarkRunning(p)
    <2>1. BackfillTyped'
      BY <1>4, BackfillAssumption DEF MarkRunning, RowRecord, PoolStates, Places, PartitionsHold, PartitionHolds
    <2>2. JobHolds(pc, job.status, faults.kinds)'
      BY <1>4 DEF MarkRunning, JobHolds
    <2>3. PartitionsHold'
      BY <1>4 DEF MarkRunning, PartitionsHold, PartitionHolds, RowRecord, Gathered
    <2> QED
      BY <1>3, <2>1, <2>2, <2>3
  <1>5. CASE StartWorker(p) \/ LoaderFails(p)
    <2>1. BackfillTyped'
      <3>1. faults' \in [count : 0..MaxFaults, kinds : SUBSET Faults]
        BY <1>5, FaultTyped DEF StartWorker, LoaderFails
      <3> QED
        BY <1>5, <3>1 DEF StartWorker, LoaderFails, PoolStates
    <2>2. JobHolds(pc, job.status, faults.kinds)'
      BY <1>5 DEF StartWorker, LoaderFails, JobHolds, Fault
    <2>3. PartitionsHold'
      BY <1>5 DEF StartWorker, LoaderFails, PartitionsHold, PartitionHolds, PoolStates, Gathered
    <2> QED
      BY <1>3, <2>1, <2>2, <2>3
  <1>6. CASE WriteCheckpoint(p)
    <2>1. PICK frame_ \in Frames : file' = [file EXCEPT ![p] = frame_]
      BY <1>6 DEF WriteCheckpoint
    <2>2. BackfillTyped'
      BY <1>6, <2>1 DEF WriteCheckpoint, PoolStates, Content
    <2>3. JobHolds(pc, job.status, faults.kinds)'
      BY <1>6 DEF WriteCheckpoint
    <2>4. PartitionsHold'
      BY <1>6, <2>1 DEF WriteCheckpoint, PartitionsHold, PartitionHolds, Gathered
    <2> QED
      BY <1>3, <2>2, <2>3, <2>4
  <1>7. CASE Collect(p) \/ CollectAndInterrupt(p)
    <2>1. /\ part[p].status = "running" /\ pc = "executing" /\ file[p] \in Frames
          /\ part' = [part EXCEPT ![p].status = "completed", ![p].content = file[p]]
          /\ held' = [held EXCEPT ![p] = file[p]] /\ UNCHANGED file
      BY <1>7 DEF Collect, CollectAndInterrupt, MarkCompleted, PartitionsHold, PartitionHolds
    <2>2. /\ pool' \in [Partitions -> PoolStates] /\ pool'[p] = "idle"
          /\ \A q \in Partitions \ {p} : pool'[q] = pool[q] \/ (pc' = "interrupting" /\ pool[q] = "queued" /\ pool'[q] = "idle")
      BY <1>7 DEF Collect, CollectAndInterrupt, PoolStates, Cancelled
    <2>3. /\ pc' \in {"gathered", "executing", "interrupting"}
          /\ pc' = "gathered" => \A q \in Partitions : pool'[q] = "idle"
      BY <1>7 DEF Collect, CollectAndInterrupt, Everywhere
    <2>8. faults' \in [count : 0..MaxFaults, kinds : SUBSET Faults] /\ faults.kinds \subseteq faults'.kinds
      BY <1>7, FaultTyped DEF Collect, CollectAndInterrupt
    <2>9. /\ part' \in [Partitions -> RowRecord] /\ held' \in [Partitions -> Content]
          /\ part'[p].status = "completed" /\ part'[p].content = file[p] /\ held'[p] = file[p]
          /\ \A q \in Partitions \ {p} : part'[q] = part[q] /\ held'[q] = held[q]
      BY <2>1, ZenonT(40) DEF RowRecord, Content
    <2>4. BackfillTyped'
      BY <1>2, <2>1, <2>2, <2>3, <2>8, <2>9 DEF Places
    <2>5. JobHolds(pc, job.status, faults.kinds)'
      BY <1>2, <2>1, <2>3, <2>8 DEF JobHolds
    <2>6. PartitionsHold'
      <3>1. ASSUME NEW q \in Partitions \ {p}
            PROVE  PartitionHolds(pc, job.status, part[q], file[q], pool[q], held[q])'
        <4>1. PartitionHolds(pc, job.status, part[q], file[q], pool[q], held[q])
          BY DEF PartitionsHold
        <4> QED
          BY <1>2, <2>1, <2>2, <2>3, <2>9, <4>1 DEF PartitionHolds, Gathered
      <3>2. PartitionHolds(pc, job.status, part[p], file[p], pool[p], held[p])'
        BY <1>2, <2>1, <2>2, <2>3, <2>9 DEF PartitionHolds, JobHolds
      <3> QED
        BY <3>1, <3>2 DEF PartitionsHold
    <2> QED
      BY <1>3, <2>4, <2>5, <2>6
  <1>8. CASE CollectFailure(p)
    <2>1. BackfillTyped'
      BY <1>8 DEF CollectFailure, RowRecord, PoolStates, Places, Cancelled
    <2>2. JobHolds(pc, job.status, faults.kinds)'
      BY <1>8 DEF CollectFailure, JobHolds
    <2>3. PartitionsHold'
      BY <1>8 DEF CollectFailure, PartitionsHold, PartitionHolds, RowRecord, Cancelled, Gathered
    <2> QED
      BY <1>3, <2>1, <2>2, <2>3
  <1> QED
    BY <1>4, <1>5, <1>6, <1>7, <1>8

\* The ends of a run.
LEMMA EndsHold ==
    BackfillInv /\ (FailJob \/ Drain \/ Assemble \/ Materialize \/ Publish \/ Kill) => BackfillInv'
  <1> SUFFICES ASSUME BackfillInv, FailJob \/ Drain \/ Assemble \/ Materialize \/ Publish \/ Kill PROVE BackfillInv'
    OBVIOUS
  <1> USE DEF BackfillInv, BackfillTyped
  <1>1. CASE FailJob
    <2>1. BackfillTyped' /\ job'.status = "failed"
      BY <1>1 DEF FailJob, JobRecord, Places
    <2>2. JobHolds(pc, job.status, faults.kinds)' /\ PublishedIsWhole'
      BY <1>1, <2>1 DEF FailJob, JobHolds, PublishedIsWhole
    <2>3. PartitionsHold'
      BY <1>1, <2>1 DEF FailJob, PartitionsHold, PartitionHolds, Gathered
    <2> QED
      BY <2>1, <2>2, <2>3
  <1>2. CASE Drain
    BY <1>2, RaiseHolds DEF Drain, JobHolds
  <1>3. CASE Assemble /\ pc' = "materializing"
    <2>1. UNCHANGED <<job, part, file, pool, held, faults>> /\ pc = "assembling"
      BY <1>3 DEF Assemble, Raise
    <2> QED
      BY <1>3, <2>1 DEF JobHolds, PublishedIsWhole, PartitionsHold, PartitionHolds, Places, Gathered, Completed
  <1>4. CASE Assemble /\ pc' # "materializing"
    <2>1. /\ Raise /\ UNCHANGED <<job, part, file>> /\ pc = "assembling" /\ "assemble" \in faults'.kinds
          /\ faults' \in [count : 0..MaxFaults, kinds : SUBSET Faults] /\ faults.kinds \subseteq faults'.kinds
      BY <1>4, FaultTyped DEF Assemble
    <2> QED
      BY <2>1, RaiseHolds DEF JobHolds, Unhandled
  <1>5. CASE Materialize /\ pc' = "publishing"
    <2>1. UNCHANGED <<job, part, file, pool, held, faults>> /\ pc = "materializing"
      BY <1>5 DEF Materialize, Raise
    <2> QED
      BY <1>5, <2>1 DEF JobHolds, PublishedIsWhole, PartitionsHold, PartitionHolds, Places, Gathered, Completed
  <1>6. CASE Materialize /\ pc' # "publishing"
    <2>1. /\ Raise /\ UNCHANGED <<part, file>> /\ pc = "materializing"
          /\ faults' \in [count : 0..MaxFaults, kinds : SUBSET Faults] /\ faults.kinds \subseteq faults'.kinds
          /\ job' = [job EXCEPT !.status = "failed"]
      BY <1>6, FaultTyped DEF Materialize
    <2>2. job' \in JobRecord /\ job'.status = "failed" /\ job'.object = job.object
      BY <2>1 DEF JobRecord
    <2> QED
      BY <2>1, <2>2, RaiseHolds DEF JobHolds
  <1>7. CASE Publish
    <2>1. /\ job' = [status |-> "published", object |-> held] /\ pc = "publishing" /\ pc' = "down"
          /\ pool' = Everywhere("idle") /\ held' = Everywhere("none") /\ UNCHANGED <<part, file, faults>>
      BY <1>7 DEF Publish, Raise
    <2>2. \A p \in Partitions : part[p].status = "completed" /\ held[p] = part[p].content /\ held[p] \in Frames
      BY <2>1 DEF PartitionsHold, PartitionHolds, Gathered
    <2>3. held \in [Partitions -> Frames]
      BY <2>2
    <2>4. BackfillTyped'
      BY <2>1, <2>3 DEF JobRecord, Places, PoolStates, Content, Everywhere
    <2>5. held = [p \in Partitions |-> part[p].content]
      BY <2>2
    <2>6. PublishedIsWhole' /\ JobHolds(pc, job.status, faults.kinds)'
      BY <2>1, <2>2, <2>5 DEF PublishedIsWhole, Completed, JobHolds
    <2>7. PartitionsHold'
      BY <2>1, <2>2 DEF PartitionsHold, PartitionHolds, Everywhere, Gathered
    <2> QED
      BY <2>4, <2>6, <2>7
  <1>8. CASE Kill
    <2>1. /\ Raise /\ UNCHANGED <<job, part, file>> /\ pc # "down" /\ "kill" \in faults'.kinds
          /\ faults' \in [count : 0..MaxFaults, kinds : SUBSET Faults] /\ faults.kinds \subseteq faults'.kinds
      BY <1>8, FaultTyped DEF Kill
    <2> QED
      BY <2>1, RaiseHolds DEF JobHolds, Unhandled
  <1> QED
    BY <1>1, <1>2, <1>3, <1>4, <1>5, <1>6, <1>7, <1>8

LEMMA BackfillStays == BackfillInv /\ UNCHANGED vars => BackfillInv'
  BY DEF vars, catalog, BackfillInv, BackfillTyped, PartitionsHold, PublishedIsWhole, Completed

LEMMA BackfillNext == BackfillInv /\ [Next]_vars => BackfillInv'
  BY EnsureJobHolds, RecoverHolds, TransitionsHold, PoolHolds, EndsHold, BackfillStays DEF Next, Step, Published

\* A partition that is completed is out of the pool, and only Collect writes a row or a
\* file of what is in it.
LEMMA CompletedStays ==
    ASSUME BackfillInv, [Next]_vars
    PROVE  [/\ \A p \in Partitions : part[p].status = "completed" =>
                  part'[p] = part[p] /\ file'[p] = part[p].content
            /\ job.status = "published" => job' = job]_vars
  <1> SUFFICES ASSUME Next
               PROVE  /\ \A p \in Partitions : part[p].status = "completed" =>
                            part'[p] = part[p] /\ file'[p] = file[p]
                      /\ job.status = "published" => job' = job
    BY DEF BackfillInv, PartitionsHold, PartitionHolds
  <1>1. job.status = "published" => pc = "down"
    BY DEF BackfillInv, JobHolds
  <1>2. job.status = "absent" => \A p \in Partitions : part[p].status = "absent"
    BY DEF BackfillInv, PartitionsHold, PartitionHolds
  <1>3. \A p \in Partitions : part[p].status = "completed" => pool[p] = "idle"
    BY DEF BackfillInv, PartitionsHold, PartitionHolds
  <1>4. pc = "down" => \A p \in Partitions : pool[p] = "idle"
    BY DEF BackfillInv, PartitionsHold, PartitionHolds
  <1>5. CASE Published
    BY <1>5 DEF Published, vars, catalog
  <1>6. CASE Kill
    BY <1>6, <1>1 DEF Kill, Raise
  <1>7. CASE EnsureJob \/ Recover \/ StartRunning \/ Interrupt \/ FailJob \/ Drain
              \/ StartAssembling \/ Assemble \/ Materialize \/ Publish
    BY <1>1, <1>2, <1>7 DEF EnsureJob, Recover, StartRunning, Interrupt, FailJob, Drain, StartAssembling, Assemble, Materialize,
                            Publish, Raise, Transition, catalog
  <1>8. ASSUME NEW q \in Partitions,
               MarkRunning(q) \/ StartWorker(q) \/ WriteCheckpoint(q) \/ LoaderFails(q) \/ Collect(q)
                  \/ CollectAndInterrupt(q) \/ CollectFailure(q)
        PROVE  /\ \A p \in Partitions : part[p].status = "completed" =>
                    part'[p] = part[p] /\ file'[p] = file[p]
               /\ job.status = "published" => job' = job
    <2>1. pool[q] # "idle" /\ job' = job
      BY <1>8 DEF MarkRunning, StartWorker, WriteCheckpoint, LoaderFails, Collect, CollectAndInterrupt, CollectFailure, MarkCompleted
    <2>2. \A p \in Partitions \ {q} : part'[p] = part[p] /\ file'[p] = file[p]
      BY <1>8 DEF MarkRunning, StartWorker, WriteCheckpoint, LoaderFails, Collect, CollectAndInterrupt, CollectFailure, MarkCompleted,
                  BackfillInv, BackfillTyped
    <2> QED
      BY <1>3, <2>1, <2>2
  <1> QED
    BY <1>5, <1>6, <1>7, <1>8 DEF Next, Step

LEMMA BackfillPromise == BackfillInv => TypeOK /\ PublishedIsWhole /\ EveryOtherEndIsRecorded
  BY BackfillTypes DEF BackfillInv, JobHolds, EveryOtherEndIsRecorded, EndIsRecorded

-----------------------------------------------------------------------------
\* The feature stores (FeatureObjects), while the machine keeps its power (MaxLosses = 0).

Object == Objects!Object
Things == Objects!Things
None == Objects!None
Processes == Writers \cup TensorWriters
Tasks == [at : {"idle", "asked", "locked", "missed", "staged", "renamed", "flushed", "bound", "refused"},
          thing : Things \cup {None}]

\* The places of a writer that holds the lock.
Holding == {"locked", "missed", "staged", "renamed", "flushed", "bound"}

ObjectsTyped ==
    /\ rowOf \in [Requests -> Object \cup {None}] /\ objects \in [Things -> {"absent", "whole"}]
    /\ unflushed \subseteq Things /\ draft \subseteq Processes /\ reports \subseteq Requests
    /\ lock \in Writers \cup {"free"} /\ task \in [Processes -> Tasks]
    /\ acked \subseteq [request : Requests, content : Contents, object : Object] \cup [tensor : Tensors]
    /\ store \in {"features", "tensors"} /\ glitches \in 0..MaxObjectFaults /\ losses = 0

\* A row names an object of its own request that is there.
RowsHold == \A r \in Requests : rowOf[r] # None => rowOf[r].request = r /\ objects[rowOf[r]] = "whole"

\* A writer at work, and from the lookup that missed to the row nobody else binds its request.
WriterHolds(w) ==
    /\ lock = w <=> task[w].at \in Holding
    /\ store = "tensors" => task[w].at = "idle"
    /\ task[w].at \in {"asked"} \cup Holding => task[w].thing \in Object
    /\ task[w].at \in {"missed", "staged", "renamed", "flushed"} => rowOf[task[w].thing.request] = None
    /\ task[w].at \in {"renamed", "flushed", "bound"} => objects[task[w].thing] = "whole"
    /\ task[w].at = "bound" => rowOf[task[w].thing.request] = task[w].thing
    /\ task[w].at = "idle" => task[w].thing = None
    /\ task[w].at = "refused" /\ task[w].thing # None =>
          /\ task[w].thing \in Object /\ rowOf[task[w].thing.request] # None
          /\ rowOf[task[w].thing.request].content # task[w].thing.content

TensorHolds(t) ==
    /\ store = "features" => task[t].at = "idle"
    /\ task[t].at \in {"staged", "renamed"} => task[t].thing \in Tensors
    /\ task[t].at = "renamed" => objects[task[t].thing] = "whole"
    /\ task[t].at \in {"idle", "staged", "renamed", "refused"}

ObjectsInv ==
    /\ ObjectsTyped /\ RowsHold /\ Objects!AcknowledgedIsServed
    /\ \A w \in Writers : WriterHolds(w)
    /\ \A t \in TensorWriters : TensorHolds(t)

LEMMA ObjectsInit == Objects!Init => ObjectsInv
  <1> SUFFICES ASSUME Objects!Init PROVE ObjectsInv
    OBVIOUS
  <1>1. Objects!Idle \in Tasks
    BY DEF Objects!Idle, Tasks, None
  <1>2. ObjectsTyped
    BY <1>1, ObjectsAssumption DEF Objects!Init, ObjectsTyped, Processes, Object, None, Things
  <1>3. RowsHold /\ Objects!AcknowledgedIsServed
    BY DEF Objects!Init, RowsHold, None, Objects!AcknowledgedIsServed
  <1>4. \A p \in Processes : task[p].at = "idle" /\ task[p].thing = None
    BY DEF Objects!Init, Objects!Idle, Processes, None
  <1>5. \A w \in Writers : WriterHolds(w)
    BY <1>4, ObjectsAssumption DEF WriterHolds, Processes, Holding, Objects!Init
  <1>6. \A t \in TensorWriters : TensorHolds(t)
    BY <1>4 DEF TensorHolds, Processes
  <1> QED
    BY <1>2, <1>3, <1>5, <1>6 DEF ObjectsInv

\* What one process does leaves the others where they were, as long as rows and objects
\* stay and only the holder of the lock binds a row.
LEMMA OthersStand ==
    ASSUME ObjectsInv, NEW p \in Processes,
           \A q \in Processes \ {p} : task'[q] = task[q],
           store' = store,
           \A r \in Requests : rowOf[r] # None => rowOf'[r] = rowOf[r],
           \A o \in Things : objects[o] = "whole" => objects'[o] = "whole",
           rowOf' = rowOf \/ lock = p,
           lock' = lock \/ (lock \in {p, "free"} /\ lock' \in {p, "free"})
    PROVE  /\ \A w \in Writers \ {p} : WriterHolds(w)'
           /\ \A t \in TensorWriters \ {p} : TensorHolds(t)'
  <1>1. ASSUME NEW w \in Writers \ {p} PROVE WriterHolds(w)'
    <2>1. WriterHolds(w) /\ task'[w] = task[w] /\ w # "free" /\ task[w] \in Tasks
      BY ObjectsAssumption DEF ObjectsInv, ObjectsTyped, Processes
    <2>2. lock' = w <=> lock = w
      BY <2>1
    <2>3. task[w].thing \in Object => task[w].thing \in Things /\ task[w].thing.request \in Requests
      BY DEF Object, Things, Objects!Object, Objects!Things
    <2>4. task[w].at \in {"missed", "staged", "renamed", "flushed"} => rowOf' = rowOf
      BY <2>1 DEF WriterHolds, Holding
    <2>5. task[w].at \in Holding => task[w].thing \in Object
      BY <2>1 DEF WriterHolds
    <2>6. task[w].at = "bound" => rowOf[task[w].thing.request] # None
      BY <2>1, <2>5 DEF WriterHolds, Holding, Object, None, Objects!Object, Objects!None
    <2> QED
      BY <2>1, <2>2, <2>3, <2>4, <2>5, <2>6 DEF WriterHolds, Holding
  <1>2. ASSUME NEW t \in TensorWriters \ {p} PROVE TensorHolds(t)'
    <2>1. TensorHolds(t) /\ task'[t] = task[t]
      BY DEF ObjectsInv, Processes
    <2> QED
      BY <2>1 DEF TensorHolds, Things, Objects!Things
  <1> QED
    BY <1>1, <1>2

\* Rows and answers stand while rows and objects stay.
LEMMA AnswersStand ==
    ASSUME ObjectsInv,
           \A r \in Requests : rowOf[r] # None => rowOf'[r] = rowOf[r],
           \A o \in Things : objects[o] = "whole" => objects'[o] = "whole"
    PROVE  /\ \A r \in Requests : rowOf'[r] = rowOf[r] /\ rowOf'[r] # None =>
                 rowOf'[r].request = r /\ objects'[rowOf'[r]] = "whole"
           /\ acked' = acked => Objects!AcknowledgedIsServed'
  <1>1. \A r \in Requests : rowOf[r] # None => rowOf[r] \in Things
    BY DEF ObjectsInv, ObjectsTyped, Things, Objects!Things, Object
  <1>2. ASSUME acked' = acked, NEW a \in acked, "tensor" \in DOMAIN a PROVE objects'[a.tensor] = "whole"
    <2>1. objects[a.tensor] = "whole"
      BY <1>2 DEF ObjectsInv, Objects!AcknowledgedIsServed
    <2>2. a \in [tensor : Tensors]
      BY <1>2 DEF ObjectsInv, ObjectsTyped
    <2> QED
      BY <2>1, <2>2 DEF Things, Objects!Things
  <1>3. ASSUME acked' = acked, NEW a \in acked, "tensor" \notin DOMAIN a
        PROVE  rowOf'[a.request] = a.object /\ objects'[a.object] = "whole" /\ a.object.content = a.content
    <2>1. rowOf[a.request] = a.object /\ objects[a.object] = "whole" /\ a.object.content = a.content
      BY <1>3 DEF ObjectsInv, Objects!AcknowledgedIsServed
    <2>2. a \in [request : Requests, content : Contents, object : Object]
      BY <1>3 DEF ObjectsInv, ObjectsTyped
    <2>3. a.object # None /\ a.object \in Things
      BY <2>2 DEF Object, None, Objects!Object, Objects!None, Things, Objects!Things
    <2> QED
      BY <2>1, <2>2, <2>3
  <1> QED
    BY <1>1, <1>2, <1>3 DEF ObjectsInv, RowsHold, Objects!AcknowledgedIsServed

LEMMA StepStands ==
    ASSUME ObjectsInv, NEW p \in Processes, ObjectsTyped',
           \A q \in Processes \ {p} : task'[q] = task[q],
           store' = store,
           \A r \in Requests : rowOf[r] # None => rowOf'[r] = rowOf[r],
           \A o \in Things : objects[o] = "whole" => objects'[o] = "whole",
           rowOf' = rowOf \/ (lock = p /\ RowsHold'),
           acked' = acked \/ Objects!AcknowledgedIsServed',
           lock' = lock \/ (lock \in {p, "free"} /\ lock' \in {p, "free"}),
           p \in Writers => WriterHolds(p)', p \in TensorWriters => TensorHolds(p)'
    PROVE  ObjectsInv'
  <1>1. /\ \A w \in Writers \ {p} : WriterHolds(w)'
        /\ \A t \in TensorWriters \ {p} : TensorHolds(t)'
    BY OthersStand
  <1>2. RowsHold' /\ Objects!AcknowledgedIsServed'
    BY AnswersStand DEF RowsHold
  <1> QED
    BY <1>1, <1>2 DEF ObjectsInv

\* A process goes on with what it has, or with another thing.
LEMMA GoStands ==
    ASSUME ObjectsTyped, NEW p \in Processes, NEW at, Objects!Go(p, at), [at |-> at, thing |-> None] \in Tasks
    PROVE  /\ task' \in [Processes -> Tasks] /\ task'[p] = [at |-> at, thing |-> task[p].thing]
           /\ \A q \in Processes \ {p} : task'[q] = task[q]
  <1>1. task \in [Processes -> Tasks] /\ task' = [task EXCEPT ![p].at = at]
    BY DEF ObjectsTyped, Objects!Go
  <1>2. task[p] \in Tasks /\ task'[p] = [task[p] EXCEPT !.at = at]
    BY <1>1
  <1>3. task'[p] = [at |-> at, thing |-> task[p].thing]
    BY <1>2 DEF Tasks
  <1>4. task'[p] \in Tasks
    BY <1>2, <1>3 DEF Tasks
  <1> QED
    BY <1>1, <1>3, <1>4

LEMMA AskStands ==
    ASSUME ObjectsInv, store = "features", NEW w \in Writers, NEW object \in Object, Objects!Ask(w, object)
    PROVE  ObjectsInv'
  <1>1. w \in Processes /\ WriterHolds(w) /\ task[w] \in Tasks /\ task[w].at \in {"idle", "refused"}
    BY DEF Processes, ObjectsInv, ObjectsTyped, Objects!Ask
  <1>2. /\ task' \in [Processes -> Tasks] /\ \A q \in Processes \ {w} : task'[q] = task[q]
        /\ task'[w] = [at |-> "refused", thing |-> task[w].thing] \/ task'[w] = [at |-> "asked", thing |-> object]
        /\ reports' \subseteq Requests
    <2>1. CASE object.content \in Unfit
      <3>1. Objects!Go(w, "refused") /\ reports' = reports \cup {object.request}
        BY <2>1 DEF Objects!Ask
      <3>2. [at |-> "refused", thing |-> None] \in Tasks
        BY DEF Tasks
      <3> QED
        BY <1>1, <3>1, <3>2, GoStands DEF ObjectsInv, ObjectsTyped, Object, Objects!Object
    <2>2. CASE object.content \notin Unfit
      <3>1. [at |-> "asked", thing |-> object] \in Tasks
        BY DEF Tasks, Things, Object, Objects!Things
      <3> QED
        BY <1>1, <2>2, <3>1 DEF Objects!Ask, ObjectsInv, ObjectsTyped
    <2> QED
      BY <2>1, <2>2
  <1>3. ObjectsTyped'
    BY <1>2 DEF ObjectsInv, ObjectsTyped, Objects!Ask
  <1>4. WriterHolds(w)'
    BY <1>1, <1>2 DEF WriterHolds, Objects!Ask, Holding
  <1>5. w \notin TensorWriters
    BY ObjectsAssumption
  <1> QED
    BY <1>1, <1>2, <1>3, <1>4, <1>5, StepStands DEF Objects!Ask

\* A writer that lets go of the lock, or ends without having had it.
LEMMA EndStands ==
    ASSUME ObjectsInv, NEW p \in Processes, store' = store, ObjectsTyped',
           task' = [task EXCEPT ![p] = Objects!Idle],
           lock' = IF lock = p THEN "free" ELSE lock,
           acked' = acked \/ Objects!AcknowledgedIsServed',
           UNCHANGED <<rowOf, objects>>
    PROVE  ObjectsInv'
  <1>1. /\ task'[p] = [at |-> "idle", thing |-> None]
        /\ \A q \in Processes \ {p} : task'[q] = task[q]
    BY DEF ObjectsInv, ObjectsTyped, Objects!Idle, None
  <1>2. p \in Writers => WriterHolds(p)'
    BY <1>1, ObjectsAssumption DEF WriterHolds, ObjectsInv, Holding
  <1>3. p \in TensorWriters => TensorHolds(p)'
    BY <1>1 DEF TensorHolds
  <1> QED
    BY <1>1, <1>2, <1>3, StepStands DEF ObjectsInv

\* A call that returns an object its request is bound to.
LEMMA ReturnStands ==
    ASSUME ObjectsInv, NEW w \in Writers, lock = w, NEW object \in Object,
           rowOf[object.request] = object, objects[object] = "whole",
           object.content = task[w].thing.content, Objects!Return(w, object),
           UNCHANGED <<store, rowOf, objects, unflushed, draft, reports, glitches, losses>>
    PROVE  ObjectsInv'
  <1>1. PICK a : a = [request |-> object.request, content |-> task[w].thing.content, object |-> object]
    OBVIOUS
  <1>2. /\ task' = [task EXCEPT ![w] = Objects!Idle] /\ lock' = "free" /\ acked' = acked \cup {a}
        /\ w \in Processes /\ Objects!Idle \in Tasks
    BY <1>1 DEF Objects!Return, Objects!Mine, Processes, Objects!Idle, Tasks, None
  <1>3. a \in [request : Requests, content : Contents, object : Object]
    BY <1>1 DEF Object, Objects!Object
  <1>4. ObjectsTyped'
    BY <1>2, <1>3 DEF ObjectsInv, ObjectsTyped
  <1>5. "tensor" \notin DOMAIN a
    BY <1>3
  <1>6. Objects!AcknowledgedIsServed'
    BY <1>1, <1>2, <1>3, <1>5 DEF ObjectsInv, Objects!AcknowledgedIsServed
  <1> QED
    BY <1>2, <1>4, <1>6, EndStands

\* A call that is refused gives the lock back and keeps what it asked for.
LEMMA RefuseStands ==
    ASSUME ObjectsInv, NEW w \in Writers, store = "features", lock = w, task[w].thing \in Object,
           rowOf[task[w].thing.request] # None, rowOf[task[w].thing.request].content # task[w].thing.content,
           Objects!Refuse(w), UNCHANGED <<store, rowOf, objects, unflushed, reports, glitches, losses>>
    PROVE  ObjectsInv'
  <1>1. w \in Processes /\ w # "free" /\ w \notin TensorWriters /\ [at |-> "refused", thing |-> None] \in Tasks
    BY ObjectsAssumption DEF Processes, Tasks
  <1>2. /\ task' \in [Processes -> Tasks] /\ task'[w] = [at |-> "refused", thing |-> task[w].thing]
        /\ \A q \in Processes \ {w} : task'[q] = task[q]
    BY <1>1, GoStands DEF Objects!Refuse, ObjectsInv
  <1>3. ObjectsTyped'
    BY <1>2 DEF Objects!Refuse, ObjectsInv, ObjectsTyped
  <1>4. WriterHolds(w)'
    BY <1>1, <1>2 DEF WriterHolds, Holding, Objects!Refuse
  <1> QED
    BY <1>1, <1>2, <1>3, <1>4, StepStands DEF Objects!Refuse

\* The lock is taken, a directory is written, an object's entry is flushed: the writer
\* goes one place on and rows, objects and answers stay.
LEMMA OnwardStands ==
    ASSUME ObjectsInv, NEW w \in Writers, store = "features",
           Objects!Lock(w) \/ Objects!Stage(w) \/ Objects!FlushObjects(w)
              \/ (Objects!At(w, "locked") /\ rowOf[task[w].thing.request] = None /\ Objects!Go(w, "missed")
                  /\ UNCHANGED <<store, rowOf, objects, unflushed, draft, reports, lock, acked, glitches, losses>>)
    PROVE  ObjectsInv'
  <1>1. /\ w \in Processes /\ w # "free" /\ w \notin TensorWriters /\ WriterHolds(w)
        /\ \A at \in {"locked", "missed", "staged", "flushed"} : [at |-> at, thing |-> None] \in Tasks
    BY ObjectsAssumption DEF Processes, Tasks, ObjectsInv
  <1>2. PICK from \in {"asked", "locked", "missed", "renamed"}, to \in {"locked", "missed", "staged", "flushed"} :
           /\ <<from, to>> \in {<<"asked", "locked">>, <<"locked", "missed">>, <<"missed", "staged">>, <<"renamed", "flushed">>}
           /\ task[w].at = from /\ Objects!Go(w, to)
           /\ to = "missed" => rowOf[task[w].thing.request] = None
           /\ to = "locked" => lock = "free" /\ lock' = w
           /\ to # "locked" => lock' = lock
           /\ UNCHANGED <<store, rowOf, objects, reports, acked, glitches, losses>>
           /\ unflushed' \subseteq unflushed /\ draft' \subseteq draft \cup {w}
    BY DEF Objects!Lock, Objects!Stage, Objects!FlushObjects, Objects!At
  <1>3. /\ task' \in [Processes -> Tasks] /\ task'[w] = [at |-> to, thing |-> task[w].thing]
        /\ \A q \in Processes \ {w} : task'[q] = task[q]
    BY <1>1, <1>2, GoStands DEF ObjectsInv
  <1>4. ObjectsTyped'
    BY <1>1, <1>2, <1>3 DEF ObjectsInv, ObjectsTyped
  <1>5. WriterHolds(w)'
    BY <1>1, <1>2, <1>3 DEF WriterHolds, Holding
  <1> QED
    BY <1>1, <1>2, <1>3, <1>4, <1>5, StepStands

LEMMA LookupStands ==
    ASSUME ObjectsInv, NEW w \in Writers, store = "features", Objects!Lookup(w)
    PROVE  ObjectsInv'
  <1>1. WriterHolds(w) /\ lock = w /\ task[w].thing \in Object /\ task[w].thing.request \in Requests
    BY DEF ObjectsInv, WriterHolds, Holding, Objects!Lookup, Objects!At, Object, Objects!Object
  <1>2. PICK row : row = rowOf[task[w].thing.request]
    OBVIOUS
  <1>3. CASE row = None
    BY <1>1, <1>2, <1>3, OnwardStands DEF Objects!Lookup, Objects!Mine, None
  <1>4. CASE row # None
    <2>1. row \in Object /\ row.request = task[w].thing.request /\ objects[row] = "whole"
      BY <1>1, <1>2, <1>4 DEF ObjectsInv, ObjectsTyped, RowsHold
    <2>2. CASE row.content = task[w].thing.content
      BY <1>1, <1>2, <1>4, <2>1, <2>2, ReturnStands DEF Objects!Lookup, Objects!Mine, Objects!SameContent, None
    <2>3. CASE row.content # task[w].thing.content
      BY <1>1, <1>2, <1>4, <2>1, <2>3, RefuseStands DEF Objects!Lookup, Objects!Mine, Objects!SameContent, None
    <2> QED
      BY <2>2, <2>3
  <1> QED
    BY <1>3, <1>4

LEMMA RenameStands ==
    ASSUME ObjectsInv, NEW w \in Writers, store = "features", Objects!Rename(w)
    PROVE  ObjectsInv'
  <1>1. /\ w \in Processes /\ w # "free" /\ w \notin TensorWriters /\ WriterHolds(w)
        /\ \A at \in {"renamed", "flushed"} : [at |-> at, thing |-> None] \in Tasks
    BY ObjectsAssumption DEF Processes, Tasks, ObjectsInv
  <1>2. task[w].at = "staged" /\ task[w].thing \in Object /\ task[w].thing \in Things /\ lock = w
    BY <1>1 DEF WriterHolds, Holding, Objects!Rename, Objects!At, Object, Things, Objects!Things
  <1>3. PICK to \in {"renamed", "flushed"} :
           /\ Objects!Go(w, to) /\ objects' \in [Things -> {"absent", "whole"}] /\ objects'[task[w].thing] = "whole"
           /\ \A o \in Things : objects[o] = "whole" => objects'[o] = "whole"
           /\ unflushed' \subseteq Things /\ draft' \subseteq draft
           /\ UNCHANGED <<store, rowOf, reports, lock, acked, glitches, losses>>
    BY <1>2 DEF Objects!Rename, Objects!Mine, Objects!Adoptable, ObjectsInv, ObjectsTyped
  <1>4. /\ task' \in [Processes -> Tasks] /\ task'[w] = [at |-> to, thing |-> task[w].thing]
        /\ \A q \in Processes \ {w} : task'[q] = task[q]
    BY <1>1, <1>3, GoStands DEF ObjectsInv
  <1>5. ObjectsTyped'
    BY <1>3, <1>4 DEF ObjectsInv, ObjectsTyped
  <1>6. WriterHolds(w)'
    BY <1>1, <1>2, <1>3, <1>4 DEF WriterHolds, Holding
  <1> QED
    BY <1>1, <1>3, <1>4, <1>5, <1>6, StepStands

LEMMA PublishRowStands ==
    ASSUME ObjectsInv, NEW w \in Writers, store = "features", Objects!PublishRow(w)
    PROVE  ObjectsInv'
  <1>1. /\ w \in Processes /\ w # "free" /\ w \notin TensorWriters /\ WriterHolds(w)
        /\ [at |-> "bound", thing |-> None] \in Tasks
    BY ObjectsAssumption DEF Processes, Tasks, ObjectsInv
  <1>2. PICK object \in Object : object = task[w].thing
    BY <1>1 DEF WriterHolds, Holding, Objects!PublishRow, Objects!At
  <1>3. /\ task[w].at = "flushed" /\ lock = w /\ rowOf[object.request] = None /\ objects[object] = "whole"
        /\ object.request \in Requests
    BY <1>1, <1>2 DEF WriterHolds, Holding, Objects!PublishRow, Objects!At, Object, Objects!Object
  <1>4. /\ rowOf' = [rowOf EXCEPT ![object.request] = object] /\ Objects!Go(w, "bound")
        /\ UNCHANGED <<store, objects, unflushed, draft, reports, lock, acked, glitches, losses>>
    BY <1>2, <1>3 DEF Objects!PublishRow, Objects!Mine, Objects!Bind, None, ObjectsInv, ObjectsTyped
  <1>5. /\ task' \in [Processes -> Tasks] /\ task'[w] = [at |-> "bound", thing |-> object]
        /\ \A q \in Processes \ {w} : task'[q] = task[q]
    BY <1>1, <1>2, <1>4, GoStands DEF ObjectsInv
  <1>6. ObjectsTyped' /\ rowOf'[object.request] = object
    BY <1>3, <1>4, <1>5 DEF ObjectsInv, ObjectsTyped
  <1>7. \A r \in Requests \ {object.request} : rowOf'[r] = rowOf[r]
    BY <1>3, <1>4 DEF ObjectsInv, ObjectsTyped
  <1>8. RowsHold'
    BY <1>3, <1>4, <1>6, <1>7 DEF ObjectsInv, RowsHold
  <1>9. WriterHolds(w)'
    BY <1>1, <1>3, <1>4, <1>5, <1>6 DEF WriterHolds, Holding
  <1> QED
    BY <1>1, <1>3, <1>4, <1>5, <1>6, <1>7, <1>8, <1>9, StepStands

LEMMA ReturnPublishedStands ==
    ASSUME ObjectsInv, NEW w \in Writers, store = "features", Objects!ReturnPublished(w)
    PROVE  ObjectsInv'
  <1>1. WriterHolds(w) /\ lock = w /\ task[w].at = "bound"
    BY DEF ObjectsInv, WriterHolds, Holding, Objects!ReturnPublished, Objects!At
  <1>2. PICK object \in Object : object = task[w].thing
    BY <1>1 DEF WriterHolds, Holding
  <1> QED
    BY <1>1, <1>2, ReturnStands DEF WriterHolds, Objects!ReturnPublished, Objects!Mine

LEMMA FailStands ==
    ASSUME ObjectsInv, NEW p \in Processes,
           Objects!Kill(p) \/ (p \in Writers /\ Objects!Fail(p))
    PROVE  ObjectsInv'
  <1>1. /\ task' = [task EXCEPT ![p] = Objects!Idle] /\ Objects!Idle \in Tasks /\ draft' \subseteq draft
        /\ glitches' = glitches + 1 /\ glitches < MaxObjectFaults
        /\ UNCHANGED <<store, rowOf, objects, unflushed, reports, acked, losses>>
    BY DEF Objects!Kill, Objects!Fail, Objects!Idle, Tasks, None
  <1>2. lock' = IF lock = p THEN "free" ELSE lock
    BY DEF Objects!Kill, Objects!Fail, ObjectsInv, WriterHolds, Holding
  <1>3. glitches' \in 0..MaxObjectFaults
    BY <1>1, ObjectsAssumption DEF ObjectsInv, ObjectsTyped
  <1>4. ObjectsTyped'
    BY <1>1, <1>2, <1>3 DEF ObjectsInv, ObjectsTyped
  <1> QED
    BY <1>1, <1>2, <1>4, EndStands

\* A tensor that is there is returned.
LEMMA TensorReturnStands ==
    ASSUME ObjectsInv, NEW t \in TensorWriters, NEW tensor \in Tensors, objects[tensor] = "whole",
           task' = [task EXCEPT ![t] = Objects!Idle], acked' = acked \cup {[tensor |-> tensor]},
           unflushed' \subseteq unflushed, UNCHANGED <<store, rowOf, objects, draft, reports, lock, glitches, losses>>
    PROVE  ObjectsInv'
  <1>1. PICK a : a = [tensor |-> tensor]
    OBVIOUS
  <1>2. /\ acked' = acked \cup {a} /\ a \in [tensor : Tensors] /\ a.tensor = tensor /\ "tensor" \in DOMAIN a
        /\ t \in Processes /\ Objects!Idle \in Tasks
    BY <1>1 DEF Processes, Objects!Idle, Tasks, None
  <1>3. ObjectsTyped'
    BY <1>2 DEF ObjectsInv, ObjectsTyped
  <1>4. Objects!AcknowledgedIsServed'
    BY <1>2 DEF ObjectsInv, Objects!AcknowledgedIsServed
  <1>5. lock = t => lock = "free"
    BY ObjectsAssumption DEF ObjectsInv, ObjectsTyped
  <1>6. lock' = IF lock = t THEN "free" ELSE lock
    BY <1>5
  <1> QED
    BY <1>2, <1>3, <1>4, <1>6, EndStands

LEMMA AskTensorStands ==
    ASSUME ObjectsInv, NEW t \in TensorWriters, store = "tensors", NEW tensor \in Tensors, Objects!AskTensor(t, tensor)
    PROVE  ObjectsInv'
  <1>1. /\ tensor \in Things /\ t \in Processes /\ t \notin Writers
        /\ [at |-> "staged", thing |-> tensor] \in Tasks
    BY ObjectsAssumption DEF Things, Objects!Things, Processes, Tasks
  <1>2. CASE objects[tensor] # "absent"
    <2>1. objects[tensor] = "whole"
      BY <1>1, <1>2 DEF ObjectsInv, ObjectsTyped
    <2> QED
      BY <1>2, <2>1, TensorReturnStands DEF Objects!AskTensor
  <1>3. CASE objects[tensor] = "absent"
    <2>1. /\ task' = [task EXCEPT ![t] = [at |-> "staged", thing |-> tensor]] /\ draft' = draft \cup {t}
          /\ UNCHANGED <<store, rowOf, objects, unflushed, reports, lock, acked, glitches, losses>>
      BY <1>3 DEF Objects!AskTensor
    <2>2. /\ task' \in [Processes -> Tasks] /\ task'[t] = [at |-> "staged", thing |-> tensor]
          /\ \A q \in Processes \ {t} : task'[q] = task[q]
      BY <1>1, <2>1 DEF ObjectsInv, ObjectsTyped
    <2>3. ObjectsTyped'
      BY <1>1, <2>1, <2>2 DEF ObjectsInv, ObjectsTyped
    <2>4. TensorHolds(t)'
      BY <2>1, <2>2 DEF TensorHolds
    <2> QED
      BY <1>1, <2>1, <2>2, <2>3, <2>4, StepStands
  <1> QED
    BY <1>2, <1>3

LEMMA RenameTensorStands ==
    ASSUME ObjectsInv, NEW t \in TensorWriters, store = "tensors", Objects!RenameTensor(t)
    PROVE  ObjectsInv'
  <1>1. /\ t \in Processes /\ t \notin Writers /\ TensorHolds(t)
        /\ \A at \in {"renamed", "refused"} : [at |-> at, thing |-> None] \in Tasks
    BY ObjectsAssumption DEF Processes, Tasks, ObjectsInv
  <1>2. task[t].thing \in Tensors /\ task[t].thing \in Things
    BY <1>1 DEF TensorHolds, Objects!RenameTensor, Objects!At, Things, Objects!Things
  <1>3. PICK to \in {"renamed", "refused"} :
           /\ Objects!Go(t, to) /\ objects' \in [Things -> {"absent", "whole"}]
           /\ to = "renamed" => objects'[task[t].thing] = "whole"
           /\ \A o \in Things : objects[o] = "whole" => objects'[o] = "whole"
           /\ unflushed' \subseteq Things /\ draft' \subseteq draft
           /\ UNCHANGED <<store, rowOf, reports, lock, acked, glitches, losses>>
    BY <1>2 DEF Objects!RenameTensor, Objects!Mine, ObjectsInv, ObjectsTyped
  <1>4. /\ task' \in [Processes -> Tasks] /\ task'[t] = [at |-> to, thing |-> task[t].thing]
        /\ \A q \in Processes \ {t} : task'[q] = task[q]
    BY <1>1, <1>3, GoStands DEF ObjectsInv
  <1>5. ObjectsTyped'
    BY <1>3, <1>4 DEF ObjectsInv, ObjectsTyped
  <1>6. TensorHolds(t)'
    BY <1>1, <1>2, <1>3, <1>4 DEF TensorHolds
  <1> QED
    BY <1>1, <1>3, <1>4, <1>5, <1>6, StepStands

LEMMA FlushTensorStands ==
    ASSUME ObjectsInv, NEW t \in TensorWriters, store = "tensors", Objects!FlushTensor(t)
    PROVE  ObjectsInv'
  <1>1. PICK tensor \in Tensors : tensor = task[t].thing
    BY DEF Objects!FlushTensor, Objects!At, ObjectsInv, TensorHolds
  <1>2. objects[tensor] = "whole"
    BY <1>1 DEF Objects!FlushTensor, Objects!At, ObjectsInv, TensorHolds
  <1> QED
    BY <1>1, <1>2, TensorReturnStands DEF Objects!FlushTensor, Objects!Mine

LEMMA ObjectsStay == ObjectsInv /\ UNCHANGED objectVars => ObjectsInv'
  <1> SUFFICES ASSUME ObjectsInv, UNCHANGED objectVars PROVE ObjectsInv'
    OBVIOUS
  <1>1. ObjectsTyped' /\ RowsHold' /\ Objects!AcknowledgedIsServed'
    BY DEF objectVars, ObjectsInv, ObjectsTyped, RowsHold, Objects!AcknowledgedIsServed
  <1>2. \A w \in Writers : WriterHolds(w)'
    BY DEF objectVars, ObjectsInv, WriterHolds
  <1>3. \A t \in TensorWriters : TensorHolds(t)'
    BY DEF objectVars, ObjectsInv, TensorHolds
  <1> QED
    BY <1>1, <1>2, <1>3 DEF ObjectsInv

LEMMA ObjectsNext == MaxLosses = 0 /\ ObjectsInv /\ Objects!Next => ObjectsInv'
  <1> SUFFICES ASSUME MaxLosses = 0, ObjectsInv, Objects!Next PROVE ObjectsInv'
    OBVIOUS
  <1>1. ~Objects!PowerLoss
    BY DEF Objects!PowerLoss, ObjectsInv, ObjectsTyped
  <1>2. ASSUME NEW w \in Writers, store = "features",
               \/ \E object \in Objects!Object : Objects!Ask(w, object)
               \/ Objects!Lock(w) \/ Objects!Lookup(w) \/ Objects!Stage(w) \/ Objects!Rename(w)
               \/ Objects!FlushObjects(w) \/ Objects!PublishRow(w) \/ Objects!ReturnPublished(w) \/ Objects!Fail(w)
        PROVE  ObjectsInv'
    BY <1>2, AskStands, OnwardStands, LookupStands, RenameStands, PublishRowStands, ReturnPublishedStands, FailStands
       DEF Object, Processes
  <1>3. ASSUME NEW t \in TensorWriters, store = "tensors",
               \/ \E tensor \in Tensors : Objects!AskTensor(t, tensor)
               \/ Objects!RenameTensor(t) \/ Objects!FlushTensor(t)
        PROVE  ObjectsInv'
    BY <1>3, AskTensorStands, RenameTensorStands, FlushTensorStands
  <1> QED
    BY <1>1, <1>2, <1>3, FailStands DEF Objects!Next, Processes

\* Only PublishRow writes a row and only a rename an object, each where there was none.
LEMMA ObjectsAreFinal ==
    ASSUME MaxLosses = 0, ObjectsInv, [Objects!Next]_objectVars
    PROVE  [/\ \A r \in Requests : rowOf[r] # None => rowOf'[r] = rowOf[r]
            /\ \A o \in Things : objects[o] = "whole" => objects'[o] = "whole"]_objectVars
  <1> SUFFICES ASSUME Objects!Next
               PROVE  /\ \A r \in Requests : rowOf[r] # None => rowOf'[r] = rowOf[r]
                      /\ \A o \in Things : objects[o] = "whole" => objects'[o] = "whole"
    OBVIOUS
  <1>1. ~Objects!PowerLoss
    BY DEF Objects!PowerLoss, ObjectsInv, ObjectsTyped
  <1>2. CASE \E w \in Writers : Objects!PublishRow(w)
    <2>1. PICK w \in Writers : Objects!PublishRow(w)
      BY <1>2
    <2>2. objects' = objects /\ (rowOf' = rowOf \/ rowOf' = Objects!Bind(w))
      BY <2>1 DEF Objects!PublishRow
    <2> QED
      BY <2>2 DEF Objects!Bind, ObjectsInv, ObjectsTyped, None
  <1>3. CASE \E p \in Processes : Objects!Rename(p) \/ Objects!RenameTensor(p)
    BY <1>3 DEF Objects!Rename, Objects!RenameTensor, ObjectsInv, ObjectsTyped
  <1>4. CASE UNCHANGED <<rowOf, objects>>
    BY <1>4
  <1> QED
    BY <1>1, <1>2, <1>3, <1>4 DEF Objects!Next, Objects!Ask, Objects!Lock, Objects!Lookup, Objects!Stage, Objects!FlushObjects,
       Objects!ReturnPublished, Objects!Fail, Objects!Kill, Objects!AskTensor, Objects!FlushTensor, Processes

LEMMA ObjectsPromise ==
    ObjectsInv => /\ Objects!TypeOK /\ Objects!AcknowledgedIsServed /\ Objects!RowsHaveObjects
                  /\ Objects!OnlyDifferentContentIsRefused
  <1> SUFFICES ASSUME ObjectsInv
               PROVE  /\ Objects!TypeOK /\ Objects!AcknowledgedIsServed /\ Objects!RowsHaveObjects
                      /\ Objects!OnlyDifferentContentIsRefused
    OBVIOUS
  <1>1. Objects!TypeOK
    BY ObjectsAssumption DEF ObjectsInv, ObjectsTyped, Objects!TypeOK, Object, None, Things, Processes, Tasks
  <1>2. Objects!RowsHaveObjects
    BY DEF ObjectsInv, RowsHold, Objects!RowsHaveObjects, None
  <1>3. Objects!OnlyDifferentContentIsRefused
    BY DEF ObjectsInv, WriterHolds, Objects!OnlyDifferentContentIsRefused, Objects!At, Objects!Mine, None
  <1> QED
    BY <1>1, <1>2, <1>3 DEF ObjectsInv

-----------------------------------------------------------------------------
\* What the feature stores keep even where the machine loses its power.

\* A process at work has a thing of its own kind.
OwnThings(p) == IF p \in Writers THEN Object ELSE Tensors
AtWork(p) == task[p].at \notin {"idle", "refused"} => task[p].thing \in OwnThings(p)

TasksOwn == task \in [Processes -> Tasks] /\ \A p \in Processes : AtWork(p)

ObjectsOwn ==
    /\ rowOf \in [Requests -> Object \cup {None}] /\ objects \in [Things -> {"absent", "whole", "hollow"}]
    /\ unflushed \subseteq Things /\ draft \subseteq Processes /\ reports \subseteq Requests
    /\ lock \in Writers \cup {"free"}
    /\ acked \subseteq [request : Requests, content : Contents, object : Object] \cup [tensor : Tensors]
    /\ glitches \in 0..MaxObjectFaults /\ losses \in 0..MaxLosses

ObjectsWide == TasksOwn /\ ObjectsOwn

LEMMA WideTypes == ObjectsWide => Objects!TypeOK
  <1> SUFFICES ASSUME ObjectsWide PROVE Objects!TypeOK
    OBVIOUS
  <1>1. \A p \in Processes :
          task[p].at \in {"idle", "asked", "locked", "missed", "staged", "renamed", "flushed", "bound", "refused"}
    BY DEF ObjectsWide, TasksOwn, Tasks
  <1> QED
    BY <1>1 DEF ObjectsWide, ObjectsOwn, Objects!TypeOK, Object, None, Things, Processes

LEMMA WideInit == Objects!Init => ObjectsWide
  <1> SUFFICES ASSUME Objects!Init PROVE ObjectsWide
    OBVIOUS
  <1>1. Objects!Idle \in Tasks /\ Objects!Idle.at = "idle"
    BY DEF Objects!Idle, Tasks, None
  <1>2. task = [p \in Processes |-> Objects!Idle]
    BY DEF Objects!Init, Processes
  <1>3. TasksOwn
    BY <1>1, <1>2 DEF TasksOwn, AtWork
  <1>4. ObjectsOwn
    BY ObjectsAssumption DEF Objects!Init, ObjectsOwn, Object, None, Things
  <1> QED
    BY <1>3, <1>4 DEF ObjectsWide

\* A process goes on with its thing, or takes up a thing of its own, or rests.
LEMMA GoOwn ==
    ASSUME TasksOwn, NEW p \in Processes, NEW at, Objects!Go(p, at), [at |-> at, thing |-> None] \in Tasks,
           at = "refused" \/ task[p].at \notin {"idle", "refused"}
    PROVE  TasksOwn'
  <1>1. task \in [Processes -> Tasks] /\ task' = [task EXCEPT ![p].at = at]
    BY DEF TasksOwn, Objects!Go
  <1>2. task[p] \in Tasks /\ task'[p] = [task[p] EXCEPT !.at = at]
    BY <1>1
  <1>3. task'[p] \in Tasks /\ task'[p].at = at /\ task'[p].thing = task[p].thing
    BY <1>2 DEF Tasks
  <1>4. task' \in [Processes -> Tasks] /\ \A q \in Processes \ {p} : task'[q] = task[q]
    BY <1>1, <1>3
  <1> QED
    BY <1>3, <1>4 DEF TasksOwn, AtWork, OwnThings

LEMMA TakeOwn ==
    ASSUME TasksOwn, NEW p \in Processes, NEW mine \in Tasks, task' = [task EXCEPT ![p] = mine],
           mine.at = "idle" \/ mine.thing \in OwnThings(p)
    PROVE  TasksOwn'
  <1>1. task' \in [Processes -> Tasks] /\ task'[p] = mine /\ \A q \in Processes \ {p} : task'[q] = task[q]
    BY DEF TasksOwn
  <1> QED
    BY <1>1 DEF TasksOwn, AtWork, OwnThings

LEMMA RestOwn == ASSUME TasksOwn, NEW p \in Processes, task' = [task EXCEPT ![p] = Objects!Idle] PROVE TasksOwn'
  BY TakeOwn DEF Objects!Idle, Tasks, None

LEMMA WriterOwn ==
    ASSUME ObjectsWide, NEW w \in Writers,
           \/ \E object \in Object : Objects!Ask(w, object)
           \/ Objects!Lock(w) \/ Objects!Stage(w) \/ Objects!FlushObjects(w) \/ Objects!Fail(w)
    PROVE  ObjectsWide'
  <1>1. w \in Processes /\ (task[w].at \notin {"idle", "refused"} => task[w].thing \in Object)
    BY DEF Processes, ObjectsWide, TasksOwn, AtWork, OwnThings
  <1>2. ASSUME NEW object \in Object, Objects!Ask(w, object) PROVE ObjectsWide'
    <2>1. [at |-> "asked", thing |-> object] \in Tasks /\ [at |-> "refused", thing |-> None] \in Tasks
      BY DEF Tasks, Things, Objects!Things, Object
    <2>2. object.request \in Requests
      BY DEF Object, Objects!Object
    <2>3. TasksOwn'
      BY <1>1, <1>2, <2>1, GoOwn, TakeOwn DEF Objects!Ask, ObjectsWide, OwnThings
    <2> QED
      BY <1>2, <2>2, <2>3 DEF Objects!Ask, ObjectsWide, ObjectsOwn
  <1>3. CASE Objects!Lock(w) \/ Objects!Stage(w) \/ Objects!FlushObjects(w)
    <2>1. TasksOwn'
      BY <1>1, <1>3, GoOwn DEF Objects!Lock, Objects!Stage, Objects!FlushObjects, Objects!At, ObjectsWide, Tasks, Things, Objects!Things
    <2> QED
      BY <1>1, <1>3, <2>1 DEF Objects!Lock, Objects!Stage, Objects!FlushObjects, ObjectsWide, ObjectsOwn
  <1>4. CASE Objects!Fail(w)
    <2>1. TasksOwn'
      BY <1>1, <1>4, RestOwn DEF Objects!Fail, ObjectsWide
    <2>2. glitches' \in 0..MaxObjectFaults
      BY <1>4, ObjectsAssumption DEF Objects!Fail, ObjectsWide, ObjectsOwn
    <2> QED
      BY <1>4, <2>1, <2>2 DEF Objects!Fail, ObjectsWide, ObjectsOwn
  <1> QED
    BY <1>2, <1>3, <1>4

LEMMA RefuseOwn ==
    ASSUME TasksOwn, NEW w \in Writers, Objects!Refuse(w)
    PROVE  TasksOwn'
  BY GoOwn DEF Objects!Refuse, Tasks, Processes

\* The answer of a writer that found or bound an object.
LEMMA ReturnOwn ==
    ASSUME ObjectsWide, NEW w \in Writers, NEW object \in Object, Objects!Return(w, object), task[w].thing \in Object
    PROVE  /\ TasksOwn' /\ lock' \in Writers \cup {"free"}
           /\ acked' \subseteq [request : Requests, content : Contents, object : Object] \cup [tensor : Tensors]
  <1>1. TasksOwn' /\ lock' = "free"
    BY RestOwn DEF Objects!Return, ObjectsWide, Processes
  <1>2. [request |-> object.request, content |-> Objects!Mine(w).content, object |-> object]
        \in [request : Requests, content : Contents, object : Object]
    BY DEF Object, Objects!Object, Objects!Mine
  <1> QED
    BY <1>1, <1>2 DEF Objects!Return, ObjectsWide, ObjectsOwn

LEMMA PublisherOwn ==
    ASSUME ObjectsWide, NEW w \in Writers,
           Objects!Lookup(w) \/ Objects!Rename(w) \/ Objects!PublishRow(w) \/ Objects!ReturnPublished(w)
    PROVE  ObjectsWide'
  <1>1. w \in Processes /\ task[w].at \notin {"idle", "refused"} /\ task[w].thing \in Object
    BY DEF Processes, ObjectsWide, TasksOwn, AtWork, OwnThings, Objects!Lookup, Objects!Rename, Objects!PublishRow,
           Objects!ReturnPublished, Objects!At
  <1>2. task[w].thing \in Things /\ task[w].thing.request \in Requests
    BY <1>1 DEF Object, Objects!Object, Things, Objects!Things
  <1>3. \A at \in {"missed", "renamed", "flushed", "bound"} : Objects!Go(w, at) => TasksOwn'
    BY <1>1, GoOwn DEF ObjectsWide, Tasks
  <1>4. Objects!Refuse(w) => TasksOwn' /\ lock' = "free" /\ draft' \subseteq draft /\ acked' = acked
    BY RefuseOwn DEF ObjectsWide, Objects!Refuse
  <1>5. CASE Objects!Lookup(w)
    <2>1. PICK row : row = rowOf[Objects!Mine(w).request]
      OBVIOUS
    <2>2. row \in Object \cup {Objects!None}
      BY <1>2, <2>1 DEF Objects!Mine, ObjectsWide, ObjectsOwn, None
    <2>3. /\ \/ Objects!Go(w, "missed") /\ UNCHANGED <<lock, draft, acked>>
             \/ row # Objects!None /\ Objects!Return(w, row) /\ UNCHANGED draft
             \/ Objects!Refuse(w)
          /\ UNCHANGED <<store, rowOf, objects, unflushed, reports, glitches, losses>>
      BY <1>5, <2>1 DEF Objects!Lookup
    <2>4. TasksOwn' /\ lock' \in Writers \cup {"free"} /\ draft' \subseteq Processes
          /\ acked' \subseteq [request : Requests, content : Contents, object : Object] \cup [tensor : Tensors]
      BY <1>1, <1>3, <1>4, <2>2, <2>3, ReturnOwn DEF ObjectsWide, ObjectsOwn
    <2> QED
      BY <2>3, <2>4 DEF ObjectsWide, ObjectsOwn
  <1>6. CASE Objects!Rename(w)
    <2>1. TasksOwn' /\ lock' \in Writers \cup {"free"} /\ draft' \subseteq Processes /\ acked' = acked
      BY <1>3, <1>4, <1>6 DEF Objects!Rename, ObjectsWide, ObjectsOwn
    <2>2. objects' \in [Things -> {"absent", "whole", "hollow"}] /\ unflushed' \subseteq Things
      BY <1>2, <1>6 DEF Objects!Rename, Objects!Mine, ObjectsWide, ObjectsOwn
    <2> QED
      BY <1>6, <2>1, <2>2 DEF Objects!Rename, ObjectsWide, ObjectsOwn
  <1>7. CASE Objects!PublishRow(w)
    <2>1. TasksOwn' /\ lock' \in Writers \cup {"free"} /\ draft' \subseteq Processes /\ acked' = acked
      BY <1>3, <1>4, <1>7 DEF Objects!PublishRow, ObjectsWide, ObjectsOwn
    <2>2. rowOf' \in [Requests -> Object \cup {None}]
      BY <1>1, <1>2, <1>7 DEF Objects!PublishRow, Objects!Bind, Objects!Mine, ObjectsWide, ObjectsOwn
    <2> QED
      BY <1>7, <2>1, <2>2 DEF Objects!PublishRow, ObjectsWide, ObjectsOwn
  <1>8. CASE Objects!ReturnPublished(w)
    <2>1. TasksOwn' /\ lock' \in Writers \cup {"free"} /\ draft' \subseteq Processes
          /\ acked' \subseteq [request : Requests, content : Contents, object : Object] \cup [tensor : Tensors]
      BY <1>1, <1>4, <1>8, ReturnOwn DEF Objects!ReturnPublished, Objects!Mine, ObjectsWide, ObjectsOwn
    <2> QED
      BY <1>8, <2>1 DEF Objects!ReturnPublished, ObjectsWide, ObjectsOwn
  <1> QED
    BY <1>5, <1>6, <1>7, <1>8

LEMMA TensorOwn ==
    ASSUME ObjectsWide, NEW t \in TensorWriters,
           \/ \E tensor \in Tensors : Objects!AskTensor(t, tensor)
           \/ Objects!RenameTensor(t) \/ Objects!FlushTensor(t)
    PROVE  ObjectsWide'
  <1>1. t \in Processes /\ OwnThings(t) = Tensors
        /\ (task[t].at \notin {"idle", "refused"} => task[t].thing \in Tensors)
    BY ObjectsAssumption DEF Processes, ObjectsWide, TasksOwn, AtWork, OwnThings
  <1>2. \A tensor \in Tensors : tensor \in Things /\ [at |-> "staged", thing |-> tensor] \in Tasks
    BY DEF Things, Objects!Things, Tasks
  <1>3. ASSUME NEW tensor \in Tensors, Objects!AskTensor(t, tensor) PROVE ObjectsWide'
    <2>1. TasksOwn'
      BY <1>1, <1>2, <1>3, TakeOwn, RestOwn DEF Objects!AskTensor, ObjectsWide
    <2> QED
      BY <1>1, <1>3, <2>1 DEF Objects!AskTensor, ObjectsWide, ObjectsOwn
  <1>4. CASE Objects!RenameTensor(t)
    <2>1. TasksOwn'
      BY <1>1, <1>4, GoOwn DEF Objects!RenameTensor, Objects!At, ObjectsWide, Tasks
    <2>2. objects' \in [Things -> {"absent", "whole", "hollow"}] /\ unflushed' \subseteq Things
      BY <1>1, <1>2, <1>4, ZenonT(40) DEF Objects!RenameTensor, Objects!At, Objects!Mine, ObjectsWide, ObjectsOwn
    <2> QED
      BY <1>4, <2>1, <2>2 DEF Objects!RenameTensor, ObjectsWide, ObjectsOwn
  <1>5. CASE Objects!FlushTensor(t)
    <2>1. TasksOwn' /\ [tensor |-> Objects!Mine(t)] \in [tensor : Tensors]
      BY <1>1, <1>5, RestOwn DEF Objects!FlushTensor, Objects!At, Objects!Mine, ObjectsWide
    <2> QED
      BY <1>5, <2>1 DEF Objects!FlushTensor, ObjectsWide, ObjectsOwn
  <1> QED
    BY <1>3, <1>4, <1>5

LEMMA KillOwn == ASSUME ObjectsWide, NEW p \in Processes, Objects!Kill(p) PROVE ObjectsWide'
  <1>1. TasksOwn'
    BY RestOwn DEF Objects!Kill, ObjectsWide
  <1> QED
    BY <1>1, ObjectsAssumption DEF Objects!Kill, ObjectsWide, ObjectsOwn

LEMMA PowerLossOwn == ASSUME ObjectsWide, Objects!PowerLoss PROVE ObjectsWide'
  <1>1. Objects!Idle \in Tasks /\ Objects!Idle.at = "idle" /\ task' = [p \in Processes |-> Objects!Idle]
    BY DEF Objects!PowerLoss, Objects!Idle, Tasks, None, Processes
  <1>2. TasksOwn'
    BY <1>1 DEF TasksOwn, AtWork
  <1>3. objects' \in [Things -> {"absent", "whole", "hollow"}]
    BY DEF Objects!PowerLoss, Things, ObjectsWide, ObjectsOwn
  <1> QED
    BY <1>2, <1>3, ObjectsAssumption DEF Objects!PowerLoss, ObjectsWide, ObjectsOwn

LEMMA WideStays == ObjectsWide /\ UNCHANGED objectVars => ObjectsWide'
  BY DEF objectVars, ObjectsWide, ObjectsOwn, TasksOwn, AtWork

LEMMA WideNext == ObjectsWide /\ Objects!Next => ObjectsWide'
  BY WriterOwn, PublisherOwn, TensorOwn, KillOwn, PowerLossOwn DEF Objects!Next, Object, Processes

-----------------------------------------------------------------------------
\* The downloads (MarketDownload).

Names == Download!Names
NoName == Download!NoName
ClientRecord == [pc : {"idle", "entering", "locked", "requesting", "gathered", "renamed", "manifested"},
                 page : 1..(NumPages + 1), retry : 0..MaxRetries, used : 0..MaxRequests, name : Names \cup {NoName}]

\* What parsed; it may still be refused when it is normalised.
Parsed == Generations \cup {"unfit"}

\* A client at work holds the lock, paid for every try, and has staged the pages before its
\* own; once it named its snapshot that one is where its place says.
ClientHolds(c) ==
    /\ client[c].pc \notin {"idle", "entering"} => downloadLock = c
    /\ client[c].pc = "entering" => client[c].page = 1
    /\ client[c].retry <= client[c].used
    /\ client[c].pc = "requesting" => client[c].retry + 1 <= client[c].used /\ client[c].page <= NumPages
    /\ client[c].pc \in {"locked", "requesting"} =>
          \A p \in 1..NumPages : p < client[c].page => pages.page[p] \in Parsed
    /\ client[c].pc \in {"gathered", "renamed", "manifested"} => client[c].name \in [1..NumPages -> Parsed]
    /\ client[c].pc = "renamed" => snapshots[client[c].name] = "bare"
    /\ client[c].pc = "manifested" => snapshots[client[c].name] = "whole"

\* A manifest is written for usable data only, and only such a snapshot is pointed to or served.
SnapshotsHold ==
    /\ \A n \in Names : snapshots[n] = "whole" => n \in [1..NumPages -> Generations]
    /\ latest # NoName => snapshots[latest] = "whole"
    /\ \A c \in Clients : served[c] # NoName => snapshots[served[c]] = "whole"

DownloadTyped ==
    /\ downloadLock \in Clients \cup {"free", "orphan"}
    /\ pages \in [exists : BOOLEAN, page : [1..NumPages -> Parsed \cup {"malformed", "none"}]]
    /\ snapshots \in [Names -> {"absent", "bare", "whole"}]
    /\ latest \in Names \cup {NoName} /\ client \in [Clients -> ClientRecord]
    /\ served \in [Clients -> Names \cup {NoName}]
    /\ mishaps \in [faults : 0..MaxMishaps, kills : 0..MaxKills]

DownloadInv == DownloadTyped /\ SnapshotsHold /\ \A c \in Clients : ClientHolds(c)

LEMMA DownloadNumbers ==
    /\ NumPages \in Nat \ {0} /\ MaxRetries \in Nat /\ MaxRequests \in Nat \ {0}
    /\ MaxMishaps \in Nat /\ MaxKills \in Nat
  BY DownloadAssumption

LEMMA DownloadTypes == DownloadTyped => Download!TypeOK
  <1>1. Download!PageContents \cup {"none"} = Parsed \cup {"malformed", "none"}
    BY DEF Download!PageContents, Parsed
  <1> QED
    BY <1>1 DEF DownloadTyped, Download!TypeOK, ClientRecord, Download!Pages, Names, NoName

\* The record of a client that is idle, and a name of parsed pages.
LEMMA DownloadRecords ==
    /\ Download!Idle \in ClientRecord
    /\ Download!Idle = [pc |-> "idle", page |-> 1, retry |-> 0, used |-> 0, name |-> NoName]
    /\ [1..NumPages -> Parsed] \subseteq Names
  <1>1. Download!Idle = [pc |-> "idle", page |-> 1, retry |-> 0, used |-> 0, name |-> NoName]
    BY DEF Download!Idle, NoName
  <1>2. 1 \in 1..(NumPages + 1) /\ 0 \in 0..MaxRetries /\ 0 \in 0..MaxRequests
    BY DownloadNumbers
  <1>3. [1..NumPages -> Parsed] \subseteq Names
    BY DEF Names, Download!Names, Download!Pages, Download!PageContents, Parsed
  <1> QED
    BY <1>1, <1>2, <1>3 DEF ClientRecord

LEMMA DownloadInit == Download!Init => DownloadInv
  <1> SUFFICES ASSUME Download!Init PROVE DownloadInv
    OBVIOUS
  <1>1. DownloadTyped
    <2>1. Download!NoStaging \in [exists : BOOLEAN, page : [1..NumPages -> Parsed \cup {"malformed", "none"}]]
      BY DEF Download!NoStaging, Download!NoName, Download!Pages
    <2>2. [faults |-> 0, kills |-> 0] \in [faults : 0..MaxMishaps, kills : 0..MaxKills]
      BY DownloadNumbers
    <2> QED
      BY <2>1, <2>2, DownloadRecords DEF DownloadTyped, Download!Init, Names, NoName
  <1>2. \A c \in Clients : ClientHolds(c)
    BY DownloadRecords DEF Download!Init, ClientHolds
  <1>3. SnapshotsHold
    BY DEF Download!Init, SnapshotsHold, Names, NoName
  <1> QED
    BY <1>1, <1>2, <1>3 DEF DownloadInv

\* What a client does leaves the others where they were, as long as it changes the staged
\* pages and the snapshots under its lock only.
LEMMA OtherClients ==
    ASSUME DownloadInv, NEW c \in Clients,
           \A d \in Clients \ {c} : client'[d] = client[d],
           pages'.page = pages.page \/ downloadLock = c,
           snapshots' = snapshots \/ downloadLock = c,
           downloadLock' = downloadLock \/ downloadLock \in {c, "free"}
    PROVE  \A d \in Clients \ {c} : ClientHolds(d)'
  <1> SUFFICES ASSUME NEW d \in Clients \ {c} PROVE ClientHolds(d)'
    OBVIOUS
  <1>1. ClientHolds(d) /\ client'[d] = client[d] /\ d # "free"
    BY DownloadAssumption DEF DownloadInv
  <1>2. CASE downloadLock = d
    BY <1>1, <1>2 DEF ClientHolds
  <1>3. CASE downloadLock # d
    <2>1. client[d].pc \in {"idle", "entering"}
      BY <1>1, <1>3 DEF ClientHolds
    <2> QED
      BY <1>1, <2>1 DEF ClientHolds
  <1> QED
    BY <1>2, <1>3

\* Pointer and panels stand while manifests do.
LEMMA SnapshotsStand ==
    ASSUME DownloadInv, snapshots' = snapshots,
           latest' = latest \/ snapshots[latest'] = "whole",
           \A c \in Clients : served'[c] # NoName => served'[c] = served[c] \/ snapshots[served'[c]] = "whole"
    PROVE  SnapshotsHold'
  BY DEF DownloadInv, SnapshotsHold

\* A client that raises, or is killed, or ends.
LEMMA ClientEnds ==
    ASSUME DownloadInv, NEW c \in Clients, client' = [client EXCEPT ![c] = Download!Idle],
           pages'.page = pages.page \/ downloadLock = c, snapshots' = snapshots,
           downloadLock' = downloadLock \/ downloadLock = c,
           latest' = latest \/ snapshots[latest'] = "whole",
           \A d \in Clients : served'[d] # NoName => served'[d] = served[d] \/ snapshots[served'[d]] = "whole",
           DownloadTyped'
    PROVE  DownloadInv'
  <1>1. client'[c] = Download!Idle /\ \A d \in Clients \ {c} : client'[d] = client[d]
    BY DEF DownloadInv, DownloadTyped
  <1>2. ClientHolds(c)'
    BY <1>1, DownloadRecords DEF ClientHolds
  <1>3. \A d \in Clients \ {c} : ClientHolds(d)'
    BY <1>1, OtherClients
  <1>4. SnapshotsHold'
    BY SnapshotsStand
  <1> QED
    BY <1>2, <1>3, <1>4 DEF DownloadInv

\* A fault or a kill is counted.
LEMMA MishapTyped ==
    ASSUME DownloadTyped
    PROVE  /\ Download!Fault => mishaps' \in [faults : 0..MaxMishaps, kills : 0..MaxKills]
           /\ mishaps.kills < MaxKills /\ mishaps' = [mishaps EXCEPT !.kills = @ + 1] =>
                 mishaps' \in [faults : 0..MaxMishaps, kills : 0..MaxKills]
  BY DownloadNumbers DEF DownloadTyped, Download!Fault

\* A client that goes on, with a record of its own.
LEMMA ClientGoes ==
    ASSUME DownloadInv, NEW c \in Clients, \A d \in Clients \ {c} : client'[d] = client[d],
           UNCHANGED <<latest, served>>, ClientHolds(c)', DownloadTyped', SnapshotsHold',
           pages'.page = pages.page \/ downloadLock = c, snapshots' = snapshots \/ downloadLock = c,
           downloadLock' = downloadLock \/ downloadLock \in {c, "free"}
    PROVE  DownloadInv'
  BY OtherClients DEF DownloadInv

\* The clients' records after a step of one of them.
LEMMA ClientAt ==
    ASSUME DownloadTyped, NEW c \in Clients, NEW mine \in ClientRecord, client' = [client EXCEPT ![c] = mine]
    PROVE  /\ client' \in [Clients -> ClientRecord] /\ client'[c] = mine
           /\ \A d \in Clients \ {c} : client'[d] = client[d]
  BY DEF DownloadTyped

\* A client's fields, and its record when only its place changes.
LEMMA ClientFields ==
    ASSUME DownloadTyped, NEW c \in Clients
    PROVE  /\ client[c].page \in 1..(NumPages + 1) /\ client[c].retry \in 0..MaxRetries
           /\ client[c].used \in 0..MaxRequests /\ client[c].name \in Names \cup {NoName}
           /\ client \in [Clients -> ClientRecord] /\ client[c] \in ClientRecord
  BY DEF DownloadTyped, ClientRecord

LEMMA ClientGoto ==
    ASSUME DownloadTyped, NEW c \in Clients, NEW at \in {"locked", "requesting", "gathered", "renamed", "manifested"},
           Download!Goto(c, at)
    PROVE  /\ client' \in [Clients -> ClientRecord] /\ \A d \in Clients \ {c} : client'[d] = client[d]
           /\ client'[c].pc = at /\ client'[c].page = client[c].page /\ client'[c].retry = client[c].retry
           /\ client'[c].used = client[c].used /\ client'[c].name = client[c].name
  <1>1. client[c].page \in 1..(NumPages + 1) /\ client[c].retry \in 0..MaxRetries
    BY ClientFields
  <1>2. client[c].used \in 0..MaxRequests /\ client[c].name \in Names \cup {NoName} /\ client[c] \in ClientRecord
    BY ClientFields
  <1>3. [client[c] EXCEPT !.pc = at] = [pc |-> at, page |-> client[c].page, retry |-> client[c].retry,
                                        used |-> client[c].used, name |-> client[c].name]
    BY <1>2 DEF ClientRecord
  <1>4. PICK mine : mine = [pc |-> at, page |-> client[c].page, retry |-> client[c].retry,
                            used |-> client[c].used, name |-> client[c].name]
    OBVIOUS
  <1>5. mine \in ClientRecord
    BY <1>1, <1>2, <1>4 DEF ClientRecord
  <1>6. client' = [client EXCEPT ![c] = mine]
    BY <1>3, <1>4 DEF Download!Goto
  <1> QED
    BY <1>4, <1>5, <1>6, ClientAt

\* Actions that only fail or only start.
LEMMA FailingFetch ==
    ASSUME DownloadInv, NEW c \in Clients, Download!RequestFails(c) \/ Download!Kill(c)
    PROVE  DownloadInv'
  <1>1. /\ client' = [client EXCEPT ![c] = Download!Idle] /\ UNCHANGED <<pages, snapshots, latest, served>>
        /\ downloadLock' = downloadLock \/ (downloadLock = c /\ downloadLock' \in {"free", "orphan"})
    BY DEF Download!RequestFails, Download!Kill, Download!Raise
  <1>2. mishaps' \in [faults : 0..MaxMishaps, kills : 0..MaxKills]
    BY MishapTyped DEF DownloadInv, Download!RequestFails, Download!Kill
  <1>3. DownloadTyped'
    BY <1>1, <1>2, DownloadRecords DEF DownloadInv, DownloadTyped
  <1> QED
    BY <1>1, <1>3, ClientEnds

LEMMA LoadLatestHolds ==
    ASSUME DownloadInv, NEW c \in Clients, Download!LoadLatest(c)
    PROVE  DownloadInv'
  <1>1. /\ served' = [served EXCEPT ![c] = IF Download!Loadable THEN latest ELSE NoName]
        /\ UNCHANGED <<downloadLock, pages, snapshots, latest, client, mishaps>>
    BY DEF Download!LoadLatest, NoName
  <1>2. DownloadTyped'
    BY <1>1 DEF DownloadInv, DownloadTyped
  <1>3. \A d \in Clients : served'[d] # NoName => served'[d] = served[d] \/ snapshots[served'[d]] = "whole"
    BY <1>1 DEF DownloadInv, DownloadTyped, Download!Loadable
  <1>4. SnapshotsHold'
    BY <1>1, <1>3, SnapshotsStand
  <1>5. \A d \in Clients : ClientHolds(d)'
    BY <1>1 DEF DownloadInv, ClientHolds
  <1> QED
    BY <1>2, <1>4, <1>5 DEF DownloadInv

LEMMA EnsureStagingHolds ==
    ASSUME DownloadInv, NEW c \in Clients, Download!EnsureStaging(c)
    PROVE  DownloadInv'
  <1>1. PICK mine : mine = [pc |-> "entering", page |-> 1, retry |-> 0, used |-> 0, name |-> NoName]
    OBVIOUS
  <1>2. /\ mine = [Download!Idle EXCEPT !.pc = "entering"] /\ mine \in ClientRecord
        /\ mine.pc = "entering" /\ mine.retry = 0 /\ mine.used = 0
    BY <1>1, DownloadRecords DEF ClientRecord
  <1>3. /\ client' = [client EXCEPT ![c] = mine] /\ pages'.page = pages.page
        /\ pages' = [exists |-> TRUE, page |-> pages.page]
        /\ UNCHANGED <<downloadLock, snapshots, latest, served, mishaps>>
    BY <1>2 DEF Download!EnsureStaging, DownloadInv, DownloadTyped
  <1>4. DownloadTyped'
    BY <1>2, <1>3 DEF DownloadInv, DownloadTyped
  <1>5. client'[c] = mine /\ mine.page = 1 /\ \A d \in Clients \ {c} : client'[d] = client[d]
    BY <1>1, <1>3 DEF DownloadInv, DownloadTyped
  <1>6. ClientHolds(c)'
    BY <1>2, <1>5 DEF ClientHolds
  <1>7. SnapshotsHold'
    BY <1>3, SnapshotsStand
  <1> QED
    BY <1>3, <1>4, <1>5, <1>6, <1>7, ClientGoes

LEMMA TakeLockHolds ==
    ASSUME DownloadInv, NEW c \in Clients, Download!TakeLock(c)
    PROVE  DownloadInv'
  <1>1. CASE downloadLock = "free"
    <2>1. /\ client' = [client EXCEPT ![c].pc = "locked"] /\ downloadLock' = c
          /\ UNCHANGED <<pages, snapshots, latest, served, mishaps>> /\ client[c].pc = "entering"
      BY <1>1 DEF Download!TakeLock, Download!Goto, Download!At
    <2>2. /\ client' \in [Clients -> ClientRecord] /\ \A d \in Clients \ {c} : client'[d] = client[d]
          /\ client'[c].pc = "locked" /\ client'[c].page = client[c].page
          /\ client'[c].retry = client[c].retry /\ client'[c].used = client[c].used
      BY <2>1, ClientGoto DEF Download!Goto, DownloadInv
    <2>3. DownloadTyped' /\ ClientHolds(c)
      BY <2>1, <2>2 DEF DownloadInv, DownloadTyped
    <2>4. ClientHolds(c)'
      BY <2>1, <2>2, <2>3 DEF ClientHolds
    <2>5. SnapshotsHold'
      BY <2>1, SnapshotsStand
    <2> QED
      BY <1>1, <2>1, <2>2, <2>3, <2>4, <2>5, ClientGoes
  <1>2. CASE downloadLock # "free"
    <2>1. /\ client' = [client EXCEPT ![c] = Download!Idle] /\ UNCHANGED <<pages, snapshots, latest, served, mishaps>>
          /\ downloadLock' = downloadLock \/ (downloadLock = c /\ downloadLock' = "free")
      BY <1>2 DEF Download!TakeLock, Download!Raise
    <2>2. DownloadTyped'
      BY <2>1, DownloadRecords DEF DownloadInv, DownloadTyped
    <2> QED
      BY <2>1, <2>2, ClientEnds
  <1> QED
    BY <1>1, <1>2

\* A client that raises keeps what the provider gave, under its own lock.
LEMMA RaisingFetch ==
    ASSUME DownloadInv, NEW c \in Clients, Download!Raise(c), UNCHANGED <<snapshots, latest, served>>,
           pages'.page = pages.page \/ downloadLock = c,
           pages' \in [exists : BOOLEAN, page : [1..NumPages -> Parsed \cup {"malformed", "none"}]],
           mishaps' \in [faults : 0..MaxMishaps, kills : 0..MaxKills]
    PROVE  DownloadInv'
  <1>1. /\ client' = [client EXCEPT ![c] = Download!Idle]
        /\ downloadLock' = downloadLock \/ (downloadLock = c /\ downloadLock' = "free")
    BY DEF Download!Raise
  <1>2. DownloadTyped'
    BY <1>1, DownloadRecords DEF DownloadInv, DownloadTyped
  <1> QED
    BY <1>1, <1>2, ClientEnds

LEMMA ReadPageHolds ==
    ASSUME DownloadInv, NEW c \in Clients, Download!ReadPage(c)
    PROVE  DownloadInv'
  <1>1. /\ client[c].pc = "locked" /\ client[c].page <= NumPages /\ pages.page[client[c].page] # "none"
        /\ UNCHANGED <<pages, snapshots, latest, served, mishaps>> /\ DownloadTyped
        /\ client[c].page \in 1..(NumPages + 1) /\ client[c].retry \in 0..MaxRetries
        /\ client[c].used \in 0..MaxRequests /\ client[c].name \in Names \cup {NoName} /\ client[c] \in ClientRecord
    BY ClientFields DEF Download!ReadPage, Download!At, DownloadInv
  <1>2. CASE pages.page[client[c].page] = "malformed"
    BY <1>1, <1>2, RaisingFetch DEF Download!ReadPage, DownloadTyped
  <1>3. CASE pages.page[client[c].page] # "malformed"
    <2>1. PICK mine : mine = [pc |-> "locked", page |-> client[c].page + 1, retry |-> client[c].retry,
                              used |-> client[c].used, name |-> client[c].name]
      OBVIOUS
    <2>2. client[c].page + 1 \in 1..(NumPages + 1) /\ client[c].page \in 1..NumPages
      BY <1>1, DownloadNumbers
    <2>3. mine \in ClientRecord
      BY <1>1, <2>1, <2>2 DEF ClientRecord
    <2>4. mine = [client[c] EXCEPT !.page = client[c].page + 1]
      BY <1>1, <2>1 DEF ClientRecord
    <2>5. client' = [client EXCEPT ![c] = mine] /\ UNCHANGED downloadLock
      BY <1>3, <2>4 DEF Download!ReadPage
    <2>6. /\ client' \in [Clients -> ClientRecord] /\ client'[c] = mine
          /\ \A d \in Clients \ {c} : client'[d] = client[d]
      BY <1>1, <2>3, <2>5, ClientAt
    <2>7. DownloadTyped'
      BY <1>1, <2>5, <2>6 DEF DownloadTyped
    <2>8. pages.page[client[c].page] \in Parsed
      BY <1>1, <1>3, <2>2 DEF DownloadTyped
    <2>9. ClientHolds(c)'
      <3>1. ClientHolds(c) /\ mine.pc = "locked" /\ mine.page = client[c].page + 1 /\ mine.retry = client[c].retry
            /\ mine.used = client[c].used
        BY <2>1 DEF DownloadInv
      <3>2. \A p \in 1..NumPages : p < client[c].page + 1 => pages.page[p] \in Parsed
        BY <1>1, <2>2, <2>8, <3>1 DEF ClientHolds
      <3> QED
        BY <1>1, <2>5, <2>6, <3>1, <3>2 DEF ClientHolds
    <2>10. SnapshotsHold'
      BY <1>1, SnapshotsStand
    <2> QED
      BY <1>1, <2>5, <2>6, <2>7, <2>9, <2>10, ClientGoes
  <1> QED
    BY <1>2, <1>3

LEMMA RequestHolds ==
    ASSUME DownloadInv, NEW c \in Clients, Download!Request(c)
    PROVE  DownloadInv'
  <1>1. /\ client[c].pc = "locked" /\ client[c].page <= NumPages
        /\ UNCHANGED <<pages, snapshots, latest, served, mishaps>> /\ DownloadTyped
        /\ client[c].page \in 1..(NumPages + 1) /\ client[c].retry \in 0..MaxRetries
        /\ client[c].used \in 0..MaxRequests /\ client[c].name \in Names \cup {NoName} /\ client[c] \in ClientRecord
    BY ClientFields DEF Download!Request, Download!At, DownloadInv
  <1>2. CASE Download!Exhausted(c)
    BY <1>1, <1>2, RaisingFetch DEF Download!Request, DownloadTyped
  <1>3. CASE ~Download!Exhausted(c)
    <2>1. PICK mine : mine = [client[c] EXCEPT !.pc = "requesting", !.used = client[c].used + 1]
      OBVIOUS
    <2>2. client[c].used + 1 \in 0..MaxRequests
      BY <1>1, <1>3, DownloadNumbers DEF Download!Exhausted
    <2>3. mine \in ClientRecord
      BY <1>1, <2>1, <2>2 DEF ClientRecord
    <2>4. /\ mine.pc = "requesting" /\ mine.page = client[c].page /\ mine.retry = client[c].retry
          /\ mine.used = client[c].used + 1
      BY <1>1, <2>1, <2>2 DEF ClientRecord
    <2>5. client' = [client EXCEPT ![c] = mine] /\ UNCHANGED downloadLock
      BY <1>1, <1>3, <2>1 DEF Download!Request, Download!Spend, DownloadTyped
    <2>6. /\ client' \in [Clients -> ClientRecord] /\ client'[c] = mine
          /\ \A d \in Clients \ {c} : client'[d] = client[d]
      BY <1>1, <2>3, <2>5, ClientAt
    <2>7. DownloadTyped'
      BY <1>1, <2>5, <2>6 DEF DownloadTyped
    <2>8. ClientHolds(c)'
      <3>1. ClientHolds(c)
        BY DEF DownloadInv
      <3> QED
        BY <1>1, <2>4, <2>5, <2>6, <3>1 DEF ClientHolds
    <2>9. SnapshotsHold'
      BY <1>1, SnapshotsStand
    <2> QED
      BY <1>1, <2>5, <2>6, <2>7, <2>8, <2>9, ClientGoes
  <1> QED
    BY <1>2, <1>3

LEMMA StorePageHolds ==
    ASSUME DownloadInv, NEW c \in Clients, Download!StorePage(c)
    PROVE  DownloadInv'
  <1>1. /\ client[c].pc = "requesting" /\ UNCHANGED <<snapshots, latest, served>> /\ DownloadTyped /\ ClientHolds(c)
        /\ client[c].page \in 1..(NumPages + 1) /\ client[c].retry \in 0..MaxRetries
        /\ client[c].used \in 0..MaxRequests /\ client[c].name \in Names \cup {NoName} /\ client[c] \in ClientRecord
    BY ClientFields DEF Download!StorePage, Download!At, DownloadInv
  <1>2. downloadLock = c /\ client[c].page <= NumPages
    BY <1>1 DEF ClientHolds
  <1>3. PICK content \in Download!PageContents :
           /\ IF content \in Generations THEN UNCHANGED mishaps ELSE Download!Fault
           /\ IF pages.exists
              THEN /\ pages' = [pages EXCEPT !.page[client[c].page] = content]
                   /\ IF content = "malformed" THEN Download!Raise(c)
                      ELSE /\ client' = [client EXCEPT ![c].pc = "locked", ![c].page = client[c].page + 1, ![c].retry = 0]
                           /\ UNCHANGED downloadLock
              ELSE UNCHANGED pages /\ Download!Raise(c)
    BY DEF Download!StorePage
  <1>4. mishaps' \in [faults : 0..MaxMishaps, kills : 0..MaxKills]
    BY <1>1, <1>3, MishapTyped DEF DownloadTyped
  <1>5. /\ content \in Parsed \cup {"malformed", "none"} /\ (content # "malformed" => content \in Parsed)
        /\ client[c].page \in 1..NumPages
    BY <1>1, <1>2, DownloadNumbers DEF Parsed, Download!PageContents
  <1>6. /\ pages' \in [exists : BOOLEAN, page : [1..NumPages -> Parsed \cup {"malformed", "none"}]]
        /\ pages.exists => /\ pages'.page[client[c].page] = content
                           /\ \A p \in 1..NumPages : p # client[c].page => pages'.page[p] = pages.page[p]
    <2>1. pages.page \in [1..NumPages -> Parsed \cup {"malformed", "none"}] /\ pages.exists \in BOOLEAN
      BY <1>1 DEF DownloadTyped
    <2>2. PICK staged : staged = [pages.page EXCEPT ![client[c].page] = content]
      OBVIOUS
    <2>3. /\ staged \in [1..NumPages -> Parsed \cup {"malformed", "none"}] /\ staged[client[c].page] = content
          /\ \A p \in 1..NumPages : p # client[c].page => staged[p] = pages.page[p]
      BY <1>5, <2>1, <2>2
    <2>4. pages.exists => pages' = [pages EXCEPT !.page = staged]
      BY <1>3, <2>2
    <2> QED
      BY <1>1, <1>3, <2>1, <2>3, <2>4 DEF DownloadTyped
  <1>7. CASE ~pages.exists \/ content = "malformed"
    BY <1>1, <1>2, <1>3, <1>4, <1>6, <1>7, RaisingFetch
  <1>8. CASE pages.exists /\ content # "malformed"
    <2>1. PICK mine : mine = [client[c] EXCEPT !.pc = "locked", !.page = client[c].page + 1, !.retry = 0]
      OBVIOUS
    <2>2. client[c].page + 1 \in 1..(NumPages + 1) /\ 0 \in 0..MaxRetries
      BY <1>1, <1>2, DownloadNumbers
    <2>3. mine \in ClientRecord
      BY <1>1, <2>1, <2>2 DEF ClientRecord
    <2>4. mine.pc = "locked" /\ mine.page = client[c].page + 1 /\ mine.retry = 0 /\ mine.used = client[c].used
      BY <1>1, <2>1, <2>2 DEF ClientRecord
    <2>5. client' = [client EXCEPT ![c] = mine] /\ UNCHANGED downloadLock
      BY <1>3, <1>8, <2>1
    <2>6. /\ client' \in [Clients -> ClientRecord] /\ client'[c] = mine
          /\ \A d \in Clients \ {c} : client'[d] = client[d]
      BY <1>1, <2>3, <2>5, ClientAt
    <2>7. DownloadTyped'
      BY <1>1, <1>4, <1>6, <2>5, <2>6 DEF DownloadTyped
    <2>8. \A p \in 1..NumPages : p < client[c].page + 1 => pages'.page[p] \in Parsed
      <3>1. pages.page \in [1..NumPages -> Parsed \cup {"malformed", "none"}]
        BY <1>1 DEF DownloadTyped
      <3>2. \A p \in 1..NumPages : p < client[c].page => pages.page[p] \in Parsed
        BY <1>1 DEF ClientHolds
      <3>3. \A p \in 1..NumPages : p < client[c].page + 1 => p < client[c].page \/ p = client[c].page
        BY <1>5, DownloadNumbers
      <3> QED
        BY <1>5, <1>6, <1>8, <3>1, <3>2, <3>3
    <2>9. ClientHolds(c)'
      BY <1>1, <1>2, <2>4, <2>5, <2>6, <2>8 DEF ClientHolds
    <2>10. SnapshotsHold'
      BY <1>1, SnapshotsStand
    <2> QED
      BY <1>1, <1>2, <2>5, <2>6, <2>7, <2>9, <2>10, ClientGoes
  <1> QED
    BY <1>7, <1>8

LEMMA RetryPageHolds ==
    ASSUME DownloadInv, NEW c \in Clients, Download!RetryPage(c)
    PROVE  DownloadInv'
  <1>1. /\ client[c].pc = "requesting" /\ UNCHANGED <<downloadLock, pages, snapshots, latest, served>> /\ DownloadTyped
        /\ client[c].page \in 1..(NumPages + 1) /\ client[c].retry \in 0..MaxRetries /\ client[c].retry < MaxRetries
        /\ client[c].used \in 0..MaxRequests /\ client[c].name \in Names \cup {NoName} /\ client[c] \in ClientRecord
        /\ ClientHolds(c)
    BY ClientFields DEF Download!RetryPage, Download!At, DownloadInv
  <1>2. PICK mine : mine = [client[c] EXCEPT !.pc = "locked", !.retry = client[c].retry + 1]
    OBVIOUS
  <1>3. client[c].retry + 1 \in 0..MaxRetries
    BY <1>1, DownloadNumbers
  <1>4. mine \in ClientRecord
    BY <1>1, <1>2, <1>3 DEF ClientRecord
  <1>5. mine.pc = "locked" /\ mine.page = client[c].page /\ mine.retry = client[c].retry + 1 /\ mine.used = client[c].used
    BY <1>1, <1>2, <1>3 DEF ClientRecord
  <1>6. client' = [client EXCEPT ![c] = mine]
    BY <1>1, <1>2 DEF Download!RetryPage, DownloadTyped
  <1>7. /\ client' \in [Clients -> ClientRecord] /\ client'[c] = mine
        /\ \A d \in Clients \ {c} : client'[d] = client[d]
    BY <1>1, <1>4, <1>6, ClientAt
  <1>8. mishaps' \in [faults : 0..MaxMishaps, kills : 0..MaxKills]
    BY <1>1, MishapTyped DEF Download!RetryPage
  <1>9. DownloadTyped'
    BY <1>1, <1>7, <1>8 DEF DownloadTyped
  <1>10. ClientHolds(c)'
    BY <1>1, <1>5, <1>7 DEF ClientHolds
  <1>11. SnapshotsHold'
    BY <1>1, SnapshotsStand
  <1> QED
    BY <1>1, <1>7, <1>9, <1>10, <1>11, ClientGoes

LEMMA GatherHolds ==
    ASSUME DownloadInv, NEW c \in Clients, Download!Gather(c)
    PROVE  DownloadInv'
  <1>1. /\ client[c].pc = "locked" /\ UNCHANGED <<downloadLock, pages, snapshots, latest, served, mishaps>> /\ DownloadTyped
        /\ client[c].page = NumPages + 1 /\ client[c].retry \in 0..MaxRetries
        /\ client[c].page \in 1..(NumPages + 1) /\ client[c].used \in 0..MaxRequests /\ client[c] \in ClientRecord
        /\ ClientHolds(c)
    BY ClientFields DEF Download!Gather, Download!At, DownloadInv
  <1>2. pages.page \in [1..NumPages -> Parsed]
    <2>1. \A p \in 1..NumPages : p < NumPages + 1
      BY DownloadNumbers
    <2>2. \A p \in 1..NumPages : pages.page[p] \in Parsed
      BY <1>1, <2>1 DEF ClientHolds
    <2>3. pages.page \in [1..NumPages -> Parsed \cup {"malformed", "none"}]
      BY <1>1 DEF DownloadTyped
    <2> QED
      BY <2>2, <2>3
  <1>3. pages.page \in Names
    BY <1>2, DownloadRecords
  <1>4. PICK mine : mine = [client[c] EXCEPT !.pc = "gathered", !.name = pages.page]
    OBVIOUS
  <1>5. mine \in ClientRecord
    BY <1>1, <1>3, <1>4 DEF ClientRecord
  <1>6. /\ mine.pc = "gathered" /\ mine.page = client[c].page /\ mine.retry = client[c].retry
        /\ mine.used = client[c].used /\ mine.name = pages.page
    BY <1>1, <1>3, <1>4 DEF ClientRecord
  <1>7. client' = [client EXCEPT ![c] = mine]
    BY <1>1, <1>4 DEF Download!Gather
  <1>8. /\ client' \in [Clients -> ClientRecord] /\ client'[c] = mine
        /\ \A d \in Clients \ {c} : client'[d] = client[d]
    BY <1>1, <1>5, <1>7, ClientAt
  <1>9. DownloadTyped'
    BY <1>1, <1>8 DEF DownloadTyped
  <1>10. ClientHolds(c)'
    BY <1>1, <1>2, <1>6, <1>8 DEF ClientHolds
  <1>11. SnapshotsHold'
    BY <1>1, SnapshotsStand
  <1> QED
    BY <1>1, <1>8, <1>9, <1>10, <1>11, ClientGoes

LEMMA KeepExistingHolds ==
    ASSUME DownloadInv, NEW c \in Clients, Download!KeepExisting(c)
    PROVE  DownloadInv'
  <1>1. /\ client[c].pc = "gathered" /\ UNCHANGED <<snapshots, latest, served, mishaps>> /\ DownloadTyped /\ ClientHolds(c)
        /\ downloadLock = c /\ client[c].name \in [1..NumPages -> Parsed] /\ client[c].name \in Names
    BY DownloadRecords DEF Download!KeepExisting, Download!At, DownloadInv, ClientHolds
  <1>2. pages' \in [exists : BOOLEAN, page : [1..NumPages -> Parsed \cup {"malformed", "none"}]]
    BY DEF Download!KeepExisting, Download!NoStaging, Download!NoName, Download!Pages
  <1>3. CASE snapshots[client[c].name] = "bare"
    BY <1>1, <1>2, <1>3, RaisingFetch DEF Download!KeepExisting, DownloadTyped
  <1>4. CASE snapshots[client[c].name] # "bare"
    <2>1. Download!Goto(c, "manifested") /\ UNCHANGED downloadLock /\ snapshots[client[c].name] = "whole"
      BY <1>1, <1>4 DEF Download!KeepExisting, DownloadTyped
    <2>2. /\ client' \in [Clients -> ClientRecord] /\ \A d \in Clients \ {c} : client'[d] = client[d]
          /\ client'[c].pc = "manifested" /\ client'[c].page = client[c].page
          /\ client'[c].retry = client[c].retry /\ client'[c].used = client[c].used /\ client'[c].name = client[c].name
      BY <1>1, <2>1, ClientGoto
    <2>3. DownloadTyped'
      BY <1>1, <1>2, <2>1, <2>2 DEF DownloadTyped
    <2>4. ClientHolds(c)'
      BY <1>1, <2>1, <2>2 DEF ClientHolds
    <2>5. SnapshotsHold'
      BY <1>1, SnapshotsStand
    <2> QED
      BY <1>1, <2>1, <2>2, <2>3, <2>4, <2>5, ClientGoes
  <1> QED
    BY <1>3, <1>4

LEMMA PromoteHolds ==
    ASSUME DownloadInv, NEW c \in Clients, Download!Promote(c)
    PROVE  DownloadInv'
  <1>1. /\ client[c].pc = "gathered" /\ UNCHANGED <<downloadLock, latest, served, mishaps>> /\ DownloadTyped /\ ClientHolds(c)
        /\ downloadLock = c /\ client[c].name \in [1..NumPages -> Parsed] /\ client[c].name \in Names
        /\ snapshots[client[c].name] = "absent" /\ snapshots' = [snapshots EXCEPT ![client[c].name] = "bare"]
    BY DownloadRecords DEF Download!Promote, Download!At, DownloadInv, ClientHolds
  <1>2. pages' \in [exists : BOOLEAN, page : [1..NumPages -> Parsed \cup {"malformed", "none"}]]
    BY DEF Download!Promote, Download!NoStaging, Download!NoName, Download!Pages
  <1>3. /\ client' \in [Clients -> ClientRecord] /\ \A d \in Clients \ {c} : client'[d] = client[d]
        /\ client'[c].pc = "renamed" /\ client'[c].page = client[c].page
        /\ client'[c].retry = client[c].retry /\ client'[c].used = client[c].used /\ client'[c].name = client[c].name
    BY <1>1, ClientGoto DEF Download!Promote
  <1>4. /\ snapshots' \in [Names -> {"absent", "bare", "whole"}] /\ snapshots'[client[c].name] = "bare"
        /\ \A n \in Names : snapshots'[n] = "whole" <=> snapshots[n] = "whole"
    BY <1>1 DEF DownloadTyped
  <1>5. DownloadTyped'
    BY <1>1, <1>2, <1>3, <1>4 DEF DownloadTyped
  <1>6. ClientHolds(c)'
    BY <1>1, <1>3, <1>4 DEF ClientHolds
  <1>7. SnapshotsHold'
    BY <1>1, <1>4 DEF SnapshotsHold, DownloadInv, DownloadTyped
  <1> QED
    BY <1>1, <1>3, <1>5, <1>6, <1>7, ClientGoes

LEMMA WriteManifestHolds ==
    ASSUME DownloadInv, NEW c \in Clients, Download!WriteManifest(c)
    PROVE  DownloadInv'
  <1>1. /\ client[c].pc = "renamed" /\ UNCHANGED <<pages, latest, served, mishaps>> /\ DownloadTyped /\ ClientHolds(c)
        /\ downloadLock = c /\ client[c].name \in [1..NumPages -> Parsed] /\ client[c].name \in Names
    BY DownloadRecords DEF Download!WriteManifest, Download!At, DownloadInv, ClientHolds
  <1>2. CASE ~Download!Fit(client[c].name)
    BY <1>1, <1>2, RaisingFetch DEF Download!WriteManifest, DownloadTyped
  <1>3. CASE Download!Fit(client[c].name)
    <2>1. /\ snapshots' = [snapshots EXCEPT ![client[c].name] = "whole"]
          /\ Download!Goto(c, "manifested") /\ UNCHANGED downloadLock
      BY <1>3 DEF Download!WriteManifest
    <2>2. /\ client' \in [Clients -> ClientRecord] /\ \A d \in Clients \ {c} : client'[d] = client[d]
          /\ client'[c].pc = "manifested" /\ client'[c].page = client[c].page
          /\ client'[c].retry = client[c].retry /\ client'[c].used = client[c].used /\ client'[c].name = client[c].name
      BY <1>1, <2>1, ClientGoto
    <2>3. /\ snapshots' \in [Names -> {"absent", "bare", "whole"}] /\ snapshots'[client[c].name] = "whole"
          /\ \A n \in Names : snapshots'[n] = "whole" <=> snapshots[n] = "whole" \/ n = client[c].name
      BY <1>1, <2>1 DEF DownloadTyped
    <2>4. client[c].name \in [1..NumPages -> Generations]
      BY <1>1, <1>3 DEF Download!Fit, Download!Pages, Parsed
    <2>5. DownloadTyped'
      BY <1>1, <2>1, <2>2, <2>3 DEF DownloadTyped
    <2>6. ClientHolds(c)'
      BY <1>1, <2>1, <2>2, <2>3 DEF ClientHolds
    <2>7. SnapshotsHold'
      BY <1>1, <2>3, <2>4 DEF SnapshotsHold, DownloadInv, DownloadTyped
    <2> QED
      BY <1>1, <2>1, <2>2, <2>5, <2>6, <2>7, ClientGoes
  <1> QED
    BY <1>2, <1>3

LEMMA PointLatestHolds ==
    ASSUME DownloadInv, NEW c \in Clients, Download!PointLatest(c)
    PROVE  DownloadInv'
  <1>1. /\ client[c].pc = "manifested" /\ UNCHANGED <<pages, snapshots, mishaps>> /\ DownloadTyped /\ ClientHolds(c)
        /\ downloadLock = c /\ client[c].name \in Names /\ snapshots[client[c].name] = "whole"
        /\ latest' = client[c].name /\ served' = [served EXCEPT ![c] = client[c].name]
    BY DownloadRecords DEF Download!PointLatest, Download!At, DownloadInv, ClientHolds
  <1>2. client' = [client EXCEPT ![c] = Download!Idle] /\ downloadLock' = "free"
    BY <1>1 DEF Download!PointLatest, Download!Raise
  <1>3. DownloadTyped'
    BY <1>1, <1>2, DownloadRecords DEF DownloadTyped
  <1>4. \A d \in Clients : served'[d] # NoName => served'[d] = served[d] \/ snapshots[served'[d]] = "whole"
    BY <1>1 DEF DownloadTyped
  <1> QED
    BY <1>1, <1>2, <1>3, <1>4, ClientEnds

LEMMA RemoveOrphanHolds == DownloadInv /\ Download!RemoveOrphan => DownloadInv'
  <1> SUFFICES ASSUME DownloadInv, Download!RemoveOrphan PROVE DownloadInv'
    OBVIOUS
  <1>1. /\ downloadLock = "orphan" /\ downloadLock' = "free"
        /\ UNCHANGED <<pages, snapshots, latest, client, served, mishaps>>
    BY DEF Download!RemoveOrphan
  <1>2. \A c \in Clients : ClientHolds(c)'
    BY <1>1, DownloadAssumption DEF DownloadInv, ClientHolds
  <1> QED
    BY <1>1, <1>2 DEF DownloadInv, DownloadTyped, SnapshotsHold

LEMMA DownloadNext == DownloadInv /\ Download!Next => DownloadInv'
  BY RemoveOrphanHolds, FailingFetch, LoadLatestHolds, EnsureStagingHolds, TakeLockHolds, ReadPageHolds, RequestHolds,
     StorePageHolds, RetryPageHolds, GatherHolds, KeepExistingHolds, PromoteHolds, WriteManifestHolds, PointLatestHolds
     DEF Download!Next, Download!Step, Download!Fetch

LEMMA DownloadStays == DownloadInv /\ UNCHANGED downloadVars => DownloadInv'
  BY DEF downloadVars, DownloadInv, DownloadTyped, SnapshotsHold, ClientHolds

LEMMA DownloadPromise == DownloadInv => Download!TypeOK /\ Download!DownloadsAreSound
  <1> SUFFICES ASSUME DownloadInv PROVE Download!TypeOK /\ Download!DownloadsAreSound
    OBVIOUS
  <1>1. \A n \in Names : snapshots[n] = "whole" => \A p \in Download!Pages : n[p] \in Generations
    BY DEF DownloadInv, SnapshotsHold, Download!Pages
  <1>2. \A n \in Names : snapshots[n] = "whole" => Download!Fit(n)
    BY <1>1, DownloadAssumption DEF Download!Fit
  <1>3. Download!CacheIsReplayable
    BY <1>2 DEF DownloadInv, DownloadTyped, SnapshotsHold, Download!CacheIsReplayable, Download!Loadable, Names, NoName
  <1>4. Download!ServedIsComplete
    BY <1>1 DEF DownloadInv, DownloadTyped, SnapshotsHold, Download!ServedIsComplete, Names, NoName
  <1>5. Download!OneDownloader
    BY DEF DownloadInv, ClientHolds, Download!OneDownloader
  <1>6. Download!BudgetIsKept
    BY DownloadNumbers DEF DownloadInv, DownloadTyped, ClientRecord, ClientHolds, Download!BudgetIsKept, Download!At
  <1> QED
    BY <1>3, <1>4, <1>5, <1>6, DownloadTypes DEF DownloadInv, Download!DownloadsAreSound

-----------------------------------------------------------------------------
\* The panel (MarketPanel).

AllFlaws == Ingestion!Flaws \cup {"uncovered", "empty"}

PanelRecord == [config : Configs \cup {"none"}, source : Ingestion!Sources \cup {"none"}, flaws : SUBSET AllFlaws]
RunRecord == [pc : {"idle", "fetching", "fetched", "validated", "paneled"}, config : Configs \cup {"none"},
              order : Seq(Ingestion!Sources), tries : 0..MaxTries]
CountRecord == [faults : 0..MaxFaults, kills : 0..MaxKills, runs : 0..MaxRuns]

Allowed(c, source) == \E i \in 1..Len(Ingestion!Order(c)) : Ingestion!Order(c)[i] = source

\* Validated, and from a source its configuration allows, which omitted no ticker.
Sound(p) == p.config \in Configs /\ p.flaws \subseteq {"uncovered"} /\ Allowed(p.config, p.source)

PanelTyped ==
    /\ panel \in PanelRecord /\ fetched \in PanelRecord /\ run \in RunRecord /\ count \in CountRecord
    /\ meta \in [config : Configs \cup {"none"}, source : Ingestion!Sources \cup {"none"}]
    /\ loaded \in [config : Configs \cup {"none"}, panel : PanelRecord]

RunHolds ==
    /\ run.pc # "idle" => /\ run.config \in Configs
                          /\ \A i \in 1..Len(run.order) : Allowed(run.config, run.order[i])
    /\ run.pc \in {"fetched", "validated", "paneled"} =>
          /\ fetched.config = run.config /\ Allowed(run.config, fetched.source) /\ "omits" \notin fetched.flaws
    /\ run.pc \in {"validated", "paneled"} => fetched.flaws \subseteq {"uncovered"}
    /\ run.pc = "paneled" => panel = fetched

\* The metadata's configuration is the panel's, but between the two files and after a kill.
PanelInv ==
    /\ PanelTyped /\ RunHolds
    /\ \A p \in {panel, loaded.panel} : p # Ingestion!NoPanel => Sound(p)
    /\ count.kills = 0 /\ run.pc # "paneled" /\ panel # Ingestion!NoPanel => meta.config = panel.config
    /\ Ingestion!UnkilledPanelsMatch

LEMMA Orders ==
    ASSUME NEW c \in Configs
    PROVE  /\ Ingestion!Order(c) \in Seq(Ingestion!Sources)
           /\ Allowed(c, "synthetic") => Source[c] = "synthetic" \/ Fallback[c]
  <1>1. Source[c] \in {"auto"} \cup Ingestion!Sources
    BY PanelAssumption DEF Ingestion!Sources
  <1>2. CASE Source[c] # "auto"
    BY <1>1, <1>2 DEF Ingestion!Order, Allowed
  <1>3. CASE Source[c] = "auto" /\ Fallback[c]
    BY <1>3 DEF Ingestion!Order, Ingestion!Sources
  <1>4. CASE Source[c] = "auto" /\ ~Fallback[c]
    <2>1. Ingestion!Order(c) = <<"yfinance", "stooq">> \o <<>>
      BY <1>4 DEF Ingestion!Order
    <2>2. Ingestion!Order(c) = <<"yfinance", "stooq">>
      BY <2>1
    <2> QED
      BY <2>2 DEF Allowed, Ingestion!Sources
  <1> QED
    BY <1>2, <1>3, <1>4

\* What is tried next is allowed as well.
LEMMA Tails ==
    ASSUME NEW s \in Seq(Ingestion!Sources), s # <<>>, NEW c, \A i \in 1..Len(s) : Allowed(c, s[i])
    PROVE  /\ Tail(s) \in Seq(Ingestion!Sources) /\ \A i \in 1..Len(Tail(s)) : Allowed(c, Tail(s)[i])
           /\ Head(s) \in Ingestion!Sources /\ Allowed(c, Head(s))
  <1>1. Len(s) \in Nat /\ Len(s) # 0
    BY EmptySeq
  <1>2. Head(s) = s[1] /\ 1 \in 1..Len(s)
    BY <1>1
  <1>3. /\ Tail(s) \in Seq(Ingestion!Sources) /\ Len(Tail(s)) = Len(s) - 1
        /\ \A i \in 1..Len(Tail(s)) : Tail(s)[i] = s[i + 1] /\ i + 1 \in 1..Len(s)
    BY <1>1
  <1> QED
    BY <1>2, <1>3

LEMMA PanelInit == Ingestion!Init => PanelInv
  <1> SUFFICES ASSUME Ingestion!Init PROVE PanelInv
    OBVIOUS
  <1>1. PanelTyped
    <2>1. Ingestion!NoPanel \in PanelRecord /\ Ingestion!NoRun \in RunRecord
      BY PanelAssumption DEF Ingestion!NoPanel, Ingestion!NoRun, PanelRecord, RunRecord
    <2>2. count \in CountRecord
      BY PanelAssumption, BackfillAssumption, DownloadAssumption DEF Ingestion!Init, CountRecord
    <2>3. meta \in [config : Configs \cup {"none"}, source : Ingestion!Sources \cup {"none"}]
      BY DEF Ingestion!Init, Ingestion!NoMeta
    <2> QED
      BY <2>1, <2>2, <2>3 DEF Ingestion!Init, PanelTyped
  <1>2. RunHolds
    BY DEF Ingestion!Init, Ingestion!NoRun, RunHolds
  <1> QED
    BY <1>1, <1>2 DEF Ingestion!Init, PanelInv, Ingestion!UnkilledPanelsMatch

LEMMA CountTyped ==
    ASSUME count \in CountRecord
    PROVE  /\ Ingestion!Fault => count' \in CountRecord /\ count'.kills = count.kills
           /\ count.kills < MaxKills /\ count' = [count EXCEPT !.kills = @ + 1] =>
                 count' \in CountRecord /\ count'.kills # 0
           /\ count.runs < MaxRuns /\ count' = [count EXCEPT !.runs = @ + 1] =>
                 count' \in CountRecord /\ count'.kills = count.kills
  BY PanelAssumption, BackfillAssumption, DownloadAssumption DEF CountRecord, Ingestion!Fault

LEMMA PanelNext == PanelInv /\ Ingestion!Next => PanelInv'
  <1> SUFFICES ASSUME PanelInv, Ingestion!Next PROVE PanelInv'
    OBVIOUS
  <1>0. /\ PanelTyped /\ RunHolds /\ count \in CountRecord /\ run \in RunRecord
        /\ Ingestion!NoRun \in RunRecord /\ Ingestion!NoRun.pc = "idle" /\ Ingestion!NoPanel \in PanelRecord
    BY PanelAssumption DEF PanelInv, PanelTyped, Ingestion!NoRun, Ingestion!NoPanel, RunRecord, PanelRecord
  <1>1. ASSUME NEW c \in Configs, Ingestion!Load(c) PROVE PanelInv'
    <2>1. /\ loaded' = [config |-> c, panel |-> panel] /\ UNCHANGED <<panel, meta, run, fetched>>
          /\ count' \in CountRecord /\ count'.kills = count.kills
          /\ panel # Ingestion!NoPanel /\ meta.config = c /\ run.pc = "idle"
      BY <1>0, <1>1, CountTyped DEF Ingestion!Load, Ingestion!Fresh
    <2>2. PanelTyped' /\ loaded'.config = c /\ loaded'.panel = panel
      BY <1>0, <2>1 DEF PanelTyped
    <2> QED
      BY <2>1, <2>2 DEF PanelInv, RunHolds, Ingestion!UnkilledPanelsMatch
  <1>2. ASSUME NEW c \in Configs, NEW force \in BOOLEAN, Ingestion!Rebuild(c, force) PROVE PanelInv'
    <2>1. PICK next : next = [pc |-> "fetching", config |-> c, order |-> Ingestion!Order(c), tries |-> 0]
      OBVIOUS
    <2>2. /\ next \in RunRecord /\ next.pc = "fetching" /\ next.config = c /\ next.order = Ingestion!Order(c)
      BY <2>1, Orders, PanelAssumption DEF RunRecord
    <2>3. /\ run' = next /\ UNCHANGED <<panel, meta, fetched, loaded>> /\ run.pc = "idle"
          /\ count' \in CountRecord /\ count'.kills = count.kills
      BY <1>0, <1>2, <2>1, CountTyped DEF Ingestion!Rebuild
    <2>4. \A i \in 1..Len(next.order) : Allowed(c, next.order[i])
      BY <2>2 DEF Allowed
    <2>5. RunHolds' /\ PanelTyped'
      BY <1>0, <2>2, <2>3, <2>4 DEF RunHolds, PanelTyped
    <2> QED
      BY <2>2, <2>3, <2>5 DEF PanelInv, Ingestion!UnkilledPanelsMatch
  <1>3. ASSUME Ingestion!Fetch \/ Ingestion!FetchFails PROVE PanelInv'
    <2>1. /\ run.pc = "fetching" /\ run.order # <<>> /\ UNCHANGED <<panel, meta, loaded>>
          /\ run.config \in Configs /\ run.order \in Seq(Ingestion!Sources) /\ run.tries \in 0..MaxTries
          /\ \A i \in 1..Len(run.order) : Allowed(run.config, run.order[i])
      BY <1>0, <1>3 DEF Ingestion!Fetch, Ingestion!FetchFails, RunHolds, RunRecord
    <2>2. count' \in CountRecord /\ count'.kills = count.kills
      BY <1>0, <1>3, CountTyped DEF Ingestion!Fetch, Ingestion!FetchFails
    <2>3. /\ Tail(run.order) \in Seq(Ingestion!Sources)
          /\ \A i \in 1..Len(Tail(run.order)) : Allowed(run.config, Tail(run.order)[i])
          /\ Head(run.order) \in Ingestion!Sources /\ Allowed(run.config, Head(run.order))
      BY <2>1, Tails
    <2>4. CASE fetched' = fetched /\ run' = [run EXCEPT !.order = Tail(@), !.tries = 0]
      <3>1. PICK next : next = [run EXCEPT !.order = Tail(run.order), !.tries = 0]
        OBVIOUS
      <3>2. next \in RunRecord /\ next.pc = "fetching" /\ next.config = run.config /\ next.order = Tail(run.order)
        <4>1. 0 \in 0..MaxTries
          BY PanelAssumption
        <4> QED
          BY <1>0, <2>1, <2>3, <3>1, <4>1 DEF RunRecord
      <3>3. run' = next
        BY <1>0, <2>4, <3>1 DEF RunRecord
      <3>4. RunHolds' /\ PanelTyped'
        BY <1>0, <2>1, <2>2, <2>3, <2>4, <3>2, <3>3 DEF RunHolds, PanelTyped
      <3> QED
        BY <2>1, <2>2, <3>2, <3>3, <3>4 DEF PanelInv, Ingestion!UnkilledPanelsMatch
    <2>5. CASE fetched' = fetched /\ run.tries + 1 < MaxTries /\ run' = [run EXCEPT !.tries = @ + 1]
      <3>1. PICK next : next = [run EXCEPT !.tries = run.tries + 1]
        OBVIOUS
      <3>2. next \in RunRecord /\ next.pc = "fetching" /\ next.config = run.config /\ next.order = run.order
        <4>1. run.tries + 1 \in 0..MaxTries
          BY <2>1, <2>5, PanelAssumption
        <4> QED
          BY <1>0, <2>1, <3>1, <4>1 DEF RunRecord
      <3>3. run' = next
        BY <1>0, <2>5, <3>1 DEF RunRecord
      <3>4. RunHolds' /\ PanelTyped'
        BY <1>0, <2>1, <2>2, <2>5, <3>2, <3>3 DEF RunHolds, PanelTyped
      <3> QED
        BY <2>1, <2>2, <3>2, <3>3, <3>4 DEF PanelInv, Ingestion!UnkilledPanelsMatch
    <2>6. ASSUME NEW flaws \in SUBSET Ingestion!Flaws, Ingestion!Usable(flaws),
                 fetched' = [config |-> run.config, source |-> Head(run.order), flaws |-> flaws],
                 run' = [run EXCEPT !.pc = "fetched"]
          PROVE  PanelInv'
      <3>1. PICK next : next = [run EXCEPT !.pc = "fetched"]
        OBVIOUS
      <3>2. next \in RunRecord /\ next.pc = "fetched" /\ next.config = run.config /\ next.order = run.order
        BY <1>0, <2>1, <3>1 DEF RunRecord
      <3>3. fetched' \in PanelRecord /\ fetched'.config = run.config /\ fetched'.source = Head(run.order)
            /\ "omits" \notin fetched'.flaws
        BY <2>1, <2>3, <2>6 DEF PanelRecord, AllFlaws, Ingestion!Usable
      <3>4. RunHolds' /\ PanelTyped'
        BY <1>0, <2>1, <2>2, <2>3, <2>6, <3>1, <3>2, <3>3 DEF RunHolds, PanelTyped
      <3> QED
        BY <2>1, <2>2, <2>6, <3>1, <3>2, <3>4 DEF PanelInv, Ingestion!UnkilledPanelsMatch
    <2>7. ASSUME NEW source, NEW f \in Ingestion!Possible(source) PROVE f \in Ingestion!Flaws
      BY <2>7 DEF Ingestion!Possible, Ingestion!Flaws
    <2>8. ASSUME NEW flaws \in {{}} \cup {{f} : f \in Ingestion!Possible(Head(run.order))}
          PROVE  flaws \in SUBSET Ingestion!Flaws
      BY <2>7, <2>8
    <2> QED
      BY <1>3, <2>4, <2>5, <2>6, <2>8 DEF Ingestion!Fetch, Ingestion!FetchFails
  <1>4. ASSUME Ingestion!End, UNCHANGED <<panel, meta, loaded>>, count' \in CountRecord,
               count'.kills = count.kills \/ count'.kills # 0, run.pc # "paneled" \/ count'.kills # 0
        PROVE  PanelInv'
    <2>1. run' = Ingestion!NoRun /\ fetched' = Ingestion!NoPanel
      BY <1>4 DEF Ingestion!End
    <2>2. RunHolds' /\ PanelTyped'
      BY <1>0, <1>4, <2>1 DEF RunHolds, PanelTyped
    <2> QED
      BY <1>4, <2>2 DEF PanelInv, Ingestion!UnkilledPanelsMatch
  <1>5. ASSUME Ingestion!Validate PROVE PanelInv'
    <2>1. CASE ~Ingestion!Valid(Ingestion!Cleaned(fetched.flaws))
      BY <1>0, <1>4, <1>5, <2>1 DEF Ingestion!Validate
    <2>2. CASE Ingestion!Valid(Ingestion!Cleaned(fetched.flaws))
      <3>1. PICK next : next = [run EXCEPT !.pc = "validated"]
        OBVIOUS
      <3>2. next \in RunRecord /\ next.pc = "validated" /\ next.config = run.config /\ next.order = run.order
        BY <1>0, <3>1 DEF RunRecord
      <3>3. /\ run' = next /\ UNCHANGED <<panel, meta, loaded, count>> /\ run.pc = "fetched"
            /\ fetched' = [fetched EXCEPT !.flaws = Ingestion!Cleaned(fetched.flaws)]
        BY <1>5, <2>2, <3>1 DEF Ingestion!Validate
      <3>4. fetched \in PanelRecord /\ fetched.flaws \subseteq AllFlaws /\ "omits" \notin fetched.flaws
        BY <1>0, <3>3 DEF RunHolds, PanelTyped, PanelRecord
      <3>5. Ingestion!Cleaned(fetched.flaws) \subseteq {"uncovered"}
        BY <2>2, <3>4 DEF Ingestion!Valid, Ingestion!Cleaned, AllFlaws, Ingestion!Flaws
      <3>6. Ingestion!Cleaned(fetched.flaws) \in SUBSET AllFlaws
        BY <3>5 DEF AllFlaws
      <3>7. /\ fetched' \in PanelRecord /\ fetched'.config = fetched.config /\ fetched'.source = fetched.source
            /\ fetched'.flaws \subseteq {"uncovered"}
        BY <3>3, <3>4, <3>5, <3>6 DEF PanelRecord
      <3>8. RunHolds' /\ PanelTyped'
        BY <1>0, <3>2, <3>3, <3>7 DEF RunHolds, PanelTyped
      <3> QED
        BY <3>2, <3>3, <3>8 DEF PanelInv, Ingestion!UnkilledPanelsMatch
    <2> QED
      BY <2>1, <2>2
  <1>6. ASSUME Ingestion!ReplacePanel PROVE PanelInv'
    <2>1. PICK next : next = [run EXCEPT !.pc = "paneled"]
      OBVIOUS
    <2>2. next \in RunRecord /\ next.pc = "paneled" /\ next.config = run.config /\ next.order = run.order
      BY <1>0, <2>1 DEF RunRecord
    <2>3. run' = next /\ panel' = fetched /\ UNCHANGED <<meta, fetched, loaded, count>> /\ run.pc = "validated"
      BY <1>6, <2>1 DEF Ingestion!ReplacePanel
    <2>4. RunHolds' /\ PanelTyped' /\ Sound(fetched)
      BY <1>0, <2>2, <2>3 DEF RunHolds, PanelTyped, Sound
    <2> QED
      BY <2>2, <2>3, <2>4 DEF PanelInv, Ingestion!UnkilledPanelsMatch
  <1>7. ASSUME Ingestion!ReplaceMetadata PROVE PanelInv'
    <2>1. /\ meta' = [config |-> run.config, source |-> fetched.source]
          /\ loaded' = [config |-> run.config, panel |-> fetched]
          /\ run' = Ingestion!NoRun /\ fetched' = Ingestion!NoPanel /\ UNCHANGED <<panel, count>> /\ run.pc = "paneled"
      BY <1>7 DEF Ingestion!ReplaceMetadata, Ingestion!End
    <2>2. run.config \in Configs /\ panel = fetched /\ fetched.config = run.config /\ Sound(fetched)
          /\ fetched \in PanelRecord /\ fetched.source \in Ingestion!Sources \cup {"none"}
      BY <1>0, <2>1 DEF RunHolds, PanelTyped, Sound, PanelRecord
    <2>3. meta'.config = panel.config /\ loaded'.config = run.config /\ loaded'.panel = fetched
      BY <2>1, <2>2
    <2>4. RunHolds' /\ PanelTyped'
      BY <1>0, <2>1, <2>2 DEF RunHolds, PanelTyped
    <2> QED
      BY <1>0, <2>1, <2>2, <2>3, <2>4 DEF PanelInv, Ingestion!UnkilledPanelsMatch
  <1>8. ASSUME Ingestion!NoSourceLeft \/ Ingestion!Kill PROVE PanelInv'
    <2>1. CASE Ingestion!NoSourceLeft
      BY <1>0, <1>4, <2>1 DEF Ingestion!NoSourceLeft
    <2>2. CASE Ingestion!Kill
      BY <1>0, <1>4, <2>2, CountTyped DEF Ingestion!Kill
    <2> QED
      BY <1>8, <2>1, <2>2
  <1> QED
    BY <1>1, <1>2, <1>3, <1>5, <1>6, <1>7, <1>8 DEF Ingestion!Next, Ingestion!Ingest

LEMMA PanelStays == PanelInv /\ UNCHANGED panelVars => PanelInv'
  BY DEF panelVars, PanelInv, PanelTyped, RunHolds, Ingestion!UnkilledPanelsMatch

LEMMA PanelPromise == PanelInv => Ingestion!TypeOK /\ Ingestion!PanelsAreSound
  <1> SUFFICES ASSUME PanelInv PROVE Ingestion!TypeOK /\ Ingestion!PanelsAreSound
    OBVIOUS
  <1>1. Ingestion!TypeOK
    BY DEF PanelInv, PanelTyped, PanelRecord, AllFlaws, RunRecord, CountRecord, Ingestion!TypeOK
  <1>2. Ingestion!PanelsAreValid
    BY DEF PanelInv, Sound, Allowed, Ingestion!PanelsAreValid
  <1>3. Ingestion!SyntheticWasAskedFor
    BY Orders DEF PanelInv, Sound, Ingestion!SyntheticWasAskedFor
  <1> QED
    BY <1>1, <1>2, <1>3 DEF PanelInv, Ingestion!PanelsAreSound

-----------------------------------------------------------------------------
\* The bundles and their views (SignalBundle).

Dirs == Bundle!Dirs
Empty == Bundle!Empty
ExporterRecord == [pc : {"idle", "checked", "writing", "described", "renamed"},
                   panel : Panels \cup {"none"}, done : SUBSET Bundle!AllYears]

BundleTyped ==
    /\ staging \in Dirs /\ bundles \in [Panels -> Dirs] /\ exporter \in [Exporters -> ExporterRecord]
    /\ granted \subseteq Panels /\ kills \in 0..MaxKills /\ records \subseteq Bundle!Revisions

\* A directory that is not there holds nothing; what was granted is there and whole.
BundleInv ==
    /\ BundleTyped /\ Bundle!Acceptable(records)
    /\ \A e \in Exporters : exporter[e].pc # "idle" => exporter[e].panel \in Panels
    /\ \A p \in Panels : bundles[p].exists \/ bundles[p] = Empty
    /\ \A p \in granted : bundles[p].exists /\ Bundle!Whole(p, bundles[p])

LEMMA BundleRecords ==
    /\ Bundle!Idle \in ExporterRecord /\ Bundle!Idle.pc = "idle"
    /\ Empty \in Dirs /\ Empty.manifest = "none" /\ Empty.exists = FALSE
  BY DEF Bundle!Idle, ExporterRecord, Empty, Bundle!Empty, Dirs, Bundle!Dirs

LEMMA BundleInit == Bundle!Start({}) \/ Bundle!Init => BundleInv
  <1> SUFFICES ASSUME NEW rs \in SUBSET Bundle!Revisions, Bundle!Acceptable(rs), Bundle!Start(rs) PROVE BundleInv
    BY DEF Bundle!Init, Bundle!Acceptable
  <1>1. BundleTyped
    BY BundleRecords, DownloadAssumption DEF Bundle!Start, BundleTyped, Empty
  <1> QED
    BY <1>1, BundleRecords DEF BundleInv, Bundle!Start, Empty

\* An exporter's record after a step of its own.
LEMMA ExporterGoes ==
    ASSUME BundleInv, NEW e \in Exporters, NEW mine \in ExporterRecord, exporter' = [exporter EXCEPT ![e] = mine],
           mine.pc # "idle" => mine.panel \in Panels,
           staging' \in Dirs, kills' \in 0..MaxKills, records' = records,
           bundles' \in [Panels -> Dirs], \A p \in Panels : bundles'[p].exists \/ bundles'[p] = Empty,
           \A p \in granted : bundles'[p] = bundles[p],
           granted' \subseteq Panels,
           \A p \in granted' \ granted : bundles'[p].exists /\ Bundle!Whole(p, bundles'[p])
    PROVE  BundleInv'
  <1>1. exporter' \in [Exporters -> ExporterRecord] /\ exporter'[e] = mine /\ \A d \in Exporters \ {e} : exporter'[d] = exporter[d]
    BY DEF BundleInv, BundleTyped
  <1>2. BundleTyped' /\ Bundle!Acceptable(records')
    BY <1>1 DEF BundleInv, BundleTyped
  <1>3. \A p \in granted : bundles'[p].exists /\ Bundle!Whole(p, bundles'[p])
    BY DEF BundleInv
  <1> QED
    BY <1>1, <1>2, <1>3 DEF BundleInv

LEMMA BundleNext == BundleInv /\ Bundle!Next => BundleInv'
  <1> SUFFICES ASSUME BundleInv, Bundle!Next PROVE BundleInv'
    OBVIOUS
  <1>0. /\ BundleTyped /\ \A e \in Exporters : exporter[e] \in ExporterRecord
        /\ \A e \in Exporters : exporter[e].pc # "idle" => exporter[e].panel \in Panels
        /\ "none" \notin Panels /\ kills \in 0..MaxKills /\ granted \subseteq Panels /\ staging \in Dirs
        /\ \A p \in Panels : bundles[p].exists \/ bundles[p] = Empty
        /\ bundles \in [Panels -> Dirs]
    BY BundleAssumption DEF BundleInv, BundleTyped
  <1>1. ASSUME Bundle!RemoveStale PROVE BundleInv'
    <2>1. staging' = Empty /\ UNCHANGED <<bundles, exporter, granted, kills, records>>
      BY <1>1 DEF Bundle!RemoveStale, Empty
    <2> QED
      BY <2>1, BundleRecords DEF BundleInv, BundleTyped
  <1>2. ASSUME NEW e \in Exporters, NEW p \in Panels, Bundle!Check(e, p) PROVE BundleInv'
    <2>1. PICK mine : mine = [Bundle!Idle EXCEPT !.pc = "checked", !.panel = p]
      OBVIOUS
    <2>2. mine \in ExporterRecord /\ mine.panel = p
      BY <2>1, BundleRecords DEF ExporterRecord
    <2>3. exporter' = [exporter EXCEPT ![e] = mine] /\ UNCHANGED <<staging, bundles, granted, kills, records>>
      BY <1>2, <2>1 DEF Bundle!Check
    <2> QED
      BY <1>0, <2>2, <2>3, ExporterGoes
  <1>3. ASSUME NEW e \in Exporters, NEW at \in {"writing", "described", "renamed"}, Bundle!Goto(e, at),
               exporter[e].pc # "idle", staging' \in Dirs, UNCHANGED <<granted, kills, records>>,
               bundles' \in [Panels -> Dirs], \A p \in Panels : bundles'[p].exists \/ bundles'[p] = Empty,
               \A p \in granted : bundles'[p] = bundles[p]
        PROVE  BundleInv'
    <2>1. PICK mine : mine = [exporter[e] EXCEPT !.pc = at]
      OBVIOUS
    <2>2. mine \in ExporterRecord /\ mine.panel = exporter[e].panel
      BY <1>0, <2>1 DEF ExporterRecord
    <2>3. exporter' = [exporter EXCEPT ![e] = mine]
      BY <1>3, <2>1 DEF Bundle!Goto
    <2> QED
      BY <1>0, <1>3, <2>2, <2>3, ExporterGoes
  <1>4. ASSUME NEW e \in Exporters, Bundle!Make(e) \/ Bundle!Describe(e) PROVE BundleInv'
    <2>1. exporter[e].pc # "idle" /\ exporter[e].panel \in Panels /\ UNCHANGED <<bundles, granted, kills, records>>
      BY <1>0, <1>4 DEF Bundle!Make, Bundle!Describe, Bundle!At
    <2>2. staging' \in Dirs
      BY <1>0, <1>4, <2>1 DEF Bundle!Make, Bundle!Describe, Dirs, Bundle!Dirs
    <2> QED
      BY <1>0, <1>3, <1>4, <2>1, <2>2 DEF Bundle!Make, Bundle!Describe
  <1>5. ASSUME NEW e \in Exporters, Bundle!Back(e), staging' \in Dirs, kills' \in 0..MaxKills, records' = records,
               bundles' \in [Panels -> Dirs], \A p \in Panels : bundles'[p].exists \/ bundles'[p] = Empty,
               \A p \in granted : bundles'[p] = bundles[p], granted' \subseteq Panels,
               \A p \in granted' \ granted : bundles'[p].exists /\ Bundle!Whole(p, bundles'[p])
        PROVE  BundleInv'
    BY <1>5, BundleRecords, ExporterGoes DEF Bundle!Back
  <1>6. ASSUME NEW e \in Exporters, NEW y \in Bundle!AllYears, Bundle!WriteYear(e, y) PROVE BundleInv'
    <2>1. exporter[e].pc # "idle" /\ exporter[e].panel \in Panels /\ UNCHANGED <<bundles, granted, kills, records>>
      BY <1>0, <1>6 DEF Bundle!WriteYear, Bundle!At
    <2>2. CASE staging.file[y] # "none"
      BY <1>0, <1>5, <1>6, <2>1, <2>2, BundleRecords DEF Bundle!WriteYear, Empty
    <2>3. CASE staging.file[y] = "none"
      <3>1. PICK mine : mine = [exporter[e] EXCEPT !.done = exporter[e].done \cup {y}]
        OBVIOUS
      <3>2. mine \in ExporterRecord /\ mine.panel = exporter[e].panel
        BY <1>0, <3>1 DEF ExporterRecord
      <3>3. exporter' = [exporter EXCEPT ![e] = mine]
        BY <1>6, <2>3, <3>1 DEF Bundle!WriteYear, BundleTyped
      <3>4. staging' = [staging EXCEPT !.exists = TRUE, !.file[y] = exporter[e].panel]
        BY <1>6, <2>3 DEF Bundle!WriteYear
      <3>5. staging' \in Dirs
        BY <1>0, <2>1, <3>4 DEF Dirs, Bundle!Dirs
      <3> QED
        BY <1>0, <2>1, <3>2, <3>3, <3>5, ExporterGoes
    <2> QED
      BY <2>2, <2>3
  <1>7. ASSUME NEW e \in Exporters, Bundle!Reuse(e) PROVE BundleInv'
    <2>1. PICK p \in Panels : p = exporter[e].panel
      BY <1>0, <1>7 DEF Bundle!Reuse, Bundle!At
    <2>2. /\ bundles[p].exists /\ staging' = Empty /\ Bundle!Back(e) /\ UNCHANGED <<bundles, kills, records>>
          /\ granted' = IF Bundle!Whole(p, bundles[p]) THEN granted \cup {p} ELSE granted
      BY <1>7, <2>1 DEF Bundle!Reuse, Empty
    <2> QED
      BY <1>0, <1>5, <2>2, BundleRecords
  <1>8. ASSUME NEW e \in Exporters, Bundle!Promote(e) PROVE BundleInv'
    <2>1. PICK p \in Panels : p = exporter[e].panel
      BY <1>0, <1>8 DEF Bundle!Promote, Bundle!At
    <2>2. /\ ~bundles[p].exists /\ staging.exists /\ bundles' = [bundles EXCEPT ![p] = staging] /\ staging' = Empty
          /\ Bundle!Goto(e, "renamed") /\ exporter[e].pc # "idle" /\ UNCHANGED <<granted, kills, records>>
      BY <1>8, <2>1 DEF Bundle!Promote, Bundle!At, Empty
    <2>3. p \notin granted
      BY <2>2 DEF BundleInv
    <2>4. /\ bundles' \in [Panels -> Dirs] /\ bundles'[p] = staging /\ \A q \in Panels \ {p} : bundles'[q] = bundles[q]
      BY <1>0, <2>2
    <2>5. /\ \A q \in Panels : bundles'[q].exists \/ bundles'[q] = Empty
          /\ \A q \in granted : bundles'[q] = bundles[q]
      BY <1>0, <2>2, <2>3, <2>4
    <2> QED
      BY <1>3, <2>2, <2>4, <2>5, BundleRecords
  <1>9. ASSUME NEW e \in Exporters, Bundle!Validate(e) PROVE BundleInv'
    <2>1. PICK p \in Panels : p = exporter[e].panel
      BY <1>0, <1>9 DEF Bundle!Validate, Bundle!At
    <2>2. Bundle!Back(e) /\ UNCHANGED <<kills, records>>
      BY <1>9 DEF Bundle!Validate
    <2>3. CASE Bundle!Whole(p, bundles[p])
      <3>1. granted' = granted \cup {p} /\ UNCHANGED <<bundles, staging>>
        BY <1>9, <2>1, <2>3 DEF Bundle!Validate
      <3>2. bundles[p].exists
        BY <1>0, <2>3, BundleRecords DEF Bundle!Whole
      <3> QED
        BY <1>0, <1>5, <2>2, <2>3, <3>1, <3>2
    <2>4. CASE ~Bundle!Whole(p, bundles[p])
      <3>1. bundles' = [bundles EXCEPT ![p] = Empty] /\ staging' = Empty /\ UNCHANGED granted
        BY <1>9, <2>1, <2>4 DEF Bundle!Validate, Empty
      <3>2. p \notin granted
        BY <2>4 DEF BundleInv
      <3>3. /\ bundles' \in [Panels -> Dirs] /\ bundles'[p] = Empty /\ \A q \in Panels \ {p} : bundles'[q] = bundles[q]
        BY <1>0, <3>1, BundleRecords
      <3>4. /\ \A q \in Panels : bundles'[q].exists \/ bundles'[q] = Empty
            /\ \A q \in granted : bundles'[q] = bundles[q]
        BY <1>0, <3>2, <3>3
      <3> QED
        BY <1>0, <1>5, <2>2, <3>1, <3>3, <3>4, BundleRecords
    <2> QED
      BY <2>3, <2>4
  <1>10. ASSUME NEW e \in Exporters, Bundle!Fail(e) \/ Bundle!Kill(e) PROVE BundleInv'
    <2>1. kills' \in 0..MaxKills /\ staging' \in Dirs /\ Bundle!Back(e) /\ UNCHANGED <<bundles, granted, records>>
      BY <1>0, <1>10, BundleRecords, DownloadAssumption DEF Bundle!Fail, Bundle!Kill, Empty
    <2> QED
      BY <1>0, <1>5, <2>1
  <1> QED
    BY <1>1, <1>2, <1>4, <1>6, <1>7, <1>8, <1>9, <1>10 DEF Bundle!Next, Bundle!Export

LEMMA BundleStays == BundleInv /\ UNCHANGED bundleVars => BundleInv'
  BY DEF bundleVars, BundleInv, BundleTyped

\* A set of naturals that has a bound has a greatest member.
LEMMA Greatest ==
    ASSUME NEW n \in Nat, NEW T \in SUBSET (0..n), T # {}
    PROVE  \E x \in T : \A y \in T : x >= y
  <1> DEFINE U == {n - x : x \in T}
             R == OpToRel(<, Nat)
  <1>1. U \in SUBSET Nat /\ U # {}
    <2>1. \A x \in T : n - x \in Nat
      OBVIOUS
    <2> QED
      BY <2>1
  <1>2. \E u \in U : \A v \in U : ~(<<v, u>> \in R)
    <2>1. IsWellFoundedOn(R, Nat)
      BY NatLessThanWellFounded
    <2> HIDE DEF R, U
    <2> QED
      BY <1>1, <2>1, WFMin
  <1>3. \A u, v \in Nat : v < u => <<v, u>> \in R
    BY DEF OpToRel
  <1> HIDE DEF R
  <1>4. PICK u \in U : \A v \in U : ~(<<v, u>> \in R)
    BY <1>2
  <1>5. PICK x \in T : u = n - x
    OBVIOUS
  <1>6. ASSUME NEW y \in T PROVE x >= y
    <2>1. n - y \in U /\ n - y \in Nat /\ u \in Nat /\ x \in Nat /\ y \in Nat
      BY <1>1
    <2>2. ~(n - y < u)
      BY <1>3, <1>4, <2>1
    <2> HIDE DEF U
    <2> QED
      BY <1>5, <2>1, <2>2
  <1> QED
    BY <1>6

\* Of the revisions of an identity that are effective and known by a time, one became
\* known last.
LEMMA LastKnown ==
    ASSUME Bundle!Acceptable(records), records \subseteq Bundle!Revisions, NEW u \in Times,
           NEW r \in records, r.effective <= u, r.available <= u
    PROVE  \E s \in Bundle!Visible(records, u) : s.id = r.id /\ s.available >= r.available
  <1> DEFINE Now == {s \in records : s.effective <= u /\ s.available <= u}
             Known == {s.available : s \in {q \in Now : q.id = r.id}}
  <1>1. u \in Nat /\ \A s \in records : s.available \in Nat
    BY BundleAssumption DEF Bundle!Revisions
  <1>2. Known \in SUBSET (0..u) /\ r.available \in Known
    BY <1>1
  <1>3. PICK a \in Known : \A b \in Known : a >= b
    BY <1>1, <1>2, Greatest
  <1>4. PICK s \in Now : s.id = r.id /\ s.available = a
    BY <1>3
  <1>5. \A q \in Now : q.id = s.id => q.available <= s.available
    BY <1>1, <1>3, <1>4
  <1>6. s \in Bundle!Visible(records, u)
    BY <1>4, <1>5 DEF Bundle!Visible, Bundle!LatestKnown
  <1> QED
    BY <1>2, <1>3, <1>4, <1>6

LEMMA BundlePromise == BundleInv => Bundle!TypeOK /\ Bundle!BundlesAreSound
  <1> SUFFICES ASSUME BundleInv PROVE Bundle!TypeOK /\ Bundle!BundlesAreSound
    OBVIOUS
  <1>1. Bundle!TypeOK
    BY DEF BundleInv, BundleTyped, Bundle!TypeOK, Dirs, ExporterRecord
  <1>2. Bundle!GrantedBundlesAreWhole
    <2>1. ASSUME NEW p \in granted PROVE bundles[p].manifest = p /\ \A y \in Years[p] : bundles[p].file[y] = p
      <3>1. Bundle!Whole(p, bundles[p]) /\ p \in Panels
        BY DEF BundleInv, BundleTyped
      <3> QED
        BY <3>1 DEF Bundle!Whole, Bundle!AllYears
    <2> QED
      BY <2>1 DEF Bundle!GrantedBundlesAreWhole
  <1>3. ASSUME NEW t \in Times
        PROVE  /\ \A r \in Bundle!Visible(records, t) : r.effective <= t /\ r.available <= t
               /\ \A r, s \in Bundle!Visible(records, t) : r.id = s.id => r = s
               /\ \A u \in Times : u >= t => \A r \in Bundle!Visible(records, t) :
                     \E s \in Bundle!Visible(records, u) : s.id = r.id /\ s.available >= r.available
    <2>1. \A r \in Bundle!Visible(records, t) : r \in records /\ r.effective <= t /\ r.available <= t
      BY DEF Bundle!Visible, Bundle!LatestKnown
    <2>2. \A r \in records : r.available \in Nat /\ r.effective \in Nat
      BY BundleAssumption DEF BundleInv, BundleTyped, Bundle!Revisions
    <2>3. ASSUME NEW r \in Bundle!Visible(records, t), NEW s \in Bundle!Visible(records, t), r.id = s.id PROVE r = s
      <3>1. r.available <= s.available /\ s.available <= r.available
        BY <2>3 DEF Bundle!Visible, Bundle!LatestKnown
      <3>2. r.available = s.available
        BY <2>1, <2>2, <3>1
      <3> QED
        BY <2>1, <2>3, <3>2 DEF BundleInv, Bundle!Acceptable
    <2>4. ASSUME NEW u \in Times, u >= t, NEW r \in Bundle!Visible(records, t)
          PROVE  \E s \in Bundle!Visible(records, u) : s.id = r.id /\ s.available >= r.available
      <3>1. u \in Nat /\ t \in Nat
        BY BundleAssumption
      <3>2. r \in records /\ r.effective <= u /\ r.available <= u
        BY <2>1, <2>2, <2>4, <3>1
      <3> QED
        BY <3>2, LastKnown DEF BundleInv, BundleTyped
    <2> QED
      BY <2>1, <2>3, <2>4
  <1> QED
    BY <1>1, <1>2, <1>3 DEF Bundle!BundlesAreSound, Bundle!ViewsArePointInTime

-----------------------------------------------------------------------------
\* The theorems of the research pipeline.

\* What a caller of the feature store was given is there and whole, through kills and
\* failures at any step of any number of writers; a backfill publishes all it recorded and
\* records every end but a kill.  The machine keeps its power.
THEOREM FeatureStores == ASSUME MaxLosses = 0 PROVE ResearchSpec => []FeatureStoreHolds
  <1> DEFINE Inv == /\ subject = "backfill" => BackfillInv
                    /\ subject = "objects" => ObjectsInv
  <1>1. ResearchInit => Inv
    BY BackfillInit, ObjectsInit DEF ResearchInit
  <1>2. Inv /\ [ResearchNext]_researchVars => Inv'
    BY BackfillNext, BackfillStays, ObjectsNext, ObjectsStay DEF ResearchNext, researchVars, OthersThanBackfill
  <1>3. Inv => FeatureStoreHolds
    BY BackfillPromise, ObjectsPromise DEF FeatureStoreHolds
  <1> QED
    BY <1>1, <1>2, <1>3, PTL DEF ResearchSpec

\* A completed partition, a bound request and a stored object never change again.
THEOREM StoredNeverChanges == ASSUME MaxLosses = 0 PROVE ResearchSpec => StoredIsFinal
  <1> DEFINE Inv == /\ subject = "backfill" => BackfillInv
                    /\ subject = "objects" => ObjectsInv
      Completed_ == [/\ \A p \in Partitions : part[p].status = "completed" =>
                          part'[p] = part[p] /\ file'[p] = part[p].content
                     /\ job.status = "published" => job' = job]_vars
      Published_ == [/\ \A r \in Requests : rowOf[r] # Objects!None => rowOf'[r] = rowOf[r]
                     /\ \A o \in Objects!Things : objects[o] = "whole" => objects'[o] = "whole"]_objectVars
  <1>1. ResearchInit => Inv
    BY BackfillInit, ObjectsInit DEF ResearchInit
  <1>2. Inv /\ [ResearchNext]_researchVars => Inv'
    BY BackfillNext, BackfillStays, ObjectsNext, ObjectsStay DEF ResearchNext, researchVars, OthersThanBackfill
  <1>3. Inv /\ [ResearchNext]_researchVars => Completed_
    BY CompletedStays DEF ResearchNext, researchVars
  <1>4. Inv /\ [ResearchNext]_researchVars => Published_
    BY ObjectsAreFinal DEF ResearchNext, researchVars, OthersThanBackfill, None, Things
  <1> QED
    BY <1>1, <1>2, <1>3, <1>4, PTL DEF ResearchSpec, StoredIsFinal, CompletedIsFinal, Objects!PublishedIsFinal, Objects!vars,
       objectVars

\* Cached snapshots can be replayed, what a client is served is complete, one client
\* downloads at a time and every try is paid for, for any number of clients, pages and
\* retries, through faults and kills at any step.
THEOREM Downloads == ResearchSpec => []DownloadsAreSound
  <1> DEFINE Inv == subject = "download" => DownloadInv
  <1>1. ResearchInit => Inv
    BY DownloadInit DEF ResearchInit
  <1>2. Inv /\ [ResearchNext]_researchVars => Inv'
    BY DownloadNext, DownloadStays DEF ResearchNext, researchVars, OthersThanBackfill
  <1>3. Inv => DownloadsAreSound
    BY DownloadPromise DEF DownloadsAreSound
  <1> QED
    BY <1>1, <1>2, <1>3, PTL DEF ResearchSpec

\* Whatever failed or was killed, a panel on disk or returned is validated and from an
\* allowed source that omitted no requested ticker (one may have gone with its dropped
\* rows), and without a kill it is the one that was asked for.
THEOREM IngestedPanels == ResearchSpec => []PanelsAreSound
  <1> DEFINE Inv == subject = "panel" => PanelInv
  <1>1. ResearchInit => Inv
    BY PanelInit DEF ResearchInit
  <1>2. Inv /\ [ResearchNext]_researchVars => Inv'
    BY PanelNext, PanelStays DEF ResearchNext, researchVars, OthersThanBackfill
  <1>3. Inv => PanelsAreSound
    BY PanelPromise DEF PanelsAreSound
  <1> QED
    BY <1>1, <1>2, <1>3, PTL DEF ResearchSpec

\* A bundle an export returned is whole and stays so, whoever publishes, fails or is killed,
\* and no view shows what was not known yet or goes back behind an earlier one.
THEOREM Bundles == ResearchSpec => []BundlesAreSound
  <1> DEFINE Inv == subject \in {"bundle", "view"} => BundleInv
  <1>1. ResearchInit => Inv
    BY BundleInit DEF ResearchInit
  <1>2. Inv /\ [ResearchNext]_researchVars => Inv'
    BY BundleNext, BundleStays DEF ResearchNext, researchVars, OthersThanBackfill
  <1>3. Inv => BundlesAreSound
    BY BundlePromise DEF BundlesAreSound
  <1> QED
    BY <1>1, <1>2, <1>3, PTL DEF ResearchSpec
=============================================================================
