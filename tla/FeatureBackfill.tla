-------------------------- MODULE FeatureBackfill --------------------------
(***************************************************************************)
(* One backfill plan of quant_platform.features.backfill: the job row, its  *)
(* partition rows and its checkpoint files, which survive, and the one      *)
(* process that runs the plan under the writer lock, which may be killed    *)
(* between any two steps.  Every catalog statement is a transaction of its  *)
(* own; a bounded thread pool computes the partitions.                      *)
(***************************************************************************)
EXTENDS Integers, FiniteSets

CONSTANTS
    Partitions,  \* the plan's partitions
    Frames,      \* what the loader may return for a partition
    MaxAttempts, \* plan.max_attempts
    MaxWorkers,  \* plan.max_workers
    Faults,      \* which faults this environment produces
    MaxFaults    \* bound: how many of them

Kinds == {"loader", "assemble", "materialize", "interrupt", "kill"}

ASSUME BackfillAssumption ==
    /\ Partitions # {} /\ IsFiniteSet(Partitions)
    /\ MaxAttempts \in Nat \ {0} /\ MaxWorkers \in Nat \ {0} /\ MaxFaults \in Nat
    /\ Faults \subseteq Kinds /\ "none" \notin Frames

VARIABLES
    job,    \* backfill_jobs: status and the published object
    part,   \* backfill_partitions: status, attempts and content
    file,   \* checkpoint files
    pc,     \* where BackfillOrchestrator.run is, "down" when nobody runs the plan
    pool,   \* what the thread pool holds for each partition
    held,   \* the checkpoints the run holds in memory
    faults  \* faults so far: how many, of which kinds

catalog == <<job, part>>
vars == <<job, part, file, pc, pool, held, faults>>

Content == Frames \cup {"none"}
NoRow == [status |-> "absent", attempts |-> 0, content |-> "none"]
Everywhere(v) == [p \in Partitions |-> v]

TypeOK ==
    /\ job.status \in {"absent", "planned", "running", "assembling",
                       "interrupted", "failed", "published"}
    /\ job.object \in {Everywhere("none")} \cup [Partitions -> Frames]
    /\ part \in [Partitions -> [status : {"absent", "planned", "running", "completed", "failed"},
                                attempts : 0..MaxAttempts, content : Content]]
    /\ file \in [Partitions -> Content]
    /\ pc \in {"down", "ensured", "recovered", "marking", "executing", "interrupting", "failing",
               "draining", "gathered", "assembling", "materializing", "publishing"}
    /\ pool \in [Partitions -> {"idle", "claimed", "queued", "computing", "written", "broken"}]
    /\ held \in [Partitions -> Content]
    /\ faults \in [count : 0..MaxFaults, kinds : SUBSET Faults]

Init ==
    /\ job = [status |-> "absent", object |-> Everywhere("none")]
    /\ part = Everywhere(NoRow) /\ file = Everywhere("none")
    /\ pc = "down" /\ pool = Everywhere("idle") /\ held = Everywhere("none")
    /\ faults = [count |-> 0, kinds |-> {}]

Pooled(states) == {p \in Partitions : pool[p] \in states}
Fault(kind) ==
    /\ kind \in Faults /\ faults.count < MaxFaults
    /\ faults' = [count |-> faults.count + 1, kinds |-> faults.kinds \cup {kind}]
Raise == pc' = "down" /\ pool' = Everywhere("idle") /\ held' = Everywhere("none")

\* A transition refused by the stored status raises and ends the run.
Transition(allowed, target, next) ==
    IF job.status \in allowed
    THEN job' = [job EXCEPT !.status = target] /\ pc' = next /\ UNCHANGED <<pool, held>>
    ELSE UNCHANGED job /\ Raise

-----------------------------------------------------------------------------
\* A published job returns its object at once: nothing changes.
EnsureJob ==
    /\ pc = "down" /\ job.status # "published"
    /\ pc' = "ensured"
    /\ IF job.status = "absent"
       THEN /\ job' = [job EXCEPT !.status = "planned"]
            /\ part' = Everywhere([NoRow EXCEPT !.status = "planned"])
       ELSE UNCHANGED catalog
    /\ UNCHANGED <<file, pool, held, faults>>

\* Mutant: recovery also takes back completed partitions.
ClaimableAll(p) == TRUE

Claimable(p) == part[p].status \in {"planned", "running", "failed"}

\* Mutant: the attempt limit is left to the check that follows the claim.
RecoverableAnyAttempt(p) == Claimable(p)

Recoverable(p) == Claimable(p) /\ part[p].attempts < MaxAttempts

Completed == {p \in Partitions : part[p].status = "completed"}

\* Every partition is verified and kept, or claimed again, or ends the run.
Recover ==
    /\ pc = "ensured"
    /\ IF \A p \in Partitions : p \in Completed \/ Recoverable(p)
       THEN /\ pool' = [p \in Partitions |-> IF Recoverable(p) THEN "claimed" ELSE "idle"]
            /\ held' = [p \in Partitions |-> IF Recoverable(p) THEN "none" ELSE part[p].content]
            /\ pc' = IF pool' = Everywhere("idle") THEN "gathered" ELSE "recovered"
       ELSE Raise
    /\ UNCHANGED <<job, part, file, faults>>

\* Mutant: a failed job is not taken up again.
StartRunningUnlessFailed ==
    /\ pc = "recovered"
    /\ Transition({"planned", "interrupted"}, "running", "marking")
    /\ UNCHANGED <<part, file, faults>>

StartRunning ==
    /\ pc = "recovered"
    /\ Transition({"planned", "interrupted", "failed"}, "running", "marking")
    /\ UNCHANGED <<part, file, faults>>

\* Mutant: the claim counts the attempt and leaves the status as it was.
MarkRunningSilently(p) ==
    /\ pc = "marking" /\ pool[p] = "claimed"
    /\ part' = [part EXCEPT ![p].attempts = @ + 1]
    /\ pool' = [pool EXCEPT ![p] = "queued"]
    /\ pc' = IF Pooled({"claimed"}) = {p} THEN "executing" ELSE "marking"
    /\ UNCHANGED <<job, file, held, faults>>

\* The recovered limit keeps attempts + 1 within MaxAttempts.
MarkRunning(p) ==
    /\ pc = "marking" /\ pool[p] = "claimed"
    /\ part' = [part EXCEPT ![p].status = "running", ![p].attempts = @ + 1]
    /\ pool' = [pool EXCEPT ![p] = "queued"]
    /\ pc' = IF Pooled({"claimed"}) = {p} THEN "executing" ELSE "marking"
    /\ UNCHANGED <<job, file, held, faults>>

-----------------------------------------------------------------------------
\* A worker takes a partition while the run waits for results.
StartWorker(p) ==
    /\ pc = "executing" /\ pool[p] = "queued"
    /\ Cardinality(Pooled({"computing"})) < MaxWorkers
    /\ pool' = [pool EXCEPT ![p] = "computing"]
    /\ UNCHANGED <<job, part, file, pc, held, faults>>

\* Loads and checks the frame and replaces the checkpoint file in one rename.
WriteCheckpoint(p) ==
    /\ pool[p] = "computing"
    /\ \E frame \in Frames : file' = [file EXCEPT ![p] = frame]
    /\ pool' = [pool EXCEPT ![p] = "written"]
    /\ UNCHANGED <<job, part, pc, held, faults>>

LoaderFails(p) ==
    /\ pool[p] = "computing" /\ Fault("loader")
    /\ pool' = [pool EXCEPT ![p] = "broken"]
    /\ UNCHANGED <<job, part, file, pc, held>>

\* Outstanding futures that no worker has started are cancelled.
Cancelled(q) == [p \in Partitions |-> IF q[p] = "queued" THEN "idle" ELSE q[p]]

\* UPDATE ... WHERE status = 'running': the checkpoint is recorded, and held in any case.
MarkCompleted(p) ==
    /\ part' = IF part[p].status = "running"
               THEN [part EXCEPT ![p].status = "completed", ![p].content = file[p]]
               ELSE part
    /\ held' = [held EXCEPT ![p] = file[p]]
    /\ UNCHANGED <<job, file>>

\* as_completed yields any finished partition.
Collect(p) ==
    /\ pc = "executing" /\ pool[p] = "written"
    /\ MarkCompleted(p)
    /\ pool' = [pool EXCEPT ![p] = "idle"]
    /\ pc' = IF pool' = Everywhere("idle") THEN "gathered" ELSE "executing"
    /\ UNCHANGED faults

\* interrupt_after is reached, with the last pending partition too.
CollectAndInterrupt(p) ==
    /\ pc = "executing" /\ pool[p] = "written"
    /\ Fault("interrupt")
    /\ MarkCompleted(p)
    /\ pool' = [Cancelled(pool) EXCEPT ![p] = "idle"]
    /\ pc' = "interrupting"

\* Mutant: the interruption raises before it is recorded.
InterruptUnrecorded ==
    /\ pc = "interrupting" /\ pc' = "draining"
    /\ UNCHANGED <<job, part, file, pool, held, faults>>

Interrupt ==
    /\ pc = "interrupting"
    /\ Transition({"running"}, "interrupted", "draining")
    /\ UNCHANGED <<part, file, faults>>

\* The first failure that is collected ends the run.
CollectFailure(p) ==
    /\ pc = "executing" /\ pool[p] = "broken"
    /\ part' = [part EXCEPT ![p].status = "failed"]
    /\ pool' = [Cancelled(pool) EXCEPT ![p] = "idle"]
    /\ pc' = "failing"
    /\ UNCHANGED <<job, file, held, faults>>

FailJob ==
    /\ pc = "failing"
    /\ job' = [job EXCEPT !.status = "failed"] /\ pc' = "draining"
    /\ UNCHANGED <<part, file, pool, held, faults>>

\* Leaving the executor waits for the workers; what they wrote is not recorded.
Drain ==
    /\ pc = "draining" /\ Pooled({"computing"}) = {}
    /\ Raise
    /\ UNCHANGED <<job, part, file, faults>>

-----------------------------------------------------------------------------
StartAssembling ==
    /\ pc = "gathered"
    /\ Transition({"running", "planned"}, "assembling", "assembling")
    /\ UNCHANGED <<part, file, faults>>

\* The rows may not assemble (no usable row, a key twice, a file that was damaged),
\* which raises outside the try of run().
Assemble ==
    /\ pc = "assembling"
    /\ \/ pc' = "materializing" /\ UNCHANGED <<pool, held, faults>>
       \/ Fault("assemble") /\ Raise
    /\ UNCHANGED <<job, part, file>>

Materialize ==
    /\ pc = "materializing"
    /\ \/ pc' = "publishing" /\ UNCHANGED <<job, pool, held, faults>>
       \/ Fault("materialize") /\ Raise /\ job' = [job EXCEPT !.status = "failed"]
    /\ UNCHANGED <<part, file>>

Publish ==
    /\ pc = "publishing" /\ job.status = "assembling"
    /\ job' = [status |-> "published", object |-> held]
    /\ Raise
    /\ UNCHANGED <<part, file, faults>>

Kill ==
    /\ pc # "down" /\ Fault("kill")
    /\ Raise
    /\ UNCHANGED <<job, part, file>>

Published == job.status = "published" /\ pc = "down" /\ UNCHANGED vars

Step ==
    \/ EnsureJob \/ Recover \/ StartRunning \/ Interrupt \/ FailJob \/ Drain
    \/ StartAssembling \/ Assemble \/ Materialize \/ Publish
    \/ \E p \in Partitions :
         \/ MarkRunning(p) \/ StartWorker(p) \/ WriteCheckpoint(p) \/ Collect(p)
         \/ CollectFailure(p) \/ LoaderFails(p) \/ CollectAndInterrupt(p)

Next == Step \/ Kill \/ Published
Spec == Init /\ [][Next]_vars

\* An operator runs the plan again whenever a run has ended, and no run hangs.
FairSpec == Spec /\ WF_vars(Step)

-----------------------------------------------------------------------------
\* A completed partition is never claimed, recomputed or overwritten again, and the
\* published object never changes.
CompletedIsFinal ==
    [][/\ \A p \in Partitions : part[p].status = "completed" =>
            part'[p] = part[p] /\ file'[p] = part[p].content
       /\ job.status = "published" => job' = job]_vars

\* The published object is the assembly of the recorded checkpoints, all of them.
PublishedIsWhole ==
    job.status = "published" => /\ Completed = Partitions
                                /\ job.object = [p \in Partitions |-> part[p].content]

\* A run that is over has left the running states: it is recorded what became of it.
EndIsRecorded == pc = "down" => job.status \notin {"running", "assembling"}

\* Faults after which nothing in the code writes the job's row again.
Unhandled == {"kill", "assemble"}

\* Every other end of a run is recorded, interruptions and failures with work still in
\* the pool included.
EveryOtherEndIsRecorded == faults.kinds \cap Unhandled = {} => EndIsRecorded

Exhausted == \E p \in Partitions \ Completed : part[p].attempts = MaxAttempts

\* Run or resume (the docstring of run): a plan that is run again and again is published,
\* unless a partition has used up its attempts.
PlanIsPublished == <>(job.status = "published" \/ Exhausted)

\* Every partition is completed and the job is not running: no run can start assembling.
\* A refused materialization leaves this, and an interruption at the last partition.
NothingPending == job.status \in {"interrupted", "failed"} /\ Completed = Partitions

\* That much holds when no fault was unhandled: loader failures and interruptions with
\* partitions left never wedge a plan.
PlanIsPublishedUnlessWedged ==
    <>(job.status = "published" \/ Exhausted \/ NothingPending \/ faults.kinds \cap Unhandled # {})
=============================================================================
