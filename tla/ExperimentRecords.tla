-------------------------- MODULE ExperimentRecords --------------------------
(***************************************************************************)
(* Experiment runs and the records they leave (tracking/experiment.py): a   *)
(* run's body ends or fails, its record is persisted by the backend the     *)
(* tracker was built for, and the caller is told of one failure at most,    *)
(* the body's first.  A JSON record is a file created under its name and    *)
(* then written, a SQLite record is one inserted row, an MLflow record is a  *)
(* series of calls inside a session whose own end may fail or swallow what  *)
(* was raised.  A process may die at any step.  The JSON records are listed  *)
(* while they are written, against the identities of the files and of their *)
(* directory.  What a record says is abstracted to the run's status.        *)
(***************************************************************************)
EXTENDS Naturals, FiniteSets

CONSTANTS
    Runs,         \* every one a process of its own, with its own identifier
    Suppresses    \* whether a session may swallow an exception raised under it

VARIABLES
    backend,      \* of the tracker: "json", "sqlite" or "mlflow"
    phase,        \* where each run is
    status,       \* what its context says
    pending,      \* the exception on its way to the caller: "none", "body", ...
    notes,        \* secondary failures added to the body's exception
    raised,       \* what the caller got once the run is over
    file,         \* the JSON file of each run: "absent", "empty", "torn" or "whole"
    rows,         \* the runs with a row
    logged,       \* of each run, whether all of it was logged to MLflow
    listing       \* a listing of the directory under way

vars == <<backend, phase, status, pending, notes, raised, file, rows, logged, listing>>

Failures == {"none", "body", "persistence", "session"}
NoListing == [at |-> "away", unchanged |-> TRUE, todo |-> {}, open |-> "none", still |-> TRUE, got |-> {}]

TypeOK ==
    /\ backend \in {"json", "sqlite", "mlflow"}
    /\ phase \in [Runs -> {"idle", "body", "ended", "writing", "closing", "exit", "over", "dead"}]
    /\ status \in [Runs -> {"running", "completed", "failed"}]
    /\ pending \in [Runs -> Failures] /\ raised \in [Runs -> Failures \cup {"running"}]
    /\ notes \in [Runs -> SUBSET {"persistence", "session"}]
    /\ file \in [Runs -> {"absent", "empty", "torn", "whole"}]
    /\ rows \subseteq Runs /\ logged \subseteq Runs
    /\ listing.at \in {"away", "scanned", "reading", "read", "returned", "refused"}

Init ==
    /\ backend \in {"json", "sqlite", "mlflow"}
    /\ phase = [r \in Runs |-> "idle"] /\ status = [r \in Runs |-> "running"]
    /\ pending = [r \in Runs |-> "none"] /\ notes = [r \in Runs |-> {}]
    /\ raised = [r \in Runs |-> "running"]
    /\ file = [r \in Runs |-> "absent"] /\ rows = {} /\ logged = {}
    /\ listing = NoListing

At(r, p) == phase[r] = p
Go(r, p) == phase' = [phase EXCEPT ![r] = p]

Start(r) ==
    /\ At(r, "idle") /\ Go(r, "body")
    /\ UNCHANGED <<backend, status, pending, notes, raised, file, rows, logged, listing>>

EndBody(r, outcome) ==
    /\ At(r, "body") /\ Go(r, "ended")
    /\ status' = [status EXCEPT ![r] = outcome]
    /\ pending' = [pending EXCEPT ![r] = IF outcome = "failed" THEN "body" ELSE "none"]
    /\ UNCHANGED <<backend, notes, raised, file, rows, logged, listing>>

-----------------------------------------------------------------------------
\* _persist_preserving_primary

\* Mutant: the failure of the clean-up replaces the one of the body.
SecondaryWins(r, failure) ==
    /\ pending' = [pending EXCEPT ![r] = failure]
    /\ UNCHANGED notes

\* A failed body's exception gets a note, otherwise the failure is raised.
Fail(r, failure) ==
    IF pending[r] = "body"
    THEN notes' = [notes EXCEPT ![r] = @ \cup {failure}] /\ UNCHANGED pending
    ELSE pending' = [pending EXCEPT ![r] = failure] /\ UNCHANGED notes

\* Without a session the run is over once it was persisted.
AfterPersisting == IF backend = "mlflow" THEN "exit" ELSE "over"

Surface(r, failure) == raised' = IF backend = "mlflow" THEN raised ELSE [raised EXCEPT ![r] = failure]

FailPersisting(r) ==
    /\ phase[r] \in {"ended", "writing"}
    /\ Fail(r, "persistence") /\ Go(r, AfterPersisting) /\ Surface(r, pending'[r])
    /\ UNCHANGED <<backend, status, file, rows, logged, listing>>

Persisted(r) ==
    /\ Go(r, AfterPersisting) /\ Surface(r, pending[r])
    /\ UNCHANGED <<backend, status, pending, notes, listing>>

\* The directory's identity is not what a listing first saw.
DirectoryTouched == listing' = [listing EXCEPT !.unchanged = FALSE]
FileTouched(r) == listing' = IF listing.open = r THEN [listing EXCEPT !.still = FALSE] ELSE listing

\* JSONTracker._persist: open("x"), the writes, the close.
CreateFile(r) ==
    /\ At(r, "ended") /\ backend = "json" /\ file[r] = "absent" /\ Go(r, "writing")
    /\ file' = [file EXCEPT ![r] = "empty"] /\ DirectoryTouched
    /\ UNCHANGED <<backend, status, pending, notes, raised, rows, logged>>

WriteSome(r) ==
    /\ At(r, "writing") /\ backend = "json" /\ file[r] = "empty"
    /\ file' = [file EXCEPT ![r] = "torn"] /\ FileTouched(r)
    /\ UNCHANGED <<backend, phase, status, pending, notes, raised, rows, logged>>

WriteRest(r) ==
    /\ At(r, "writing") /\ backend = "json"
    /\ file' = [file EXCEPT ![r] = "whole"] /\ FileTouched(r)
    /\ Go(r, AfterPersisting) /\ Surface(r, pending[r])
    /\ UNCHANGED <<backend, status, pending, notes, rows, logged>>

\* SQLiteTracker._persist: the commit, then the close.
Insert(r) ==
    /\ At(r, "ended") /\ backend = "sqlite" /\ Go(r, "closing") /\ rows' = rows \cup {r}
    /\ UNCHANGED <<backend, status, pending, notes, raised, file, logged, listing>>

CloseConnection(r) ==
    /\ At(r, "closing") /\ Persisted(r) /\ UNCHANGED <<file, rows, logged>>

FailToClose(r) ==
    /\ At(r, "closing") /\ Fail(r, "persistence") /\ Go(r, "over") /\ Surface(r, pending'[r])
    /\ UNCHANGED <<backend, status, file, rows, logged, listing>>

\* MLflowTracker._log_mlflow_run: parameters, metrics, tags, artifacts.
LogSome(r) ==
    /\ At(r, "ended") /\ backend = "mlflow" /\ Go(r, "writing")
    /\ UNCHANGED <<backend, status, pending, notes, raised, file, rows, logged, listing>>

LogRest(r) ==
    /\ At(r, "writing") /\ backend = "mlflow"
    /\ logged' = logged \cup {r} /\ Persisted(r) /\ UNCHANGED <<file, rows>>

\* The body's exception is restored if the session swallowed it.
Restored(r, primary) == IF primary = "body" THEN "body" ELSE "none"

\* MLflowTracker.run behind its session: it ends, fails, or swallows.
ExitSession(r, how) ==
    /\ At(r, "exit") /\ Go(r, "over")
    /\ how = "swallows" => Suppresses /\ pending[r] # "none"
    /\ raised' = [raised EXCEPT ![r] =
          CASE how = "ends" -> pending[r]
            [] how = "fails" -> IF pending[r] = "body" THEN "body" ELSE "session"
            [] how = "swallows" -> Restored(r, pending[r])]
    /\ notes' = [notes EXCEPT ![r] = IF how = "fails" /\ pending[r] = "body" THEN @ \cup {"session"} ELSE @]
    /\ UNCHANGED <<backend, status, pending, file, rows, logged, listing>>

Kill(r) ==
    /\ phase[r] \notin {"idle", "over", "dead"} /\ Go(r, "dead")
    /\ UNCHANGED <<backend, status, pending, notes, raised, file, rows, logged, listing>>

-----------------------------------------------------------------------------
\* JSONTracker.list_runs

Files == {r \in Runs : file[r] # "absent"}

Scan ==
    /\ backend = "json" /\ listing.at = "away"
    /\ listing' = [NoListing EXCEPT !.at = "scanned", !.todo = Files]
    /\ UNCHANGED <<backend, phase, status, pending, notes, raised, file, rows, logged>>

\* An empty file is refused before it is read.
OpenRecord(r) ==
    /\ listing.at = "scanned" /\ r \in listing.todo
    /\ listing' = [listing EXCEPT !.at = IF file[r] = "empty" THEN "refused" ELSE "reading",
                                  !.todo = @ \ {r}, !.open = r, !.still = TRUE]
    /\ UNCHANGED <<backend, phase, status, pending, notes, raised, file, rows, logged>>

\* What was read is decoded if the file is still what it was, and a torn record is
\* no JSON.
ReadRecord ==
    /\ listing.at = "reading"
    /\ LET r == listing.open
           refused == ~listing.still \/ file[r] = "torn"
       IN listing' = [listing EXCEPT !.at = IF refused THEN "refused" ELSE "scanned", !.open = "none",
                                     !.got = IF refused THEN @ ELSE @ \cup {r}]
    /\ UNCHANGED <<backend, phase, status, pending, notes, raised, file, rows, logged>>

\* Mutant: the directory is not looked at again.
AnyDirectory(l) == TRUE

DirectoryIsTheSame(l) == l.unchanged

ReturnRuns ==
    /\ listing.at = "scanned" /\ listing.todo = {}
    /\ listing' = [listing EXCEPT !.at = IF DirectoryIsTheSame(listing) THEN "returned" ELSE "refused"]
    /\ UNCHANGED <<backend, phase, status, pending, notes, raised, file, rows, logged>>

EndListing ==
    /\ listing.at \in {"returned", "refused"} /\ listing' = NoListing
    /\ UNCHANGED <<backend, phase, status, pending, notes, raised, file, rows, logged>>

Next ==
    \/ \E r \in Runs :
          \/ Start(r) \/ EndBody(r, "completed") \/ EndBody(r, "failed")
          \/ CreateFile(r) \/ WriteSome(r) \/ WriteRest(r)
          \/ Insert(r) \/ CloseConnection(r) \/ FailToClose(r)
          \/ LogSome(r) \/ LogRest(r) \/ FailPersisting(r)
          \/ \E how \in {"ends", "fails", "swallows"} : ExitSession(r, how)
          \/ Kill(r) \/ OpenRecord(r)
    \/ Scan \/ ReadRecord \/ ReturnRuns \/ EndListing

Spec == Init /\ [][Next]_vars

-----------------------------------------------------------------------------
\* The caller of a run whose body failed gets the body's exception, whatever the
\* persistence and the session do after it (docstring of ExperimentTracker.run).
PrimaryIsRaised == \A r \in Runs : At(r, "over") /\ status[r] = "failed" => raised[r] = "body"

Stored(r) ==
    CASE backend = "json" -> file[r] = "whole"
      [] backend = "sqlite" -> r \in rows
      [] backend = "mlflow" -> r \in logged

\* A run that returns to its caller without an exception has its whole record, unless
\* a session swallowed the failure to log it.
SuccessIsRecorded ==
    \A r \in Runs : raised[r] = "none" /\ ~(Suppresses /\ pending[r] = "persistence") => Stored(r)

\* A listing that returns has every record of the directory, each of them whole, and
\* none was added while it was read.
ListedIsEverything ==
    [][ReturnRuns /\ listing'.at = "returned" => listing.got = {r \in Runs : file[r] = "whole"} /\ listing.got = Files]_vars

\* One torn record does not keep the others from being listed for good (not promised,
\* and not so: see the README).
ATornRecordHidesNothing ==
    ~(\E r \in Runs : At(r, "dead") /\ file[r] \in {"empty", "torn"} /\ \E k \in Runs : file[k] = "whole")
=============================================================================
