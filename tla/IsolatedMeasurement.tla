------------------------ MODULE IsolatedMeasurement ------------------------
(***************************************************************************)
(* The telemetry overhead is measured in two fresh processes, one per arm   *)
(* (scripts/benchmark_service_operability.py): the parent starts a child,   *)
(* waits for its readiness, starts the workload, reads one result, and      *)
(* reaps the child whatever happened.  A child may stop, hang, fail, print  *)
(* something else, report another workload or survive its termination, and  *)
(* the deadline may pass anywhere.                                          *)
(***************************************************************************)
EXTENDS Naturals, Sequences

CONSTANTS
    Arms,       \* the telemetry modes, in the order they are measured
    Peaks,      \* values of the peak memory
    Limit,      \* the delta allowed
    MaxOut      \* bound: chunks of output not yet read

VARIABLES
    parent,     \* what the parent does next
    arm,        \* the arm it is at
    child,      \* the process it started last
    out,        \* the child's output not yet read
    buffer,     \* the record being read
    results,    \* validated results, in order
    report      \* the aggregate, or what was raised

measurementVars == <<parent, arm, child, out, buffer, results, report>>

ParentSteps == {"start", "ready", "go", "result", "wait", "check", "terminate", "kill", "killed",
                "aggregate", "ended"}
NoChild == [state |-> "none", at |-> "none", code |-> 0, stubborn |-> FALSE, told |-> FALSE]
Records == {"ready", "result", "other"}
NoReport == [state |-> "none", delta |-> 0]
Report(state, delta) == [state |-> state, delta |-> delta]
NoResult == [mode |-> "none", workload |-> "none", complete |-> FALSE, before |-> 0, after |-> 0]

TypeOK ==
    /\ parent \in ParentSteps /\ arm \in 1..2
    /\ child.state \in {"none", "running", "exited", "reaped"} /\ child.stubborn \in BOOLEAN
    /\ Len(out) <= MaxOut /\ Len(results) <= 2
    /\ report.state \in {"none", "raised", "left", "delta"} /\ report.delta \in Nat

Init ==
    /\ parent = "start" /\ arm = 1
    /\ child = NoChild /\ out = <<>> /\ buffer = <<>>
    /\ results = <<>> /\ report = NoReport

Running == child.state = "running"

-----------------------------------------------------------------------------
\* The child.

Emit(record, result) ==
    /\ Len(out) < MaxOut
    /\ out' = Append(out, [record |-> record, result |-> result])

\* Its peak never falls; the workload may be another one, or not complete.
Measured(mode) ==
    [mode : {mode}, workload : {"common", "other"}, complete : BOOLEAN, before : Peaks, after : Peaks]

\* _isolated_rss_child_entrypoint: ready, then a start, then one result.
ChildStep ==
    /\ Running
    /\ \/ /\ child.at = "begin" /\ Emit("ready", NoResult) /\ child' = [child EXCEPT !.at = "waiting"]
       \/ /\ child.at = "waiting" /\ child.told
          /\ child' = [child EXCEPT !.at = "measuring"] /\ UNCHANGED out
       \/ /\ child.at = "measuring"
          /\ \E r \in Measured(Arms[arm]) : r.after >= r.before /\ Emit("result", r)
          /\ child' = [child EXCEPT !.at = "done"]
       \/ /\ child.at = "done"
          /\ child' = [child EXCEPT !.state = "exited", !.code = 0] /\ UNCHANGED out
       \/ /\ child' = [child EXCEPT !.state = "exited", !.code = 2] /\ UNCHANGED out
       \/ /\ child.at \in {"begin", "measuring"} /\ Emit("other", NoResult) /\ UNCHANGED child
    /\ UNCHANGED <<parent, arm, buffer, results, report>>

-----------------------------------------------------------------------------
\* The parent.

To(next) == parent' = next
Raise == To("terminate") /\ report' = Report("raised", 0)

\* A fresh process, that may not react to being terminated.
Start ==
    /\ parent = "start"
    /\ \/ \E s \in BOOLEAN :
             child' = [NoChild EXCEPT !.state = "running", !.at = "begin", !.stubborn = s]
          /\ To("ready") /\ UNCHANGED report
       \/ /\ To("ended") /\ report' = Report("raised", 0) /\ UNCHANGED child
    /\ out' = <<>> /\ buffer' = <<>>
    /\ UNCHANGED <<arm, results>>

\* _read_bounded_protocol_line: what has arrived is one whole record, or the protocol is
\* broken; the deadline may have passed.
ReadLine(step, expected, next) ==
    /\ parent = step
    /\ \/ /\ out # <<>> /\ Len(out) = 1 /\ out[1].record \in expected
          /\ buffer' = out /\ To(next) /\ UNCHANGED report
       \/ /\ out # <<>> /\ (Len(out) > 1 \/ out[1].record \notin expected)
          /\ Raise /\ UNCHANGED buffer
       \/ /\ out = <<>> /\ Raise /\ UNCHANGED buffer
    /\ out' = <<>>
    /\ UNCHANGED <<arm, child, results>>

\* The start signal, unless the child is gone.
SendStart ==
    /\ parent = "go"
    /\ IF Running THEN child' = [child EXCEPT !.told = TRUE] /\ To("result") /\ UNCHANGED report
       ELSE Raise /\ UNCHANGED child
    /\ UNCHANGED <<arm, out, buffer, results>>

\* The exit code is waited for until the deadline.
Wait ==
    /\ parent = "wait"
    /\ \/ child.state = "exited" /\ child' = [child EXCEPT !.state = "reaped"] /\ To("check") /\ UNCHANGED report
       \/ Running /\ Raise /\ UNCHANGED child
    /\ UNCHANGED <<arm, out, buffer, results>>

\* Mutant: a result is taken at its word.
AnyResult(r, mode) == r.after >= r.before

\* _validate_isolated_rss_child_result.
Valid(r, mode) ==
    /\ r.mode = mode /\ r.workload = "common" /\ r.complete
    /\ r.after >= r.before

\* The code is 0, the record a result, and the result valid.
Check ==
    /\ parent = "check"
    /\ LET r == buffer[1].result
       IN  IF child.code = 0 /\ buffer[1].record = "result" /\ Valid(r, Arms[arm])
           THEN results' = Append(results, r) /\ To("terminate") /\ UNCHANGED report
           ELSE Raise /\ UNCHANGED results
    /\ UNCHANGED <<arm, child, out, buffer>>

\* _terminate_and_reap_isolated_child, the first wait.
Terminate ==
    /\ parent = "terminate"
    /\ \/ /\ child.state # "running" \/ ~child.stubborn
          /\ child' = [child EXCEPT !.state = "reaped"] /\ To("aggregate")
       \/ Running /\ child.stubborn /\ To("kill") /\ UNCHANGED child
    /\ UNCHANGED <<arm, out, buffer, results, report>>

\* Mutant: a child that outlives its termination is left alone.
LeftAlone == child

Killed == [child EXCEPT !.state = "reaped"]

\* The second wait: the child was killed.
Kill ==
    /\ parent = "kill"
    /\ child' = Killed /\ To("aggregate")
    /\ UNCHANGED <<arm, out, buffer, results, report>>

\* A kill that does not take effect within its bound.
KillTooLate ==
    /\ parent = "kill"
    /\ report' = Report("left", 0) /\ To("ended")
    /\ UNCHANGED <<arm, child, out, buffer, results>>

\* Mutant: the difference as it comes, less than nothing included.
SignedGrowth(off, on) == on.after - off.after

\* Never less than nothing.
Growth(off, on) == IF on.after > off.after THEN on.after - off.after ELSE 0

\* The next arm, or _aggregate_isolated_rss_measurements.
Aggregate ==
    /\ parent = "aggregate"
    /\ IF report.state = "raised" THEN To("ended") /\ UNCHANGED <<arm, report>>
       ELSE IF arm = 1 THEN To("start") /\ arm' = 2 /\ UNCHANGED report
       ELSE LET delta == Growth(results[1], results[2])
            IN  To("ended") /\ UNCHANGED arm /\ report' = IF delta > Limit THEN Report("raised", 0) ELSE Report("delta", delta)
    /\ UNCHANGED <<child, out, buffer, results>>

Next ==
    \/ ChildStep \/ Start
    \/ ReadLine("ready", {"ready"}, "go") \/ SendStart
    \/ ReadLine("result", Records, "wait") \/ Wait \/ Check
    \/ Terminate \/ Kill \/ KillTooLate \/ Aggregate

Spec == Init /\ [][Next]_measurementVars

-----------------------------------------------------------------------------
\* No measuring process is left when the parent ends or starts the next arm, but for one
\* that could not be killed in time, which is raised as such.
NoChildIsLeft ==
    parent \in {"start", "ended"} => child.state \in {"none", "reaped"} \/ report.state = "left"

\* A reported overhead compares two complete runs of the common workload, each in its own
\* mode and within the limit: nothing a child printed, did not finish or ran of another
\* workload enters it.
DeltaComparesTheArms ==
    report.state = "delta" =>
        /\ Len(results) = 2 /\ report.delta <= Limit
        /\ \A i \in 1..2 : results[i].mode = Arms[i] /\ results[i].workload = "common" /\ results[i].complete
        /\ report.delta = 0 \/ results[1].after + report.delta = results[2].after

MeasurementHolds == NoChildIsLeft /\ DeltaComparesTheArms
=============================================================================
