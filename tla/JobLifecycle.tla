---------------------------- MODULE JobLifecycle ----------------------------
(***************************************************************************)
(* What the registry promises about one job, whoever calls it and however   *)
(* workers die: a job is attempted at most Limit times, one attempt at a    *)
(* time; a cancelled job is never attempted or completed again; an outcome  *)
(* is final.  One registry transaction may release an expired attempt and   *)
(* start the next one, or cancel the job, in the same commit.               *)
(***************************************************************************)
EXTENDS Naturals

CONSTANT Limit
VARIABLES state, attempt, cancelled

vars == <<state, attempt, cancelled>>

Init == state = "absent" /\ attempt = 0 /\ cancelled = FALSE

Submit ==
    /\ state = "absent"
    /\ state' = "queued"
    /\ UNCHANGED <<attempt, cancelled>>

Attempt ==
    /\ state \in {"queued", "running"} /\ ~cancelled
    /\ attempt < Limit
    /\ state' = "running" /\ attempt' = attempt + 1
    /\ UNCHANGED cancelled

Release ==
    /\ state = "running" /\ ~cancelled
    /\ attempt < Limit
    /\ state' = "queued"
    /\ UNCHANGED <<attempt, cancelled>>

AskToStop ==
    /\ state = "running" /\ ~cancelled
    /\ cancelled' = TRUE
    /\ UNCHANGED <<state, attempt>>

Cancel ==
    /\ state \in {"queued", "running"}
    /\ state' = "cancelled" /\ cancelled' = TRUE
    /\ UNCHANGED attempt

Finish ==
    /\ state = "running" /\ ~cancelled
    /\ state' \in {"succeeded", "failed"}
    /\ UNCHANGED <<attempt, cancelled>>

Next == Submit \/ Attempt \/ Release \/ AskToStop \/ Cancel \/ Finish

Spec == Init /\ [][Next]_vars
=============================================================================
