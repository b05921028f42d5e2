----------------------------- MODULE Retention -----------------------------
(***************************************************************************)
(* Digest-confirmed artifact retention (quant_platform.tracking.retention)  *)
(* over the content-addressed store and the registry.  A controller plans,  *)
(* stages pending tombstones in one transaction, then unlinks and finalizes *)
(* each candidate in separate steps, between which it may stop.  Workers    *)
(* claim, publish, register and link artifacts at the same time.            *)
(* Every database transaction and every unlink is one step; a pass of       *)
(* inspections that changes nothing is one step as well.                    *)
(***************************************************************************)
EXTENDS Naturals, FiniteSets

CONSTANTS
    Digests,          \* artifact digests
    Controllers,      \* processes running plan/execute/resume
    MaxPlans,         \* bound: plans ever signed
    MaxGeneration,    \* bound: physical generations of one digest
    MaxAttempts,      \* bound: job attempts ever claimed
    MaxStops,         \* bound: controllers that stop in the middle
    StopAfterUnlink   \* whether one may stop between unlink and finalization

PlanId == 1..MaxPlans
NoPlan == 0

ASSUME RetentionAssumption ==
    /\ MaxPlans \in Nat /\ MaxGeneration \in Nat /\ MaxAttempts \in Nat /\ MaxStops \in Nat
    /\ StopAfterUnlink \in BOOLEAN

VARIABLES
    bytes,       \* [Digests -> generation of the CAS object, 0 if there is none]
    generations, \* [Digests -> generations published so far]
    registered,  \* digests with a row in sl_registry_artifacts
    linked,      \* digests with a row in sl_registry_run_artifacts
    running,     \* the attempt that is running, 0 if none
    attempts,    \* attempts claimed so far
    call,        \* a worker's terminal call between its preflight and its transaction
    plans,       \* signed plans: candidates and their exact generations
    tombs,       \* sl_registry_retention_tombstones
    ctl,         \* where each controller is
    stops        \* controllers stopped so far

store == <<bytes, generations>>
registry == <<registered, linked, running, attempts, call>>
vars == <<store, registry, plans, tombs, ctl, stops>>

NoCall == [attempt |-> 0, links |-> {}]
Untombed == [plan |-> NoPlan, done |-> FALSE]
Unplanned == [candidates |-> {}, gen |-> [d \in Digests |-> 0]]
Idle == [pc |-> "idle", plan |-> NoPlan, todo |-> {}, target |-> {}]
Pcs == {"idle", "inspect", "stage", "read", "recheck", "loop", "unlink", "finalize"}

TypeOK ==
    /\ bytes \in [Digests -> 0..MaxGeneration] /\ generations \in [Digests -> 0..MaxGeneration]
    /\ registered \subseteq Digests /\ linked \subseteq registered
    /\ attempts \in 0..MaxAttempts /\ running \in 0..MaxAttempts
    /\ call \in [attempt : 0..MaxAttempts, links : SUBSET Digests]
    /\ plans \in [PlanId -> [candidates : SUBSET Digests, gen : [Digests -> 0..MaxGeneration]]]
    /\ tombs \in [Digests -> [plan : {NoPlan} \cup PlanId, done : BOOLEAN]]
    /\ ctl \in [Controllers -> [pc : Pcs, plan : {NoPlan} \cup PlanId,
                                todo : SUBSET Digests, target : SUBSET Digests]]
    /\ stops \in 0..MaxStops

Pending   == {d \in Digests : tombs[d].plan # NoPlan /\ ~tombs[d].done}
Finalized == {d \in Digests : tombs[d].done}
Tombed    == Pending \cup Finalized
Staged(p) == plans[p].candidates # {} /\ \E d \in Digests : tombs[d].plan = p

Init ==
    /\ bytes = [d \in Digests |-> 0] /\ generations = [d \in Digests |-> 0]
    /\ registered = {} /\ linked = {}
    /\ running = 0 /\ attempts = 0 /\ call = NoCall
    /\ plans = [p \in PlanId |-> Unplanned]
    /\ tombs = [d \in Digests |-> Untombed]
    /\ ctl = [c \in Controllers |-> Idle]
    /\ stops = 0

-----------------------------------------------------------------------------
\* Publication and the registry's workers.

\* Publishing a digest that already has bytes reuses them.  Maintenance is
\* serialized against publishing, as unlink_verified requires of its callers.
Publish(d) ==
    /\ \A c \in Controllers : ctl[c].pc = "idle"
    /\ bytes[d] = 0 /\ generations[d] < MaxGeneration
    /\ bytes' = [bytes EXCEPT ![d] = generations[d] + 1]
    /\ generations' = [generations EXCEPT ![d] = @ + 1]
    /\ UNCHANGED <<registry, plans, tombs, ctl, stops>>

RegisterArtifact(d) ==
    /\ bytes[d] # 0
    /\ registered' = registered \cup {d}
    /\ UNCHANGED <<store, linked, running, attempts, call, plans, tombs, ctl, stops>>

\* Mutant: claims do not look at retention.
ClaimsNeverPause == TRUE

ClaimsOpen == Pending = {}

Claim ==
    /\ ClaimsOpen
    /\ running = 0 /\ attempts < MaxAttempts
    /\ attempts' = attempts + 1 /\ running' = attempts + 1
    /\ UNCHANGED <<store, registered, linked, call, plans, tombs, ctl, stops>>

\* The lease expires and the attempt is recovered; its worker does not know.
LoseLease ==
    /\ running # 0
    /\ running' = 0
    /\ UNCHANGED <<store, registered, linked, attempts, call, plans, tombs, ctl, stops>>

\* Mutant: links objects the registry has no row for.
PreflightAnyObject(links) ==
    /\ call = NoCall /\ running # 0
    /\ links \cap Tombed = {}
    /\ \A d \in links : bytes[d] # 0
    /\ call' = [attempt |-> running, links |-> links]
    /\ UNCHANGED <<store, registered, linked, running, attempts, plans, tombs, ctl, stops>>

\* _preflight_terminal_artifacts hashes the linked objects outside the transaction.
PreflightLinks(links) ==
    /\ call = NoCall /\ running # 0
    /\ links \subseteq registered \ Tombed
    /\ \A d \in links : bytes[d] # 0
    /\ call' = [attempt |-> running, links |-> links]
    /\ UNCHANGED <<store, registered, linked, running, attempts, plans, tombs, ctl, stops>>

CommitRun ==
    /\ call # NoCall
    /\ IF running = call.attempt /\ call.links \cap Tombed = {}
       THEN linked' = linked \cup call.links /\ running' = 0
       ELSE UNCHANGED <<linked, running>>
    /\ call' = NoCall
    /\ UNCHANGED <<store, registered, attempts, plans, tombs, ctl, stops>>

-----------------------------------------------------------------------------
\* The controller.

NoRunningWork == running = 0

\* Mutant: linked evidence stays eligible.
EligibleIfRegistered(d) == d \in registered

\* _revalidate_candidate (pins and the grace period are part of the plan).
Eligible(d) == d \in registered /\ d \notin linked

\* Mutant: whatever is stored under the digest now will do.
AnyGenerationMatches(p, d) == bytes[d] # 0

\* _inspect_candidate_generation and unlink_verified(expected_generation).
GenerationMatches(p, d) == bytes[d] = plans[p].gen[d]

\* plan(): read-only; signs the exact generation of every candidate.
MakePlan(p) ==
    /\ plans[p] = Unplanned /\ \A q \in PlanId : q < p => plans[q] # Unplanned
    /\ NoRunningWork
    /\ \E candidates \in SUBSET {d \in Digests : Eligible(d) /\ d \notin Tombed /\ bytes[d] # 0} :
          /\ candidates # {}
          /\ plans' = [plans EXCEPT ![p] =
                [candidates |-> candidates,
                 gen |-> [d \in Digests |-> IF d \in candidates THEN bytes[d] ELSE 0]]]
    /\ UNCHANGED <<store, registry, tombs, ctl, stops>>

Goto(c, pc) == ctl' = [ctl EXCEPT ![c].pc = pc]
GiveUp(c)   == ctl' = [ctl EXCEPT ![c] = Idle]

\* Mutant: does not look for another plan's tombstones.
StageableOverOther(p) == NoRunningWork /\ \A d \in plans[p].candidates : Eligible(d)

\* Mutant: takes this plan's own tombstones for another plan's.
StageableOnce(p) ==
    /\ NoRunningWork
    /\ plans[p].candidates \cap Tombed = {}
    /\ \A d \in plans[p].candidates : Eligible(d)

\* _inspect_durable_plan_state, with the active-work check of both its callers.
Stageable(p) ==
    /\ NoRunningWork
    /\ Staged(p) \/ plans[p].candidates \cap Tombed = {}
    /\ \A d \in plans[p].candidates : Eligible(d)

\* execute() or resume(): the read-side half of _preflight_new_intent.
Begin(c, p) ==
    /\ ctl[c].pc = "idle"
    /\ plans[p] # Unplanned
    /\ Stageable(p)
    /\ ctl' = [ctl EXCEPT ![c] = [Idle EXCEPT !.plan = p,
                                              !.pc = IF Staged(p) THEN "stage" ELSE "inspect"]]
    /\ UNCHANGED <<store, registry, plans, tombs, stops>>

\* Its CAS half, for a plan not staged before.
InspectNew(c) ==
    /\ ctl[c].pc = "inspect"
    /\ IF \A d \in plans[ctl[c].plan].candidates : GenerationMatches(ctl[c].plan, d)
       THEN Goto(c, "stage") ELSE GiveUp(c)
    /\ UNCHANGED <<store, registry, plans, tombs, stops>>

\* Phase A: everything is checked again under the write lock.
Stage(c) ==
    LET p == ctl[c].plan
    IN  /\ ctl[c].pc = "stage"
        /\ IF Stageable(p)
           THEN /\ Goto(c, "read")
                /\ tombs' = [d \in Digests |->
                     IF ~Staged(p) /\ d \in plans[p].candidates
                     THEN [plan |-> p, done |-> FALSE] ELSE tombs[d]]
           ELSE GiveUp(c) /\ UNCHANGED tombs
        /\ UNCHANGED <<store, registry, plans, stops>>

\* _read_intent proves every finalized candidate absent.
ReadIntent(c) ==
    LET mine == plans[ctl[c].plan].candidates
    IN  /\ ctl[c].pc = "read"
        /\ IF \A d \in mine \cap Finalized : bytes[d] = 0
           THEN ctl' = [ctl EXCEPT ![c].pc = "recheck", ![c].todo = mine \ Finalized]
           ELSE GiveUp(c)
        /\ UNCHANGED <<store, registry, plans, tombs, stops>>

\* Every pending object is inspected before the first unlink.
Recheck(c) ==
    /\ ctl[c].pc = "recheck"
    /\ IF \A d \in ctl[c].todo : GenerationMatches(ctl[c].plan, d) \/ d \in Finalized
       THEN Goto(c, "loop") ELSE GiveUp(c)
    /\ UNCHANGED <<store, registry, plans, tombs, stops>>

\* _candidate_is_finalized on the next candidate, or the end of the loop.
NextCandidate(c) ==
    /\ ctl[c].pc = "loop"
    /\ \/ ctl[c].todo = {} /\ GiveUp(c)
       \/ \E d \in ctl[c].todo :
            \/ /\ Eligible(d) /\ d \notin Finalized
               /\ ctl' = [ctl EXCEPT ![c].pc = "unlink", ![c].target = {d}]
            \/ /\ Eligible(d) /\ d \in Finalized /\ bytes[d] = 0
               /\ ctl' = [ctl EXCEPT ![c].todo = @ \ {d}]
            \/ /\ ~Eligible(d) \/ (d \in Finalized /\ bytes[d] # 0)
               /\ GiveUp(c)
    /\ UNCHANGED <<store, registry, plans, tombs, stops>>

\* Mutant: goes on although nothing was unlinked.
UnlinkUnconfirmed(c) ==
    /\ ctl[c].pc = "unlink"
    /\ Goto(c, "finalize")
    /\ UNCHANGED <<store, registry, plans, tombs, stops>>

\* unlink_verified with expected_generation: compare and delete, or give up.
Unlink(c) ==
    /\ ctl[c].pc = "unlink"
    /\ IF \A d \in ctl[c].target : GenerationMatches(ctl[c].plan, d)
       THEN /\ bytes' = [d \in Digests |-> IF d \in ctl[c].target THEN 0 ELSE bytes[d]]
            /\ Goto(c, "finalize")
       ELSE UNCHANGED bytes /\ GiveUp(c)
    /\ UNCHANGED <<generations, registry, plans, tombs, stops>>

Finalize(c) ==
    LET d == CHOOSE d \in ctl[c].target : TRUE
    IN  /\ ctl[c].pc = "finalize"
        /\ IF Eligible(d) /\ (d \in Finalized => bytes[d] = 0)
           THEN /\ tombs' = [tombs EXCEPT ![d].done = TRUE]
                /\ ctl' = [ctl EXCEPT ![c].pc = "loop", ![c].target = {}, ![c].todo = @ \ {d}]
           ELSE UNCHANGED tombs /\ GiveUp(c)
        /\ UNCHANGED <<store, registry, plans, stops>>

\* The process dies, or the registry clock is found to have moved back.
Stop(c) ==
    /\ ctl[c].pc # "idle" /\ stops < MaxStops
    /\ ctl[c].pc = "finalize" => StopAfterUnlink
    /\ GiveUp(c)
    /\ stops' = stops + 1
    /\ UNCHANGED <<store, registry, plans, tombs>>

Advance(c) ==
    \/ InspectNew(c) \/ Stage(c) \/ ReadIntent(c) \/ Recheck(c)
    \/ NextCandidate(c) \/ Unlink(c) \/ Finalize(c)

Next ==
    \/ \E d \in Digests : Publish(d) \/ RegisterArtifact(d)
    \/ Claim \/ LoseLease \/ CommitRun
    \/ \E links \in SUBSET Digests \ {{}} : PreflightLinks(links)
    \/ \E p \in PlanId : MakePlan(p)
    \/ \E c \in Controllers, p \in PlanId : Begin(c, p)
    \/ \E c \in Controllers : Advance(c) \/ Stop(c)

Spec == Init /\ [][Next]_vars

\* A controller that is not stopped runs to its end, and the operator, whom the runbook
\* tells to reconcile pending intents, does not forever resume one plan in place of
\* another.
Resume(p) == Staged(p) /\ \E c \in Controllers : Begin(c, p)

PendingIn(p) == \E d \in plans[p].candidates : d \in Pending

FairSpec ==
    /\ Spec
    /\ \A c \in Controllers : WF_vars(Advance(c))
    /\ \A p \in PlanId : SF_vars(PendingIn(p) /\ Resume(p))

-----------------------------------------------------------------------------
\* Retention never removes linked evidence: whatever a run links keeps its bytes,
\* although planning, staging, linking and unlinking happen in different steps
\* of different processes.
EvidenceKeepsItsBytes == \A d \in linked : bytes[d] # 0

\* No attempt runs while a tombstone is pending: claim pauses, staging refuses.
PendingExcludesRunning == Pending # {} => running = 0

\* A finalized tombstone tells the truth: the generation it was planned for is gone
\* (later republication of the same digest is a new generation).
DeletionRecordsAreTrue == \A d \in Finalized : bytes[d] # plans[tombs[d].plan].gen[d]

\* Deletion happens under a pause of claims and leaves a true record.
DeletionIsJustified == PendingExcludesRunning /\ DeletionRecordsAreTrue

\* Bytes disappear only under a pending tombstone and only in the exact generation
\* its plan signed, even with two controllers and republication in between.
OnlyPlannedBytesAreUnlinked ==
    [][\A d \in Digests : bytes[d] # 0 /\ bytes'[d] = 0
          => d \in Pending /\ bytes[d] = plans[tombs[d].plan].gen[d]]_vars

\* Tombstones only ever go from none to pending to finalized, within one plan.
TombstonesAreMonotonic ==
    [][\A d \in Digests : /\ d \in Tombed => tombs'[d].plan = tombs[d].plan
                          /\ d \in Finalized => tombs'[d].done]_vars

\* Pending intent is resumable: every pending tombstone is eventually finalized if
\* its plan keeps being resumed (docs/adr/0002-durable-local-registry.md,
\* docs/run_registry.md on interrupted Phase B).
PendingIntentIsResumable == \A d \in Digests : (d \in Pending) ~> (d \in Finalized)

\* A tombstone and the store disagree, and no controller is about to settle it: the
\* planned generation is gone under a pending tombstone, or a digest was published
\* anew after its own tombstone was finalized.
Contradicted(d) ==
    /\ bytes[d] # IF d \in Finalized THEN 0 ELSE plans[tombs[d].plan].gen[d]
    /\ ~\E c \in Controllers : d \in ctl[c].target

\* Whatever races and crashes there are, intent is resumable unless its plan holds a
\* digest whose tombstone the store contradicts: no other interleaving of two
\* controllers, two plans and a worker wedges Phase B.
IntentIsResumedUnlessContradicted ==
    \A d \in Digests : (d \in Pending) ~>
        \/ d \in Finalized
        \/ \E e \in Tombed : tombs[e].plan = tombs[d].plan /\ Contradicted(e)
=============================================================================
