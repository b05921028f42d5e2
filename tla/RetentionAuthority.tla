------------------------- MODULE RetentionAuthority -------------------------
(***************************************************************************)
(* Who may delete what, and when (quant_platform.tracking.retention): a     *)
(* plan is signed for one registry, one store, one policy and exact         *)
(* generations; it is confirmed, stored, loaded again after a restart and   *)
(* executed by a controller that may be configured otherwise by then, under *)
(* a wall clock that may be set back.  The registry's verifier              *)
(* (quant_platform.tracking.migrations) reads what is stored.  The          *)
(* interleaving of controllers and workers is Retention's; here one         *)
(* candidate is unlinked and finalized in one step.                         *)
(***************************************************************************)
EXTENDS Naturals, FiniteSets, FiniteSetsExt

CONSTANTS
    Artifacts,     \* digests, in the order of the database: a set of naturals
    Size,          \* their bytes
    Policies,      \* the policies controllers are configured with
    Stores,        \* identities of artifact stores
    MaxTime,       \* bound: the clock's range
    MaxSetBacks,   \* bound: times the clock is set back
    MaxSigned,     \* bound: plans ever signed
    MaxMade        \* bound: generations of all artifacts together

VARIABLES
    now, setBacks, \* the clock of the registry and of the file system
    bytes,         \* [Artifacts -> the stored generation and its change time]
    made,          \* generations made so far; a generation is its number
    created,       \* [Artifacts -> when its row was created]
    used,          \* digests linked to a run
    bound,         \* the store the registry is bound to
    controller,    \* its policy and store, and the plan it is executing
    signed,        \* sequence numbers and contents of the plans signed so far
    envelopes,     \* plans stored with their tombstones
    deleted        \* [Artifacts -> plan and time of its tombstone]

authorityVars == <<now, setBacks, bytes, made, created, used, bound, controller, signed, envelopes, deleted>>

Time == 0..MaxTime
Never == MaxTime + 1
None == 0
Absent == [gen |-> 0, changed |-> Never]
Unmarked == [plan |-> None, at |-> Never]
PlanNumber == 1..MaxSigned
Unsigned == [at |-> Never, policy |-> CHOOSE p \in Policies : TRUE, store |-> None,
             cands |-> [d \in {} |-> Absent]]

TypeOK ==
    /\ now \in Time /\ setBacks \in 0..MaxSetBacks
    /\ made \in 0..MaxMade
    /\ bytes \in [Artifacts -> [gen : 0..MaxMade, changed : Time \cup {Never}]]
    /\ created \in [Artifacts -> Time \cup {Never}] /\ used \subseteq Artifacts
    /\ bound \in Stores \cup {None}
    /\ controller \in [policy : Policies, store : Stores, plan : PlanNumber \cup {None}]
    /\ envelopes \subseteq PlanNumber
    /\ deleted \in [Artifacts -> [plan : PlanNumber \cup {None}, at : Time \cup {Never}]]

Init ==
    /\ now = 0 /\ setBacks = 0
    /\ bytes = [d \in Artifacts |-> Absent] /\ made = 0
    /\ created = [d \in Artifacts |-> Never] /\ used = {}
    /\ bound = None
    /\ controller \in [policy : Policies, store : Stores, plan : {None}]
    /\ signed = [n \in PlanNumber |-> Unsigned] /\ envelopes = {}
    /\ deleted = [d \in Artifacts |-> Unmarked]

-----------------------------------------------------------------------------
\* The world around a controller.

Pass ==
    /\ now < MaxTime
    /\ now' = now + 1
    /\ UNCHANGED <<setBacks, bytes, made, created, used, bound, controller, signed, envelopes, deleted>>

SetBack ==
    /\ now > 0 /\ setBacks < MaxSetBacks
    /\ now' = now - 1 /\ setBacks' = setBacks + 1
    /\ UNCHANGED <<bytes, made, created, used, bound, controller, signed, envelopes, deleted>>

\* Content comes and is registered, or comes again after it was deleted.
Publish(d) ==
    /\ bytes[d] = Absent /\ made < MaxMade
    /\ bytes' = [bytes EXCEPT ![d] = [gen |-> made + 1, changed |-> now]]
    /\ made' = made + 1
    /\ created' = [created EXCEPT ![d] = IF @ = Never THEN now ELSE @]
    /\ UNCHANGED <<now, setBacks, used, bound, controller, signed, envelopes, deleted>>

\* An operator restores the artifact root from a backup.
Restore(d) ==
    /\ bytes[d] # Absent /\ made < MaxMade
    /\ bytes' = [bytes EXCEPT ![d] = [gen |-> made + 1, changed |-> now]]
    /\ made' = made + 1
    /\ UNCHANGED <<now, setBacks, created, used, bound, controller, signed, envelopes, deleted>>

\* A run is committed: not with an artifact under a tombstone.
Link(d) ==
    /\ created[d] # Never /\ bytes[d] # Absent /\ deleted[d] = Unmarked
    /\ used' = used \cup {d}
    /\ UNCHANGED <<now, setBacks, bytes, made, created, bound, controller, signed, envelopes, deleted>>

\* Another process with another configuration: the constructor binds the registry to
\* its store once, and fails when it is bound to another.
Construct(policy, store) ==
    /\ controller.plan = None /\ bound \in {None, store}
    /\ <<policy, store>> # <<controller.policy, controller.store>> \/ bound = None
    /\ bound' = store
    /\ controller' = [policy |-> policy, store |-> store, plan |-> None]
    /\ UNCHANGED <<now, setBacks, bytes, made, created, used, signed, envelopes, deleted>>

-----------------------------------------------------------------------------
\* plan().

Cutoff(p) == signed[p].at - signed[p].policy.grace
Total(ds) == MapThenSumSet(LAMBDA d : Size[d], ds)

\* The rows of the query, oldest first, as many as the policy allows.
Before(d, e) == created[d] < created[e] \/ (created[d] = created[e] /\ d < e)
Rows(cutoff) ==
    LET fit == {d \in Artifacts : /\ created[d] <= cutoff /\ Size[d] <= controller.policy.total
                                  /\ d \notin used /\ deleted[d] = Unmarked}
    IN  {d \in fit : Cardinality({e \in fit : Before(e, d)}) < controller.policy.count}

\* Those before the first that does not fit into the policy's bytes.
Selected(cutoff) ==
    {d \in Rows(cutoff) : Total({e \in Rows(cutoff) : e = d \/ Before(e, d)}) <= controller.policy.total}

MakePlan ==
    LET cutoff == now - controller.policy.grace
        rows == Selected(cutoff)
        cands == {d \in rows : bytes[d].changed <= cutoff}
        n == Cardinality({m \in PlanNumber : signed[m] # Unsigned}) + 1
    IN  /\ controller.policy.enabled /\ controller.plan = None /\ bound = controller.store
        /\ now >= controller.policy.grace /\ n \in PlanNumber
        /\ \A d \in rows : bytes[d] # Absent
        /\ cands # {}
        /\ signed' = [signed EXCEPT ![n] = [at |-> now, policy |-> controller.policy, store |-> controller.store,
                                           cands |-> [d \in cands |-> bytes[d]]]]
        /\ UNCHANGED <<now, setBacks, bytes, made, created, used, bound, controller, envelopes, deleted>>

-----------------------------------------------------------------------------
\* stage(), execute() and resume().

Cands(p) == DOMAIN signed[p].cands

\* Mutant: any policy of the executing controller will do.
ConfirmedUnderAnyPolicy(p) ==
    /\ controller.policy.enabled
    /\ signed[p].at <= now
    /\ signed[p].store = controller.store /\ bound = controller.store
    /\ Cardinality(Cands(p)) <= controller.policy.count

\* _validate_confirmation: the operator repeats the digest of this very plan.
Confirmed(p) ==
    /\ controller.policy.enabled
    /\ signed[p].at <= now
    /\ signed[p].store = controller.store /\ bound = controller.store
    /\ Cardinality(Cands(p)) <= controller.policy.count
    /\ Total(Cands(p)) <= controller.policy.total
    /\ signed[p].at - controller.policy.grace = Cutoff(p)
    /\ signed[p].policy = controller.policy

\* Mutant: looks at the age only.
OldEnough(p, d) == created[d] <= Cutoff(p)

StillEligible(p, d) == created[d] <= Cutoff(p) /\ d \notin used

\* Mutant: looks at the row only.
StillThere(p, d) == bytes[d] # Absent

\* _inspect_candidate_generation, with the physical grace.
SameGeneration(p, d) == bytes[d] = signed[p].cands[d] /\ bytes[d].changed <= Cutoff(p)

\* _verify_finalized_tombstone.
FinalizedHolds(p, d) == signed[p].at <= deleted[d].at /\ deleted[d].at <= now /\ bytes[d] = Absent

Finalized(d) == deleted[d].plan # None /\ deleted[d].at # Never

\* validate_decoded_retention_plan.
PlanIsValid(p) ==
    LET s == signed[p]
    IN  /\ s.policy.enabled /\ s.at >= s.policy.grace
        /\ Cands(p) # {} /\ Cardinality(Cands(p)) <= s.policy.count /\ Total(Cands(p)) <= s.policy.total
        /\ \A d \in Cands(p) : s.cands[d].changed <= Cutoff(p)

\* load_plan: what is stored is decoded, validated and of this registry's store.
Loads(p) == p \in envelopes /\ signed[p].store = bound /\ PlanIsValid(p)

\* _preflight_new_intent and _stage; for a stored plan, load_plan first.
Execute(p) ==
    /\ controller.plan = None /\ signed[p] # Unsigned
    /\ Confirmed(p)
    /\ \A d \in Cands(p) : StillEligible(p, d)
    /\ IF p \in envelopes
       THEN Loads(p) /\ \A d \in Cands(p) : Finalized(d) => FinalizedHolds(p, d)
       ELSE \A d \in Cands(p) : deleted[d] = Unmarked /\ SameGeneration(p, d)
    /\ envelopes' = envelopes \cup {p}
    /\ deleted' = [d \in Artifacts |-> IF d \in Cands(p) /\ p \notin envelopes
                                       THEN [plan |-> p, at |-> Never] ELSE deleted[d]]
    /\ controller' = [controller EXCEPT !.plan = p]
    /\ UNCHANGED <<now, setBacks, bytes, made, created, used, bound, signed>>

\* _finalize_candidate, for the candidates in their order.
Finalize(d) ==
    LET p == controller.plan
    IN  /\ p # None /\ d \in Cands(p) /\ ~Finalized(d)
        /\ \A e \in Cands(p) : e < d => Finalized(e)
        /\ SameGeneration(p, d) /\ StillEligible(p, d) /\ signed[p].at <= now
        /\ bytes' = [bytes EXCEPT ![d] = Absent]
        /\ deleted' = [deleted EXCEPT ![d].at = now]
        /\ UNCHANGED <<now, setBacks, made, created, used, bound, controller, signed, envelopes>>

\* The end of execute(), with or without an error, or of its process.
Leave ==
    /\ controller.plan # None
    /\ controller' = [controller EXCEPT !.plan = None]
    /\ UNCHANGED <<now, setBacks, bytes, made, created, used, bound, signed, envelopes, deleted>>

Next ==
    \/ Pass \/ SetBack \/ MakePlan \/ Leave
    \/ \E d \in Artifacts : Publish(d) \/ Restore(d) \/ Link(d) \/ Finalize(d)
    \/ \E p \in Policies, s \in Stores : Construct(p, s)
    \/ \E p \in PlanNumber : Execute(p)

Spec == Init /\ [][Next]_authorityVars

-----------------------------------------------------------------------------
\* The verifier that readiness runs over the stored rows.

\* _verify_retention_candidate: its row, and no link.
CandidateVerifies(p, d) == created[d] <= Cutoff(p) /\ d \notin used

\* _verify_retention_tombstones: one for each candidate, and in order of time.
TombstonesVerify(p) ==
    /\ {d \in Artifacts : deleted[d].plan = p} = Cands(p)
    /\ \A d \in Cands(p) : deleted[d].at = Never \/ signed[p].at <= deleted[d].at

PlansVerify ==
    \A p \in envelopes : /\ signed[p].store = bound /\ PlanIsValid(p)
                         /\ \A d \in Cands(p) : CandidateVerifies(p, d)
                         /\ TombstonesVerify(p)

\* Whatever is planned, staged, resumed under another configuration or under a clock
\* that was set back, the registry that results is one its own verifier accepts: a
\* registry is never taken out of service by what retention did to it.
ReadinessAcceptsRetention == PlansVerify /\ \A d \in Artifacts : deleted[d] # Unmarked => deleted[d].plan \in envelopes

\* Bytes go only under the policy of the controller that removes them: when they go the
\* generation and the row are older than its grace, by the registry's clock, and
\* nothing uses them.
DeletionIsWithinPolicy ==
    [][\A d \in Artifacts : bytes[d] # Absent /\ bytes'[d] = Absent =>
          /\ controller.policy.enabled /\ controller.store = bound /\ d \notin used
          /\ bytes[d].changed + controller.policy.grace <= now
          /\ created[d] + controller.policy.grace <= now
          /\ Total({e \in Artifacts : deleted'[e].plan = controller.plan}) <= controller.policy.total]_authorityVars
=============================================================================
