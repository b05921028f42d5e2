--------------------------- MODULE ShadowCampaign ---------------------------
(***************************************************************************)
(* One shadow campaign in quant_platform.shadow.store: its lifecycle, the   *)
(* sealed batches and the appended outcome revisions.  Callers are separate *)
(* processes over one SQLite file.  Each operation first reads on its own   *)
(* and only then opens the write: every read and every committed write is a *)
(* step, and a caller may die between them or before it hears the answer.   *)
(***************************************************************************)
EXTENDS Integers, Sequences, FiniteSets

CONSTANTS
    Callers,         \* processes that use the store
    Instants,        \* decision instants (as_of)
    Opinions,        \* contents a batch for one instant may have
    Labels,          \* realised class labels
    MaxRevision,     \* bound: outcome revision numbers
    MaxLog           \* bound: recorded transitions

VARIABLES
    state,    \* sl_shadow_campaigns.state, "none" before create_campaign
    log,      \* sl_shadow_campaign_transitions
    batches,  \* sl_shadow_batches with their forecasts
    outcomes, \* sl_shadow_outcomes
    call,     \* where each caller is
    told      \* what the store has acknowledged to some caller

vars == <<state, log, batches, outcomes, call, told>>

\* A batch stands for its one forecast: both identities derive from the content.
Batch == [asof : Instants, opinion : Opinions]
\* `early`: observed at or before the instant of its forecast.
Outcome == [batch : Batch, revision : 0..MaxRevision, seen : Labels, early : BOOLEAN]
           \cup [batch : Batch, revision : 0..MaxRevision, seen : {"pending"}, early : {FALSE}]

Terminal == {"closed", "abandoned"}
CampaignStates == {"draft", "active", "sealed", "reconciling"} \cup Terminal

\* ALLOWED_CAMPAIGN_TRANSITIONS
Allowed(s) ==
    CASE s = "draft"       -> {"active", "abandoned"}
      [] s = "active"      -> {"sealed", "abandoned"}
      [] s = "sealed"      -> {"reconciling", "abandoned"}
      [] s = "reconciling" -> {"closed", "abandoned"}
      [] OTHER             -> {}

Idle == [pc |-> "idle"]
Calls ==
    {Idle} \cup [pc : {"move"}, from : CampaignStates, to : CampaignStates]
           \cup [pc : {"check", "seal"}, batch : Batch]
           \cup [pc : {"append"}, outcome : Outcome]

TypeOK ==
    /\ state \in CampaignStates \cup {"none"}
    /\ log \in Seq([from : CampaignStates, to : CampaignStates]) /\ Len(log) <= MaxLog
    /\ batches \subseteq Batch /\ outcomes \subseteq Outcome
    /\ \A o \in outcomes : o.batch \in batches
    /\ call \in [Callers -> Calls]
    /\ told \subseteq Batch \cup Outcome

Init ==
    /\ state = "none" /\ log = <<>> /\ batches = {} /\ outcomes = {}
    /\ call = [c \in Callers |-> Idle] /\ told = {}

Return(c) == call' = [call EXCEPT ![c] = Idle]

\* The answer may be lost: the process dies between COMMIT and its return.
Acknowledge(c, what) == Return(c) /\ told' \in {told, told \cup {what}}
Refuse(c) == Return(c) /\ UNCHANGED told

-----------------------------------------------------------------------------
Create ==
    /\ state = "none" /\ state' = "draft"
    /\ UNCHANGED <<log, batches, outcomes, call, told>>

\* transition(): the state is read, and the transition checked, on a connection of its own.
ReadState(c, target) ==
    /\ call[c] = Idle /\ state # "none"
    /\ target \in Allowed(state)
    /\ call' = [call EXCEPT ![c] = [pc |-> "move", from |-> state, to |-> target]]
    /\ UNCHANGED <<state, log, batches, outcomes, told>>

\* Mutant: without the trigger on terminal states.
MayLeaveAny == TRUE

\* Trigger sl_shadow_campaigns_state_forward_only.
MayLeave == state \notin Terminal

\* Mutant: the failed UPDATE is not rolled back together with the log row.
WriteStateUnatomic(c) ==
    /\ call[c].pc = "move" /\ Len(log) < MaxLog
    /\ state' = IF MayLeave THEN call[c].to ELSE state
    /\ log' = Append(log, [from |-> call[c].from, to |-> call[c].to])
    /\ Refuse(c)
    /\ UNCHANGED <<batches, outcomes>>

\* The write transaction does not look at the state again.
WriteState(c) ==
    /\ call[c].pc = "move" /\ Len(log) < MaxLog
    /\ IF MayLeave
       THEN /\ state' = call[c].to
            /\ log' = Append(log, [from |-> call[c].from, to |-> call[c].to])
       ELSE UNCHANGED <<state, log>>
    /\ Refuse(c)
    /\ UNCHANGED <<batches, outcomes>>

-----------------------------------------------------------------------------
\* seal_batch(): first campaign_state() ...
BeginSeal(c, b) ==
    /\ call[c] = Idle /\ state = "active"
    /\ call' = [call EXCEPT ![c] = [pc |-> "check", batch |-> b]]
    /\ UNCHANGED <<state, log, batches, outcomes, told>>

\* ... then the batch stored for the instant, if any ...
CheckSeal(c) ==
    LET b == call[c].batch
    IN  /\ call[c].pc = "check"
        /\ \/ b \in batches /\ Acknowledge(c, b)
           \/ /\ \E other \in batches \ {b} : other.asof = b.asof
              /\ Refuse(c)
           \/ /\ ~\E stored \in batches : stored.asof = b.asof
              /\ call' = [call EXCEPT ![c].pc = "seal"] /\ UNCHANGED told
        /\ UNCHANGED <<state, log, batches, outcomes>>

\* Mutant: no unique index on the decision instant.
SealableIfNew(b) == b \notin batches

\* UNIQUE(campaign, as_of)
Sealable(b) == ~\E stored \in batches : stored.asof = b.asof

\* ... and at last the insertion of the batch with all its forecasts.
WriteSeal(c) ==
    LET b == call[c].batch
    IN  /\ call[c].pc = "seal"
        /\ IF Sealable(b)
           THEN batches' = batches \cup {b} /\ Acknowledge(c, b)
           ELSE UNCHANGED batches /\ Refuse(c)
        /\ UNCHANGED <<state, log, outcomes>>

-----------------------------------------------------------------------------
History(b) == {o \in outcomes : o.batch = b}
SameRevision(o) == {p \in History(o.batch) : p.revision = o.revision}

\* Mutant: without the look at the forecast (and its foreign key).
CheckOutcomeOfAny(c, o) ==
    /\ call[c] = Idle
    /\ SameRevision(o) = {}
    /\ call' = [call EXCEPT ![c] = [pc |-> "append", outcome |-> o]]
    /\ UNCHANGED <<state, log, batches, outcomes, told>>

\* append_outcome(): the forecast and the revision are looked up in autocommit mode.
\* The forecast's as_of is selected and not compared with observed_at, and revisions
\* are taken in any order.
CheckOutcome(c, o) ==
    /\ call[c] = Idle
    /\ o.batch \in batches
    /\ \/ o \in outcomes /\ Acknowledge(c, o)
       \/ SameRevision(o) \ {o} # {} /\ Refuse(c)
       \/ /\ SameRevision(o) = {}
          /\ call' = [call EXCEPT ![c] = [pc |-> "append", outcome |-> o]]
          /\ UNCHANGED told
    /\ UNCHANGED <<state, log, batches, outcomes>>

\* Mutant: INSERT OR IGNORE.
WriteOutcomeOrIgnore(c) ==
    LET o == call[c].outcome
    IN  /\ call[c].pc = "append"
        /\ outcomes' = IF SameRevision(o) = {} THEN outcomes \cup {o} ELSE outcomes
        /\ Acknowledge(c, o)
        /\ UNCHANGED <<state, log, batches>>

\* Mutant: no unique index, the same revision is stored twice.
WriteOutcomeTwice(c) ==
    LET o == call[c].outcome
    IN  /\ call[c].pc = "append"
        /\ outcomes' = outcomes \cup {o}
        /\ Acknowledge(c, o)
        /\ UNCHANGED <<state, log, batches>>

\* UNIQUE(forecast_id, revision)
WriteOutcome(c) ==
    LET o == call[c].outcome
    IN  /\ call[c].pc = "append"
        /\ IF SameRevision(o) = {}
           THEN outcomes' = outcomes \cup {o} /\ Acknowledge(c, o)
           ELSE UNCHANGED outcomes /\ Refuse(c)
        /\ UNCHANGED <<state, log, batches>>

Die(c) ==
    /\ call[c] # Idle
    /\ Refuse(c)
    /\ UNCHANGED <<state, log, batches, outcomes>>

Next ==
    \/ Create
    \/ \E c \in Callers :
         \/ \E target \in CampaignStates : ReadState(c, target)
         \/ WriteState(c)
         \/ \E b \in Batch : BeginSeal(c, b)
         \/ CheckSeal(c) \/ WriteSeal(c)
         \/ \E o \in Outcome : CheckOutcome(c, o)
         \/ WriteOutcome(c)
         \/ Die(c)

Spec == Init /\ [][Next]_vars

-----------------------------------------------------------------------------
\* _select_revision of quant_platform.shadow.reports
Observed(b) == {o \in History(b) : o.seen \in Labels}

\* Mutant: first-eligible takes the newest observed revision.
SelectNewest(b) == {o \in Observed(b) : \A p \in Observed(b) : o.revision >= p.revision}

FirstEligible(b) == {o \in Observed(b) : \A p \in Observed(b) : o.revision <= p.revision}
LatestKnown(b)   == {o \in Observed(b) : \A p \in Observed(b) : o.revision >= p.revision}

-----------------------------------------------------------------------------
\* One decision instant has one opinion, whoever races to seal it.
OneOpinionPerInstant == \A b1, b2 \in batches : b1.asof = b2.asof => b1 = b2

\* What a caller was told is stored, exactly as it was offered, whatever other
\* callers did between the lookup and the insertion.
AcknowledgedIsStored == told \subseteq batches \cup outcomes

\* The recorded transitions end in the state the campaign is in.
LogEndsInState == log # <<>> => state = log[Len(log)].to

\* The two report bases are unambiguous: at most one revision qualifies for each, and
\* they name a forecast together or not at all.
BasesAreDetermined ==
    \A b \in batches :
        /\ Cardinality(FirstEligible(b)) = Cardinality(LatestKnown(b))
        /\ Cardinality(FirstEligible(b)) <= 1

\* A terminal campaign accepts nothing, not even a transition checked before it ended.
TerminalIsFinal == [][(state \in Terminal) => state' = state]_vars

\* Forward-only: a campaign that has left ACTIVE never gets back to it, by any race of
\* callers, and no forecast is added to it any more.
LeavingActiveIsFinal ==
    [][state \notin {"none", "draft", "active"} => state' # "active" /\ batches' = batches]_vars

\* Re-sealing the identical batch is a success: no caller is about to insert a batch
\* that is already stored, an insertion that fails instead of returning the identity.
ResealingIsASuccess ==
    \A c \in Callers : call[c].pc = "seal" => call[c].batch \notin batches

\* What a live consumer could first have known gives way only to an observation that is
\* recorded later under a lower revision, never to a correction, to a revision that is
\* pending or to another caller's record of the same revision; and it never goes away.
FirstEligibleIsStable ==
    [][\A b \in batches : FirstEligible(b) # {} =>
          \/ FirstEligible(b)' = FirstEligible(b)
          \/ \E o \in outcomes' \ outcomes :
                /\ FirstEligible(b)' = {o}
                /\ \A p \in FirstEligible(b) : o.revision < p.revision]_vars

\* Reports can always be built: no outcome a report would score was observed at or
\* before the instant of its forecast (build_report raises ChronologyError).
ReportsCanBeBuilt == \A b \in batches : \A o \in FirstEligible(b) \cup LatestKnown(b) : ~o.early
=============================================================================
