------------------------------- MODULE Stores -------------------------------
(***************************************************************************)
(* The durable stores side by side: the artifact store's system calls       *)
(* (CasStore) and the binding of its handles (CasIdentity), the shadow      *)
(* campaigns (ShadowCampaign), the governance lanes (GovernanceLane), the   *)
(* registry's schema (RegistryMigration), the pages read from it            *)
(* (EvidenceReads), the experiment trackers (ExperimentRecords) and the     *)
(* lanes' read side (LaneReads, over the lanes' own tables).  They share no *)
(* other state, so a behaviour is about one of them.                        *)
(***************************************************************************)
EXTENDS CasStore

CONSTANTS
    Handles, Externally, Ports, MaxRoots, MaxDeaths, MaxMounts,                            \* CasIdentity
    Callers, Instants, Opinions, Labels, MaxRevision, MaxLog,                       \* ShadowCampaign
    Revisions, Details, IdempotencyKeys, RecordKinds, MaxEvents,                    \* GovernanceLane
    NoKey, NoRevision, NoTrigger,
    Initializers, Probers, Compiled, KeyOf, Unkeyed, Found, MigrationCasts,         \* RegistryMigration
    MaxSidecars, MaxKills,
    States, Fresh, RunIds, Statuses, Filters, All, Base, PageSize,                  \* EvidenceReads
    Roles, MaxJobs, MaxChanges, MaxRuns, MaxLinks,
    Runs, Suppresses,                                                               \* ExperimentRecords
    ReadRevisions, ReadDetails, ReadKinds, MaxReadEvents, Ceiling, Projected, Identities,      \* LaneReads
    LanePageSize, MaxAltered

ASSUME IdentityAssumption ==
    /\ Externally \subseteq Handles /\ Ports \subseteq Handles
    /\ MaxRoots \in Nat \ {0} /\ MaxDeaths \in Nat /\ MaxMounts \in Nat

ASSUME CampaignAssumption ==
    /\ MaxRevision \in Nat /\ MaxLog \in Nat
    /\ "pending" \notin Labels

ASSUME LaneAssumption ==
    /\ MaxEvents \in Nat
    /\ NoKey \notin IdempotencyKeys
    /\ RecordKinds \subseteq {"assignment", "request", "freeze", "monitoring"}
    /\ NoRevision \notin Revisions /\ NoTrigger \notin Details

ASSUME MigrationAssumption ==
    /\ Compiled \in [Initializers \cup Probers -> 1..3]
    /\ MaxSidecars \in Nat /\ MaxKills \in Nat

ASSUME ReadsAssumption ==
    /\ All \notin States \cup Statuses /\ Fresh \in States
    /\ Base \in Nat \ {0} /\ PageSize \in Nat \ {0}
    /\ MaxJobs \in Nat /\ MaxChanges \in Nat /\ MaxRuns \in Nat /\ MaxLinks \in Nat
    /\ Suppresses \in BOOLEAN

ASSUME LaneReadsAssumption ==
    /\ Ceiling \in Nat /\ Projected \in Nat \ {0} /\ LanePageSize \in Nat \ {0}
    /\ Identities \subseteq Nat \ {0} /\ MaxAltered \in Nat /\ MaxReadEvents \in Nat
    /\ NoRevision \notin ReadRevisions /\ NoTrigger \notin ReadDetails
    /\ ReadKinds \subseteq {"assignment", "request", "freeze", "monitoring"}

VARIABLES
    part,                                     \* what this behaviour is about
    path, roots, handle, used, registry, answer, deaths, mounts,
    state, log, batches, outcomes, call, told,
    events, head, approved, reader, alarm, around,
    db, writer, open, wal, made, proc, kills,
    jobs, changes, runs, legacy, links, reading, expected, topic,
    backend, phase, status, pending, notes, raised, file, rows, logged, listing,
    asked, altered, request, lanes, pager

identityVars == <<path, roots, handle, used, registry, answer, deaths, mounts>>
shadowVars == <<state, log, batches, outcomes, call, told>>
laneVars == <<events, head, approved, reader, alarm, around>>
migrationVars == <<db, writer, open, wal, made, proc, kills>>
readsVars == <<jobs, changes, runs, legacy, links, reading, expected, topic>>
recordsVars == <<backend, phase, status, pending, notes, raised, file, rows, logged, listing>>
queryVars == <<asked, altered, request, lanes, pager>>
storesVars == <<part, vars, identityVars, shadowVars, laneVars, migrationVars, readsVars, recordsVars, queryVars>>

Identity == INSTANCE CasIdentity
Shadow == INSTANCE ShadowCampaign
Lane == INSTANCE GovernanceLane
Migration == INSTANCE RegistryMigration WITH Casts <- MigrationCasts
Reads == INSTANCE EvidenceReads WITH events <- changes, MaxEvents <- MaxChanges
Records == INSTANCE ExperimentRecords
Queries == INSTANCE LaneReads WITH Revisions <- ReadRevisions, Details <- ReadDetails,
                                   RecordKinds <- ReadKinds, MaxEvents <- MaxReadEvents

\* The databases that are found are those the migrations left, whole or with a gap, and
\* tables without a ledger: no ledger records what is not there, and an id is a row of a table.
ASSUME FoundAssumption ==
    /\ Unkeyed \notin Initializers \cup Probers
    /\ \A d \in Found : /\ d \in Migration!Database
                        /\ d.ledger # {} => d.objects = d.ledger
                        /\ d.ledger \cup d.objects = {} => d.id = Unkeyed

StoresParts == {"cas", "identity", "shadow", "lane", "migration", "reads", "records", "queries"}

StoresStart(p) ==
    /\ part = p
    /\ Init /\ (p # "cas" => \A q \in Publishers : pub[q] = Away)
    /\ Identity!Init /\ Shadow!Init
    /\ IF p = "queries" THEN Queries!ReadsInit ELSE Lane!Init /\ Queries!NotAsked
    /\ Migration!Init /\ (p # "migration" => db = Migration!Missing /\ \A q \in Initializers : proc[q] = Migration!Away)
    /\ Reads!Init /\ (p # "reads" => topic = "jobs")
    /\ Records!Init /\ (p # "records" => backend = "json")

StoresInit == \E p \in StoresParts : StoresStart(p)

\* A closed campaign to which nothing can be added stops, and so do the experiments
\* when the last listing has ended.
StoresNext ==
    /\ UNCHANGED part
    /\ \/ part = "cas" /\ Next
          /\ UNCHANGED <<identityVars, shadowVars, laneVars, migrationVars, readsVars, recordsVars, queryVars>>
       \/ part = "identity" /\ Identity!Next
          /\ UNCHANGED <<vars, shadowVars, laneVars, migrationVars, readsVars, recordsVars, queryVars>>
       \/ part = "shadow" /\ Shadow!Next
          /\ UNCHANGED <<vars, identityVars, laneVars, migrationVars, readsVars, recordsVars, queryVars>>
       \/ part = "lane" /\ Lane!Next
          /\ UNCHANGED <<vars, identityVars, shadowVars, migrationVars, readsVars, recordsVars, queryVars>>
       \/ part = "migration" /\ Migration!Next
          /\ UNCHANGED <<vars, identityVars, shadowVars, laneVars, readsVars, recordsVars, queryVars>>
       \/ part = "reads" /\ Reads!Next
          /\ UNCHANGED <<vars, identityVars, shadowVars, laneVars, migrationVars, recordsVars, queryVars>>
       \/ part = "records" /\ Records!Next
          /\ UNCHANGED <<vars, identityVars, shadowVars, laneVars, migrationVars, readsVars, queryVars>>
       \/ part = "queries" /\ Queries!ReadsNext
          /\ UNCHANGED <<vars, identityVars, shadowVars, migrationVars, readsVars, recordsVars>>
       \/ part \in {"shadow", "migration", "records"} /\ UNCHANGED storesVars

StoresSpec == StoresInit /\ [][StoresNext]_storesVars

-----------------------------------------------------------------------------
\* The types of all.
StoresTypeOK ==
    /\ part = "cas" => TypeOK
    /\ part = "identity" => Identity!TypeOK
    /\ part = "shadow" => Shadow!TypeOK
    /\ part = "lane" => Lane!TypeOK
    /\ part = "migration" => Migration!TypeOK
    /\ part = "reads" => Reads!TypeOK
    /\ part = "records" => Records!TypeOK
    /\ part = "queries" => Queries!ReadsTypeOK

\* What a publication acknowledged is readable and outlives the power, unless its entry
\* was left unflushed by a publisher that failed; a link under
\* .staging is hidden from readers and listings and belongs to a call under way or a
\* process that was killed (CasStore).
PublicationHolds ==
    part = "cas" => /\ AcknowledgedIsReadable /\ AcknowledgedIsDurable
                    /\ TransientLinksAreHidden /\ StagingBelongsToALiveCall

\* A listing that came to its end is complete: an inventory of the store (CasStore), and
\* pages put together are what was there when the first was read (EvidenceReads).
ListingsAreComplete ==
    /\ part = "cas" => ListingIsComplete
    /\ part = "reads" => Reads!PagesAreTheSnapshot /\ Reads!PagesArePrefixes

\* A root whose creation died half way is never bound, and no operation leaves the
\* store its handle was bound to (CasIdentity).
OperationsStayInTheirStore ==
    part = "identity" => Identity!BoundRootsAreComplete /\ Identity!OperationsStayInTheirStore

\* One sealed opinion per instant, kept and acknowledged in order; the log ends in
\* the state, and a report's revisions follow from what is stored (ShadowCampaign).
ShadowEvidenceHolds ==
    part = "shadow" => /\ Shadow!OneOpinionPerInstant /\ Shadow!AcknowledgedIsStored
                       /\ Shadow!LogEndsInState /\ Shadow!BasesAreDetermined

\* A lane's head is what its events produce, in one line of succession, and what is read
\* of it while it moves is accounted for by its events (GovernanceLane, LaneReads).
LaneHolds ==
    /\ part = "lane" => Lane!HeadReplays /\ Lane!ChampionsFollow
    /\ part = "queries" => Queries!LaneReadsHold

\* What is decided stays: a closed campaign, the first eligible batch, a freeze until
\* its release, a root's creator (ShadowCampaign, GovernanceLane, CasIdentity).
DecisionsAreFinal ==
    /\ Shadow!TerminalIsFinal /\ Shadow!FirstEligibleIsStable
    /\ Lane!FreezeHolds /\ Identity!OneCreatorPerRoot

\* What a caller is told is true: whoever was told the registry is ready has all of it, if
\* nobody took objects from under its ledger (FoundAssumption), and only a replaced sidecar refuses a sound one (RegistryMigration); the body's
\* exception reaches its caller, and what succeeded was stored (ExperimentRecords).
AnswersAreTrue ==
    /\ part = "migration" => Migration!AcceptedIsWhole /\ Migration!OnlyAReplacementRefuses
    /\ part = "records" => Records!PrimaryIsRaised /\ Records!SuccessIsRecorded

\* A page is a snapshot and an unlink takes the generation it inspected; a migration
\* commits whole or not at all; a directory listing returns everything that was there
\* throughout (CasStore, RegistryMigration, ExperimentRecords).
StepsAreExact ==
    /\ PageIsASnapshot /\ OnlyTheInspectedGenerationGoes /\ AbsenceIsProved
    /\ Migration!CommitsAreWhole /\ Records!ListedIsEverything /\ Identity!AnswersAreCurrent
=============================================================================
