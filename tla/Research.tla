------------------------------ MODULE Research ------------------------------
(***************************************************************************)
(* The research pipeline's parts side by side, from the provider to the     *)
(* held position: the download client (MarketDownload), the processed panel *)
(* (MarketPanel), feature windows (FeatureWindows), the feature store       *)
(* (FeatureObjects), the backfill that fills it (FeatureBackfill), the      *)
(* walk-forward evaluation (WalkForward), the exported bundles              *)
(* (SignalBundle), and the evidence on which a model may be promoted        *)
(* (GovernanceEvidence).  They meet in files and not in steps, so a         *)
(* behaviour is about one of them.                                          *)
(***************************************************************************)
EXTENDS FeatureBackfill, Sequences

CONSTANTS
    Clients, NumPages, Generations, MaxRetries, MaxRequests, Modes, MaxMishaps,     \* MarketDownload
    Configs, Source, Fallback, MaxTries, MaxRuns,                                   \* MarketPanel
    Last, W, Lag, Horizon, MaxGaps, MaxHoles,                                       \* FeatureWindows
    Requests, Contents, Evidence, Unfit, Writers, Tensors, TensorWriters,           \* FeatureObjects
    MaxObjectFaults, MaxLosses,
    LastBar, Assets, Embargo, NSplits, TestSize, MinTrain, TailShare, ExecutionLag, \* WalkForward
    Families,
    Exporters, Panels, Years, Times, Ids, MaxKills,                                 \* SignalBundle
    Labels, Days, MaxCorrections, MaxEarly, MayBeMissing, MaxStored, Policy,        \* GovernanceEvidence
    Scale, PValues, Tests, Samples

ASSUME DownloadAssumption ==
    /\ NumPages \in Nat \ {0} /\ MaxRetries \in Nat /\ MaxRequests \in Nat \ {0}
    /\ MaxMishaps \in Nat /\ MaxKills \in Nat
    /\ Modes \subseteq {"prefer_cache", "network", "cache_only"}
    /\ {"malformed", "unfit", "none"} \cap Generations = {}
    /\ {"free", "orphan"} \cap Clients = {}

\* config.DataConfig takes no other source.
ASSUME PanelAssumption ==
    /\ Configs # {} /\ "none" \notin Configs
    /\ Source \in [Configs -> {"auto", "yfinance", "stooq", "nasdaq_data_link", "synthetic"}]
    /\ Fallback \in [Configs -> BOOLEAN]
    /\ MaxTries \in Nat \ {0} /\ MaxRuns \in Nat

ASSUME WindowsAssumption ==
    /\ Last \in Nat /\ W \in Nat /\ W >= 3 /\ Lag \in 1..(W - 1)
    /\ Horizon \in Nat \ {0} /\ MaxGaps \in Nat /\ MaxHoles \in Nat

ASSUME ObjectsAssumption ==
    /\ Unfit \subseteq Contents /\ Writers \cap TensorWriters = {} /\ "free" \notin Writers
    /\ MaxObjectFaults \in Nat /\ MaxLosses \in Nat

\* config.ModelConfig, CVConfig and BacktestConfig refuse any other values.
ASSUME WalkForwardAssumption ==
    /\ LastBar \in Nat /\ IsFiniteSet(Assets)
    /\ Embargo \in Nat /\ Embargo >= Horizon
    /\ NSplits \in Nat \ {0} /\ TestSize \in Nat \ {0} /\ MinTrain \in Nat \ {0}
    /\ TailShare \in Nat \ {0, 1} /\ ExecutionLag \in Nat \ {0, 1}
    /\ Families \subseteq {"plain", "ensemble", "temporal"}

ASSUME BundleAssumption ==
    /\ Years \in [Panels -> SUBSET Nat] /\ \A p \in Panels : Years[p] # {}
    /\ Times \subseteq Nat /\ "none" \notin Panels

ASSUME RecommendationAssumption ==
    /\ Days \in Nat \ {0} /\ MaxStored \in Nat
    /\ MaxCorrections \in Nat /\ MaxEarly \in Nat
    /\ Scale \in Nat \ {0} /\ PValues \subseteq 0..Scale /\ Tests \subseteq Nat
    /\ Labels # {} /\ "none" \notin Labels
    /\ Policy \in [days : Nat, dates : Nat, pairs : Nat, covered : Nat \X Nat, alpha : Nat]
    /\ Policy.covered[1] <= Policy.covered[2]
    /\ Samples \subseteq Seq([name : Tests, p : PValues,
                             verdict : {"challenger", "champion", "inconclusive", "underpowered"}])

VARIABLES
    subject,                                                        \* what this behaviour is about
    downloadLock, pages, snapshots, latest, client, served, mishaps,
    panel, meta, run, fetched, loaded, count,
    gaps, holes, built, range,
    rowOf, objects, unflushed, draft, reports, lock, task, acked, store, glitches, losses,
    prices, frame, scheme, kind, fold, blocks, positions, stage,
    staging, bundles, exporter, granted, kills, records,
    day, issued, truth, history, decision, left

downloadVars == <<downloadLock, pages, snapshots, latest, client, served, mishaps>>
panelVars == <<panel, meta, run, fetched, loaded, count>>
windowVars == <<gaps, holes, built, range>>
objectVars == <<rowOf, objects, unflushed, draft, reports, lock, task, acked, store, glitches, losses>>
walkVars == <<prices, frame, scheme, kind, fold, blocks, positions, stage>>
bundleVars == <<staging, bundles, exporter, granted, kills, records>>
evidenceVars == <<day, issued, truth, history, decision, left>>
researchVars == <<subject, vars, downloadVars, panelVars, windowVars, objectVars, walkVars, bundleVars, evidenceVars>>

Download == INSTANCE MarketDownload WITH lock <- downloadLock, staging <- pages, MaxFaults <- MaxMishaps
Ingestion == INSTANCE MarketPanel
Windows == INSTANCE FeatureWindows
Objects == INSTANCE FeatureObjects WITH catalog <- rowOf, job <- task, staging <- draft, faults <- glitches,
                                        MaxFaults <- MaxObjectFaults
Walk == INSTANCE WalkForward WITH Last <- LastBar, Kinds <- Families, panel <- prices, held <- positions
Bundle == INSTANCE SignalBundle
Promotion == INSTANCE GovernanceEvidence WITH MaxRevision <- MaxStored, Families <- Samples

Subjects == {"download", "panel", "windows", "objects", "backfill", "walk", "bundle", "view", "promotion"}

ResearchInit ==
    /\ subject \in Subjects
    /\ Init /\ Download!Init /\ Ingestion!Init
    /\ IF subject = "windows" THEN Windows!Init ELSE Windows!Start({}, {})
    /\ IF subject = "walk" THEN Walk!Init ELSE Walk!Start({}, "expanding", "plain")
    /\ IF subject = "view" THEN Bundle!Init ELSE Bundle!Start({})
    /\ Promotion!Init
    /\ Objects!Init /\ (subject # "objects" => store = "features")

OthersThanBackfill ==
    <<subject, downloadVars, panelVars, windowVars, objectVars, walkVars, bundleVars, evidenceVars>>

\* The other parts may come to an end, and rest.
ResearchNext ==
    \/ subject = "backfill" /\ Next /\ UNCHANGED OthersThanBackfill
    \/ /\ UNCHANGED <<subject, vars>>
       /\ \/ subject = "download" /\ Download!Next
             /\ UNCHANGED <<panelVars, windowVars, objectVars, walkVars, bundleVars, evidenceVars>>
          \/ subject = "panel" /\ Ingestion!Next
             /\ UNCHANGED <<downloadVars, windowVars, objectVars, walkVars, bundleVars, evidenceVars>>
          \/ subject = "windows" /\ Windows!Next
             /\ UNCHANGED <<downloadVars, panelVars, objectVars, walkVars, bundleVars, evidenceVars>>
          \/ subject = "objects" /\ Objects!Next
             /\ UNCHANGED <<downloadVars, panelVars, windowVars, walkVars, bundleVars, evidenceVars>>
          \/ subject = "walk" /\ Walk!Next
             /\ UNCHANGED <<downloadVars, panelVars, windowVars, objectVars, bundleVars, evidenceVars>>
          \/ subject = "bundle" /\ Bundle!Next
             /\ UNCHANGED <<downloadVars, panelVars, windowVars, objectVars, walkVars, evidenceVars>>
          \/ subject = "promotion" /\ Promotion!Next
             /\ UNCHANGED <<downloadVars, panelVars, windowVars, objectVars, walkVars, bundleVars>>
          \/ subject # "backfill" /\ UNCHANGED OthersThanBackfill

\* An operator runs the plan again whenever a run has ended, and no run hangs.
ResearchSpec ==
    /\ ResearchInit /\ [][ResearchNext]_researchVars
    /\ WF_researchVars(subject = "backfill" /\ Step /\ UNCHANGED OthersThanBackfill)

-----------------------------------------------------------------------------
\* The types of all.
ResearchTypeOK ==
    /\ subject = "backfill" => TypeOK
    /\ subject = "download" => Download!TypeOK
    /\ subject = "panel" => Ingestion!TypeOK
    /\ subject = "objects" => Objects!TypeOK
    /\ subject = "walk" => Walk!TypeOK
    /\ subject = "bundle" => Bundle!TypeOK
    /\ subject = "promotion" => Promotion!TypeOK

\* A completed partition, a published object and a stored one never change, and a
\* request stays bound to its object (FeatureBackfill, FeatureObjects).
StoredIsFinal == CompletedIsFinal /\ Objects!PublishedIsFinal

\* A plan run again and again is published (FeatureBackfill).
PlanIsPublishedInTheEnd == subject = "backfill" => PlanIsPublishedUnlessWedged

\* What a caller of the feature store was given is there and whole, and nobody is
\* refused over what a killed writer left behind (FeatureObjects); a backfill's object
\* is the assembly of all its checkpoints, and every end of a run but a kill is
\* recorded (FeatureBackfill).
FeatureStoreHolds ==
    /\ subject = "objects" => /\ Objects!AcknowledgedIsServed /\ Objects!RowsHaveObjects
                              /\ Objects!OnlyDifferentContentIsRefused
    /\ subject = "backfill" => PublishedIsWhole /\ EveryOtherEndIsRecorded

\* A contract's value is of its whole window alone, features are of the past and
\* labels of the future, a partition's rows are the whole panel's (FeatureWindows).
FeaturesAreSound ==
    subject = "windows" =>
        Windows!WindowsAreWhole /\ Windows!NothingIsReadAhead /\ Windows!PartitionsAgreeOnFullRows

\* Cached snapshots can be replayed and budgets are kept (MarketDownload).
DownloadsAreSound == subject = "download" => Download!DownloadsAreSound

\* Panels are validated and from an allowed source that answered for all (MarketPanel).
PanelsAreSound == subject = "panel" => Ingestion!PanelsAreSound

\* No forecast or position rests on what it forecasts (WalkForward), and no outcome an
\* arm could have read, day drawn too often or test left out makes a promotion
\* (GovernanceEvidence).
EvaluationIsOutOfSample ==
    /\ subject = "walk" => Walk!ForecastsAreOutOfSample
    /\ subject = "promotion" => Promotion!RecommendationHolds

\* Exported bundles are whole and views are point in time (SignalBundle).
BundlesAreSound == subject \in {"bundle", "view"} => Bundle!BundlesAreSound
=============================================================================
