---------------------------- MODULE MarketPanel ----------------------------
(***************************************************************************)
(* data/ingest.py: the processed price panel and its metadata sidecar, two  *)
(* files, each replaced in one rename, and the run that reuses or rebuilds  *)
(* them.  A run may be killed between the two.                              *)
(*                                                                          *)
(* A panel is modelled by where it comes from: the configuration it was     *)
(* built for, its source, and what is wrong with it.                        *)
(***************************************************************************)
EXTENDS Integers, FiniteSets, Sequences

CONSTANTS
    Configs,   \* data configurations, each with its own fingerprint
    Source,    \* config.source: "auto" or one named source
    Fallback,  \* config.allow_synthetic_fallback
    MaxTries,  \* config.max_retries of the network sources
    MaxFaults, \* bound: answers that fail
    MaxKills,  \* bound: kills
    MaxRuns    \* bound: ingestions

Sources == {"yfinance", "stooq", "nasdaq_data_link", "synthetic"}
\* What may be wrong with a fetched panel: a requested ticker is missing, every row of one
\* of them, or of all, is without a close or outside the dates, or a hard error of validation.py.
Flaws == {"omits", "unpriced", "all_unpriced", "duplicate_rows", "non_positive_price", "high_below_low"}

\* What is left of a flaw when rows without a close or outside the dates are dropped.
Cleaned(flaws) ==
    (flaws \ {"unpriced", "all_unpriced"})
    \cup (IF "unpriced" \in flaws THEN {"uncovered"} ELSE {})
    \cup (IF "all_unpriced" \in flaws THEN {"empty"} ELSE {})

VARIABLES
    panel,   \* price_panel.parquet: config, source and flaws of what it holds, or none
    meta,    \* panel_metadata.json: the config_hash and source it states, or none
    run,     \* the ingestion: where it is, its configuration, its sources left and tries
    fetched, \* the panel it holds in memory
    loaded,  \* what the last ingestion returned, and for which configuration
    count    \* faults, kills and runs so far

vars == <<panel, meta, run, fetched, loaded, count>>

NoPanel == [config |-> "none", source |-> "none", flaws |-> {}]
NoMeta == [config |-> "none", source |-> "none"]
NoRun == [pc |-> "idle", config |-> "none", order |-> <<>>, tries |-> 0]

TypeOK ==
    /\ {panel, fetched} \subseteq [config : Configs \cup {"none"}, source : Sources \cup {"none"}, flaws : SUBSET (Flaws \cup {"uncovered", "empty"})]
    /\ meta \in [config : Configs \cup {"none"}, source : Sources \cup {"none"}]
    /\ run.pc \in {"idle", "fetching", "fetched", "validated", "paneled"}
    /\ run.config \in Configs \cup {"none"} /\ run.tries \in 0..MaxTries
    /\ run.order \in Seq(Sources)
    /\ loaded.config \in Configs \cup {"none"}
    /\ count \in [faults : 0..MaxFaults, kills : 0..MaxKills, runs : 0..MaxRuns]

Init ==
    /\ panel = NoPanel /\ meta = NoMeta /\ run = NoRun /\ fetched = NoPanel
    /\ loaded = [config |-> "none", panel |-> NoPanel]
    /\ count = [faults |-> 0, kills |-> 0, runs |-> 0]

Fault == count.faults < MaxFaults /\ count' = [count EXCEPT !.faults = @ + 1]
End == run' = NoRun /\ fetched' = NoPanel

\* Mutant: the synthetic source is the last resort of every configuration.
OrderWithSynthetic(c) ==
    IF Source[c] = "auto" THEN <<"yfinance", "stooq", "synthetic">> ELSE <<Source[c]>>

\* The sources a configuration allows, in the order they are tried.
Order(c) ==
    IF Source[c] # "auto" THEN <<Source[c]>>
    ELSE <<"yfinance", "stooq">> \o (IF Fallback[c] THEN <<"synthetic">> ELSE <<>>)

\* Mutant: an existing panel is good enough.
FreshIfPresent(c) == panel # NoPanel

\* The fingerprint the metadata states is the configuration's.
Fresh(c) == panel # NoPanel /\ meta.config = c

\* A panel with the fingerprint is loaded unless the run is forced.
Load(c) ==
    /\ run.pc = "idle" /\ count.runs < MaxRuns /\ Fresh(c)
    /\ loaded' = [config |-> c, panel |-> panel]
    /\ count' = [count EXCEPT !.runs = @ + 1]
    /\ UNCHANGED <<panel, meta, run, fetched>>

Rebuild(c, force) ==
    /\ run.pc = "idle" /\ count.runs < MaxRuns /\ (force \/ ~Fresh(c))
    /\ run' = [pc |-> "fetching", config |-> c, order |-> Order(c), tries |-> 0]
    /\ count' = [count EXCEPT !.runs = @ + 1]
    /\ UNCHANGED <<panel, meta, fetched, loaded>>

\* Mutant: a panel without a requested ticker is taken.
UsableWithout(flaws) == TRUE

\* Every requested ticker is in the answer.
Usable(flaws) == "omits" \notin flaws

\* The download client refuses bad rows itself, and the generator makes every ticker's on
\* the same days.
Possible(source) ==
    IF source = "synthetic" THEN {"all_unpriced"}
    ELSE IF source = "nasdaq_data_link" THEN {"omits", "unpriced", "all_unpriced"}
    ELSE Flaws

\* A source answers; what omits a ticker counts as the source's failure.
Fetch ==
    /\ run.pc = "fetching" /\ run.order # <<>>
    /\ \E flaws \in {{}} \cup {{f} : f \in Possible(Head(run.order))} :
        /\ IF flaws = {} THEN UNCHANGED count ELSE Fault
        /\ IF Usable(flaws)
           THEN /\ fetched' = [config |-> run.config, source |-> Head(run.order), flaws |-> flaws]
                /\ run' = [run EXCEPT !.pc = "fetched"]
           ELSE run' = [run EXCEPT !.order = Tail(@), !.tries = 0] /\ UNCHANGED fetched
    /\ UNCHANGED <<panel, meta, loaded>>

\* The network sources try again with backoff, then the next source is tried;
\* the download client has retries of its own and the generator cannot fail.
FetchFails ==
    /\ run.pc = "fetching" /\ run.order # <<>> /\ Head(run.order) # "synthetic"
    /\ Fault
    /\ run' = IF Head(run.order) \in {"yfinance", "stooq"} /\ run.tries + 1 < MaxTries
              THEN [run EXCEPT !.tries = @ + 1]
              ELSE [run EXCEPT !.order = Tail(@), !.tries = 0]
    /\ UNCHANGED <<panel, meta, fetched, loaded>>

\* Every configured source failed: the run raises.
NoSourceLeft ==
    /\ run.pc = "fetching" /\ run.order = <<>>
    /\ End /\ UNCHANGED <<panel, meta, loaded, count>>

\* Mutant: the report is logged, not raised.
ValidAlways(flaws) == TRUE

\* validate_price_panel raises on every hard error.
Valid(flaws) == flaws \cap {"duplicate_rows", "non_positive_price", "high_below_low", "empty"} = {}

\* Rows are dropped before validation, which looks for no ticker in particular.  The raw
\* audit files come first; a refused panel leaves only those behind.
Validate ==
    /\ run.pc = "fetched"
    /\ IF Valid(Cleaned(fetched.flaws))
       THEN /\ run' = [run EXCEPT !.pc = "validated"]
            /\ fetched' = [fetched EXCEPT !.flaws = Cleaned(fetched.flaws)]
       ELSE End
    /\ UNCHANGED <<panel, meta, loaded, count>>

ReplacePanel ==
    /\ run.pc = "validated"
    /\ panel' = fetched
    /\ run' = [run EXCEPT !.pc = "paneled"]
    /\ UNCHANGED <<meta, fetched, loaded, count>>

ReplaceMetadata ==
    /\ run.pc = "paneled"
    /\ meta' = [config |-> run.config, source |-> fetched.source]
    /\ loaded' = [config |-> run.config, panel |-> fetched]
    /\ End /\ UNCHANGED <<panel, count>>

Kill ==
    /\ run.pc # "idle" /\ count.kills < MaxKills
    /\ count' = [count EXCEPT !.kills = @ + 1]
    /\ End /\ UNCHANGED <<panel, meta, loaded>>

Ingest ==
    \/ \E c \in Configs : Load(c) \/ \E force \in BOOLEAN : Rebuild(c, force)
    \/ Fetch \/ NoSourceLeft \/ Validate \/ ReplacePanel \/ ReplaceMetadata
Next == Ingest \/ FetchFails \/ Kill

Spec == Init /\ [][Next]_vars

-----------------------------------------------------------------------------
\* Whatever failed or was killed, the panel on disk and the one a run returned
\* are without a hard error, from a source that answered for every requested ticker
\* and that the configuration they were built for allows: synthetic data only where
\* it was asked for.  A ticker may only be gone with its dropped rows.
PanelsAreValid ==
    \A p \in {panel, loaded.panel} \ {NoPanel} :
        p.flaws \subseteq {"uncovered"} /\ \E i \in 1..Len(Order(p.config)) : Order(p.config)[i] = p.source
SyntheticWasAskedFor ==
    \A p \in {panel, loaded.panel} \ {NoPanel} :
        p.source = "synthetic" => Source[p.config] = "synthetic" \/ Fallback[p.config]

\* Without a kill, what a run returns was built for its configuration.
UnkilledPanelsMatch == count.kills = 0 /\ loaded.config # "none" => loaded.panel.config = loaded.config

PanelsAreSound == PanelsAreValid /\ SyntheticWasAskedFor /\ UnkilledPanelsMatch

\* "Ingestion checks ... complete coverage of the requested ticker list" (docs/data_card.md):
\* not of what is left when rows without a close or outside the dates are dropped.
RequestedTickersAreCovered ==
    \A p \in {panel, loaded.panel} : p.flaws \cap {"omits", "uncovered"} = {}

\* "A cached panel is reused only when its fingerprint matches."  Not so after
\* a kill between the two files: the old metadata vouches for the new panel.
ReusedPanelMatches == loaded.config # "none" => loaded.panel.config = loaded.config
=============================================================================
