---------------------------- MODULE SignalBundle ---------------------------
(***************************************************************************)
(* data/signal_foundry_contract.py and bitemporal_records.py: publishing a  *)
(* content-addressed bundle through one shared staging directory, by        *)
(* exporters that may run at once or be killed, and the point-in-time view  *)
(* of versioned records a bundle gives.                                     *)
(*                                                                          *)
(* A file is named by its year and by the content of its exporter's panel.  *)
(***************************************************************************)
EXTENDS Integers, FiniteSets

CONSTANTS
    Exporters, \* processes publishing under one output root
    Panels,    \* panels, each with a bundle identity of its own
    Years,     \* the years each panel covers
    Times,     \* timestamps of versioned records
    Ids,       \* record identities
    MaxKills   \* bound: kills

VARIABLES
    staging, \* .publishing: whether it exists, the panel of each year's file, the manifest's panel
    bundles, \* the same of every bundle directory
    exporter,\* each exporter: where it is and its panel
    granted, \* the bundles an export returned
    kills,
    records  \* the versioned records of a bundle the view reads

vars == <<staging, bundles, exporter, granted, kills, records>>

AllYears == UNION {Years[p] : p \in Panels}
Empty == [exists |-> FALSE, file |-> [y \in AllYears |-> "none"], manifest |-> "none"]
Dirs == [exists : BOOLEAN, file : [AllYears -> Panels \cup {"none"}], manifest : Panels \cup {"none"}]

Idle == [pc |-> "idle", panel |-> "none", done |-> {}]

\* A revision of a record: when it takes effect and when it became known.
Revisions == [id : Ids, effective : Times, available : Times]

TypeOK ==
    /\ staging \in Dirs /\ bundles \in [Panels -> Dirs]
    /\ exporter \in [Exporters -> [pc : {"idle", "checked", "writing", "described", "renamed"},
                                     panel : Panels \cup {"none"}, done : SUBSET AllYears]]
    /\ granted \subseteq Panels /\ kills \in 0..MaxKills /\ records \subseteq Revisions

\* coerce_*_records: no identity has two revisions that became known at once.
Acceptable(rs) == \A r, s \in rs : r.id = s.id /\ r.available = s.available => r = s

Start(rs) ==
    /\ staging = Empty /\ bundles = [p \in Panels |-> Empty]
    /\ exporter = [e \in Exporters |-> Idle]
    /\ granted = {} /\ kills = 0 /\ records = rs
Init == \E rs \in SUBSET Revisions : Cardinality(rs) <= 3 /\ Acceptable(rs) /\ Start(rs)

At(e, pc) == exporter[e].pc = pc
Goto(e, pc) == exporter' = [exporter EXCEPT ![e].pc = pc]
Back(e) == exporter' = [exporter EXCEPT ![e] = Idle]

\* Mutant: the hashes and the list of files are not checked again.
WholeByManifest(p, dir) == dir.manifest = p

\* validate_signal_foundry_bundle: the manifest is this bundle's, every file it
\* lists has its bytes, and there is no other file.
Whole(p, dir) ==
    /\ dir.manifest = p
    /\ \A y \in AllYears : dir.file[y] = IF y \in Years[p] THEN p ELSE "none"

-----------------------------------------------------------------------------
\* The stale staging check; the directory is made in the next step.
Check(e, p) ==
    /\ At(e, "idle") /\ ~staging.exists
    /\ exporter' = [exporter EXCEPT ![e] = [Idle EXCEPT !.pc = "checked", !.panel = p]]
    /\ UNCHANGED <<staging, bundles, granted, kills, records>>

Make(e) ==
    /\ At(e, "checked")
    /\ staging' = [staging EXCEPT !.exists = TRUE]
    /\ Goto(e, "writing")
    /\ UNCHANGED <<bundles, granted, kills, records>>

Listed(e) == Years[exporter[e].panel]

\* A year's directory is new (its parents are made again if they are gone);
\* an existing one raises, and a failed export removes the staging directory.
WriteYear(e, y) ==
    /\ At(e, "writing") /\ y \in Listed(e) \ exporter[e].done
    /\ \A x \in Listed(e) : x < y => x \in exporter[e].done
    /\ IF staging.file[y] = "none"
       THEN /\ staging' = [staging EXCEPT !.exists = TRUE, !.file[y] = exporter[e].panel]
            /\ exporter' = [exporter EXCEPT ![e].done = @ \cup {y}]
       ELSE staging' = Empty /\ Back(e)
    /\ UNCHANGED <<bundles, granted, kills, records>>

\* The manifest is written when every year is, whatever another exporter did to
\* the directory meanwhile.
Describe(e) ==
    /\ At(e, "writing") /\ exporter[e].done = Listed(e) /\ staging.exists
    /\ staging' = [staging EXCEPT !.manifest = exporter[e].panel]
    /\ Goto(e, "described")
    /\ UNCHANGED <<bundles, granted, kills, records>>

\* The bundle exists: it must be whole, and the staging directory goes.
Reuse(e) ==
    LET p == exporter[e].panel IN
    /\ At(e, "described") /\ bundles[p].exists
    /\ staging' = Empty
    /\ granted' = IF Whole(p, bundles[p]) THEN granted \cup {p} ELSE granted
    /\ Back(e)
    /\ UNCHANGED <<bundles, kills, records>>

Promote(e) ==
    /\ At(e, "described") /\ ~bundles[exporter[e].panel].exists /\ staging.exists
    /\ bundles' = [bundles EXCEPT ![exporter[e].panel] = staging]
    /\ staging' = Empty
    /\ Goto(e, "renamed")
    /\ UNCHANGED <<granted, kills, records>>

\* The renamed bundle is validated; what fails is removed again.
Validate(e) ==
    LET p == exporter[e].panel IN
    /\ At(e, "renamed")
    /\ IF Whole(p, bundles[p]) THEN granted' = granted \cup {p} /\ UNCHANGED <<bundles, staging>>
       ELSE bundles' = [bundles EXCEPT ![p] = Empty] /\ staging' = Empty /\ UNCHANGED granted
    /\ Back(e)
    /\ UNCHANGED <<kills, records>>

\* Mutant: every failed export removes the bundle it was about to make.
FailRemoving(e) ==
    /\ exporter[e].pc \in {"writing", "described"}
    /\ staging' = Empty /\ Back(e)
    /\ bundles' = [bundles EXCEPT ![exporter[e].panel] = Empty]
    /\ UNCHANGED <<granted, kills, records>>

\* Whatever raises while staging, the directory being gone included: what is
\* there now is removed, the bundle is not this exporter's yet.
Fail(e) ==
    /\ exporter[e].pc \in {"writing", "described"}
    /\ staging' = Empty /\ Back(e)
    /\ UNCHANGED <<bundles, granted, kills, records>>

Kill(e) ==
    /\ ~At(e, "idle") /\ kills < MaxKills
    /\ kills' = kills + 1 /\ Back(e)
    /\ UNCHANGED <<staging, bundles, granted, records>>

\* "inspect it before retrying": somebody removes a dead exporter's staging.
RemoveStale ==
    /\ staging.exists /\ \A e \in Exporters : At(e, "idle")
    /\ staging' = Empty
    /\ UNCHANGED <<bundles, exporter, granted, kills, records>>

Export(e) ==
    \/ \E p \in Panels : Check(e, p)
    \/ Make(e) \/ \E y \in AllYears : WriteYear(e, y)
    \/ Describe(e) \/ Reuse(e) \/ Promote(e) \/ Validate(e) \/ Fail(e) \/ Kill(e)
Next == RemoveStale \/ \E e \in Exporters : Export(e)

Spec == Init /\ [][Next]_vars

-----------------------------------------------------------------------------
(* The point-in-time view                                                   *)

\* Mutant: the order of the revisions is that of their effect.
LatestByEffect(rs) == {r \in rs : \A s \in rs : s.id = r.id => s.effective <= r.effective}

\* Of each identity, the revision that became known last.
LatestKnown(rs) == {r \in rs : \A s \in rs : s.id = r.id => s.available <= r.available}

\* visible_revisions: effective and known by the decision time.
Visible(rs, t) == LatestKnown({r \in rs : r.effective <= t /\ r.available <= t})

\* Nothing a view shows was unknown or without effect at its time, no identity
\* is shown twice, and a later view never goes back to an older revision.
ViewsArePointInTime ==
    \A t \in Times :
        /\ \A r \in Visible(records, t) : r.effective <= t /\ r.available <= t
        /\ \A r, s \in Visible(records, t) : r.id = s.id => r = s
        /\ \A u \in Times : u >= t => \A r \in Visible(records, t) :
               \E s \in Visible(records, u) : s.id = r.id /\ s.available >= r.available

\* A bundle an export returned is whole and stays so, whoever else publishes,
\* fails or is killed meanwhile; what a reader accepts is whole by validation.
GrantedBundlesAreWhole ==
    \A p \in granted : bundles[p].manifest = p /\ \A y \in Years[p] : bundles[p].file[y] = p

BundlesAreSound == GrantedBundlesAreWhole /\ ViewsArePointInTime

\* A correction that is known applies.  It does not while the new date it gives
\* is still ahead: the revision it corrects is shown until then.
KnownCorrectionsApply ==
    \A t \in Times : \A r \in Visible(records, t) :
        ~\E s \in records : s.id = r.id /\ s.available <= t /\ s.available > r.available
=============================================================================
