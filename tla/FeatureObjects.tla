--------------------------- MODULE FeatureObjects ---------------------------
(***************************************************************************)
(* The content-addressed stores of materialized features: FeatureStore      *)
(* (features/store.py), whose writers share an advisory lock and bind each  *)
(* request to its object in a DuckDB catalog, and TimeFrequencyStore        *)
(* (features/time_frequency_store.py), which has neither.  An object is      *)
(* built in a staging directory and renamed into place.  A writer may fail   *)
(* or be killed at any step; the machine may lose its power, which takes     *)
(* whatever was not flushed.                                                 *)
(* An object's identity is what its manifest binds: the request, the content *)
(* and the drift evidence it was accepted with.                              *)
(***************************************************************************)
EXTENDS Naturals, FiniteSets

CONSTANTS
    Requests, Contents, Evidence,
    Unfit,          \* contents the quality gate refuses
    Writers,        \* processes that materialize
    Tensors,        \* identities of tensors
    TensorWriters,  \* processes that write tensors
    MaxFaults,      \* bound: kills and failures of a catalog transaction
    MaxLosses       \* bound: losses of power

VARIABLES
    catalog,   \* the object each request is bound to
    objects,   \* what each object's directory is
    unflushed, \* objects whose entry in objects/ was not flushed
    staging,   \* processes that have a staging directory, or left one
    reports,   \* requests with a failure report
    lock,      \* the writer that holds the lock
    job,       \* what each process does
    acked,     \* what some caller was given: a request and its object
    store,     \* the two share no state: a behaviour is about one of them
    faults, losses

vars == <<catalog, objects, unflushed, staging, reports, lock, job, acked, store, faults, losses>>

Object == [request : Requests, content : Contents, evidence : Evidence]
None == [request |-> "none"]
NoTensor == [tensor |-> "none"]
Things == Object \cup Tensors
Idle == [at |-> "idle", thing |-> None]

TypeOK ==
    /\ catalog \in [Requests -> Object \cup {None}]
    /\ objects \in [Things -> {"absent", "whole", "hollow"}]
    /\ unflushed \subseteq Things /\ staging \subseteq Writers \cup TensorWriters
    /\ reports \subseteq Requests /\ lock \in Writers \cup {"free"}
    /\ \A p \in Writers \cup TensorWriters :
          job[p].at \in {"idle", "asked", "locked", "missed", "staged", "renamed", "flushed", "bound", "refused"}
    /\ acked \subseteq [request : Requests, content : Contents, object : Object] \cup [tensor : Tensors]
    /\ faults \in 0..MaxFaults /\ losses \in 0..MaxLosses

Init ==
    /\ catalog = [r \in Requests |-> None] /\ objects = [o \in Things |-> "absent"]
    /\ unflushed = {} /\ staging = {} /\ reports = {} /\ lock = "free"
    /\ job = [p \in Writers \cup TensorWriters |-> Idle] /\ acked = {} /\ faults = 0 /\ losses = 0
    /\ store \in {"features", "tensors"}

At(p, at) == job[p].at = at
Go(p, at) == job' = [job EXCEPT ![p].at = at]
Mine(p) == job[p].thing

-----------------------------------------------------------------------------
\* FeatureStore.materialize

\* The quality gate comes before the lock: a refused frame leaves a report.
Ask(w, object) ==
    /\ job[w].at \in {"idle", "refused"}
    /\ IF object.content \in Unfit
       THEN reports' = reports \cup {object.request} /\ Go(w, "refused")
       ELSE job' = [job EXCEPT ![w] = [at |-> "asked", thing |-> object]] /\ UNCHANGED reports
    /\ UNCHANGED <<store, catalog, objects, unflushed, staging, lock, acked, faults, losses>>

\* Mutant: nobody waits for the lock.
LockAnyway(w) ==
    /\ At(w, "asked") /\ lock' = w /\ Go(w, "locked")
    /\ UNCHANGED <<store, catalog, objects, unflushed, staging, reports, acked, faults, losses>>

Lock(w) ==
    /\ At(w, "asked") /\ lock = "free" /\ lock' = w /\ Go(w, "locked")
    /\ UNCHANGED <<store, catalog, objects, unflushed, staging, reports, acked, faults, losses>>

\* Mutant: the row is believed without a look at its object's content.
AnyContent(w, row) == TRUE

SameContent(w, row) == row.content = Mine(w).content

Return(w, object) ==
    /\ job' = [job EXCEPT ![w] = Idle] /\ lock' = "free"
    /\ acked' = acked \cup {[request |-> object.request, content |-> Mine(w).content, object |-> object]}

\* An error: the staging directory goes, the lock is released.
Refuse(w) == Go(w, "refused") /\ lock' = "free" /\ staging' = staging \ {w} /\ UNCHANGED acked

\* A row's object is verified: the same content is a hit, another one is refused.
Lookup(w) ==
    /\ At(w, "locked")
    /\ LET row == catalog[Mine(w).request] IN
          IF row = None THEN Go(w, "missed") /\ UNCHANGED <<lock, staging, acked>>
          ELSE IF objects[row] = "whole" /\ SameContent(w, row)
               THEN Return(w, row) /\ UNCHANGED staging
               ELSE Refuse(w)
    /\ UNCHANGED <<store, catalog, objects, unflushed, reports, faults, losses>>

\* Every partition and the manifest are written and flushed.
Stage(w) ==
    /\ At(w, "missed") /\ staging' = staging \cup {w} /\ Go(w, "staged")
    /\ UNCHANGED <<store, catalog, objects, unflushed, reports, lock, acked, faults, losses>>

\* Mutant: an object that is there already is an error.
NeverAdopt(object) == FALSE

\* What an earlier call left behind is validated.
Adoptable(object) == objects[object] = "whole"

Rename(w) ==
    /\ At(w, "staged")
    /\ IF objects[Mine(w)] = "absent"
       THEN /\ objects' = [objects EXCEPT ![Mine(w)] = "whole"] /\ unflushed' = unflushed \cup {Mine(w)}
            /\ staging' = staging \ {w} /\ Go(w, "renamed") /\ UNCHANGED <<lock, acked>>
       ELSE /\ IF Adoptable(Mine(w))
               THEN staging' = staging \ {w} /\ Go(w, "flushed") /\ UNCHANGED <<lock, acked>>
               ELSE Refuse(w)
            /\ UNCHANGED <<objects, unflushed>>
    /\ UNCHANGED <<store, catalog, reports, faults, losses>>

FlushObjects(w) ==
    /\ At(w, "renamed") /\ unflushed' = unflushed \ {Mine(w)} /\ Go(w, "flushed")
    /\ UNCHANGED <<store, catalog, objects, staging, reports, lock, acked, faults, losses>>

Bind(w) == [catalog EXCEPT ![Mine(w).request] = IF @ = None THEN Mine(w) ELSE @]

\* One transaction: a row that names another object is an error.
PublishRow(w) ==
    /\ At(w, "flushed")
    /\ IF catalog[Mine(w).request] \in {None, Mine(w)}
       THEN catalog' = Bind(w) /\ Go(w, "bound") /\ UNCHANGED <<lock, staging, acked>>
       ELSE Refuse(w) /\ UNCHANGED catalog
    /\ UNCHANGED <<store, objects, unflushed, reports, faults, losses>>

ReturnPublished(w) ==
    /\ At(w, "bound")
    /\ IF objects[Mine(w)] = "whole" THEN Return(w, Mine(w)) /\ UNCHANGED staging ELSE Refuse(w)
    /\ UNCHANGED <<store, catalog, objects, unflushed, reports, faults, losses>>

\* A write, a rename or the transaction fails.
Fail(w) ==
    /\ job[w].at \in {"missed", "staged", "renamed", "flushed"} /\ faults < MaxFaults
    /\ faults' = faults + 1 /\ lock' = "free" /\ staging' = staging \ {w}
    /\ job' = [job EXCEPT ![w] = Idle]
    /\ UNCHANGED <<store, catalog, objects, unflushed, reports, acked, losses>>

Kill(p) ==
    /\ job[p].at \notin {"idle", "refused"} /\ faults < MaxFaults
    /\ faults' = faults + 1 /\ job' = [job EXCEPT ![p] = Idle]
    /\ lock' = IF lock = p THEN "free" ELSE lock
    /\ UNCHANGED <<store, catalog, objects, unflushed, staging, reports, acked, losses>>

-----------------------------------------------------------------------------
\* TimeFrequencyStore.write

\* An object that is there is the tensor: its identity binds the arrays' digests.
AskTensor(t, tensor) ==
    /\ job[t].at \in {"idle", "refused"}
    /\ IF objects[tensor] # "absent"
       THEN job' = [job EXCEPT ![t] = Idle] /\ acked' = acked \cup {[tensor |-> tensor]} /\ UNCHANGED staging
       ELSE /\ job' = [job EXCEPT ![t] = [at |-> "staged", thing |-> tensor]]
            /\ staging' = staging \cup {t} /\ UNCHANGED acked
    /\ UNCHANGED <<store, catalog, objects, unflushed, reports, lock, faults, losses>>

\* A directory is not renamed onto one that is not empty.
RenameTensor(t) ==
    /\ At(t, "staged") /\ staging' = staging \ {t}
    /\ IF objects[Mine(t)] = "absent"
       THEN /\ objects' = [objects EXCEPT ![Mine(t)] = "whole"] /\ unflushed' = unflushed \cup {Mine(t)}
            /\ Go(t, "renamed")
       ELSE Go(t, "refused") /\ UNCHANGED <<objects, unflushed>>
    /\ UNCHANGED <<store, catalog, reports, lock, acked, faults, losses>>

FlushTensor(t) ==
    /\ At(t, "renamed") /\ unflushed' = unflushed \ {Mine(t)}
    /\ job' = [job EXCEPT ![t] = Idle] /\ acked' = acked \cup {[tensor |-> Mine(t)]}
    /\ UNCHANGED <<store, catalog, objects, staging, reports, lock, faults, losses>>

-----------------------------------------------------------------------------
\* Every process ends.  Entries that were not flushed are gone; the directories of an
\* object's partitions never are flushed, so an object may be left without its files.
PowerLoss ==
    /\ losses < MaxLosses /\ losses' = losses + 1
    /\ \E gone \in SUBSET unflushed, hollow \in SUBSET Object :
          objects' = [o \in Things |-> IF o \in gone THEN "absent"
                                       ELSE IF o \in hollow /\ objects[o] = "whole" THEN "hollow" ELSE objects[o]]
    /\ unflushed' = {} /\ lock' = "free" /\ job' = [p \in Writers \cup TensorWriters |-> Idle]
    /\ UNCHANGED <<store, catalog, staging, reports, acked, faults>>

Next ==
    \/ \E w \in Writers : store = "features" /\
          \/ \E object \in Object : Ask(w, object)
          \/ Lock(w) \/ Lookup(w) \/ Stage(w) \/ Rename(w) \/ FlushObjects(w)
          \/ PublishRow(w) \/ ReturnPublished(w) \/ Fail(w)
    \/ \E t \in TensorWriters : store = "tensors" /\
          \/ \E tensor \in Tensors : AskTensor(t, tensor)
          \/ RenameTensor(t) \/ FlushTensor(t)
    \/ \E p \in Writers \cup TensorWriters : Kill(p)
    \/ PowerLoss

Spec == Init /\ [][Next]_vars

-----------------------------------------------------------------------------
\* What a caller was given stays and is what it computed: its request is bound to that
\* object, which is whole, and a tensor's object is whole, through kills and failures of anybody.
AcknowledgedIsServed ==
    \A a \in acked :
        IF "tensor" \in DOMAIN a THEN objects[a.tensor] = "whole"
        ELSE /\ catalog[a.request] = a.object /\ objects[a.object] = "whole"
             /\ a.object.content = a.content

\* No row is there before its object, and a half-written object never is.
RowsHaveObjects == \A r \in Requests : catalog[r] # None => objects[catalog[r]] = "whole"

\* A frame that passed the gate is refused only because another content was published
\* for its request: what a killed or failed writer left behind refuses nobody.
OnlyDifferentContentIsRefused ==
    \A w \in Writers : At(w, "refused") /\ Mine(w) # None =>
        catalog[Mine(w).request] # None /\ catalog[Mine(w).request].content # Mine(w).content

\* A request that was bound once is bound to that object for good, and no object changes.
PublishedIsFinal ==
    [][/\ \A r \in Requests : catalog[r] # None => catalog'[r] = catalog[r]
       /\ \A o \in Things : objects[o] = "whole" => objects'[o] = "whole"]_vars

\* Writing a tensor that is there already is a no-op that returns it (docstring of
\* TimeFrequencyStore.write); two concurrent writers show it is not always so.
RepublishingIsQuiet == \A t \in TensorWriters : ~At(t, "refused")

\* Different content for the same request fails (docstring of materialize); what a
\* killed writer left in objects/ is not looked at.
DifferenceIsNoticed ==
    \A a \in acked : "request" \in DOMAIN a =>
        \A o \in Object : o.request = a.request /\ objects[o] = "whole" => o.content = a.object.content
=============================================================================
