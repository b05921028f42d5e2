------------------------------ MODULE CasProofs -----------------------------
(***************************************************************************)
(* What holds of the artifact store for every number of processes, digests *)
(* and files: what a publication returned is whole and durable, a listing  *)
(* shows what is there, and a deletion takes what it inspected.  And what  *)
(* holds of all the stores: their types, their listings, their steps.      *)
(***************************************************************************)
EXTENDS LaneProofs

Staged == {"copy", "lock", "link", "check", "flush", "unstage"}
Locked == {"link", "check", "flush", "unstage", "recheck"}

\* A publisher p at the place k of its call: its staging file has a name until "recheck"
\* and its bytes from "lock" on; under the lock the name of its digest leads to that file,
\* or has gone away, if it made the link, and to another file if it did not.
PublisherHolds(p, k) ==
    /\ k.pc \notin {"away", "idle"} => k.d \in Digests /\ k.ino \in Inode
    /\ k.pc \in Staged => k.ino \in staging
    /\ k.pc = "copy" => content[k.ino] = None
    /\ k.pc \in Staged \ {"copy"} => k.ino \in flushed /\ content[k.ino] = k.d
    /\ k.pc \in {"recheck", "open", "hash"} => k.ino \notin staging
    /\ k.pc \in {"lock", "link"} \/ (k.pc \in {"check", "flush", "unstage"} /\ ~k.made) => objects[k.d] # k.ino
    /\ k.pc \in {"check", "flush", "unstage"} /\ k.made => objects[k.d] \in {None, k.ino}
    /\ k.pc = "unstage" /\ k.made /\ objects[k.d] # None => durable[k.d] = objects[k.d]
    /\ lock = p <=> k.pc \in Locked

\* No two publications stage one file.
StagedApart(f) ==
    \A p, q \in Publishers : p # q /\ f[p].pc \in Staged /\ f[q].pc \in Staged => f[p].ino # f[q].ino

\* What a digest's name leads to was flushed and is that digest; once the staging name is
\* gone the entry is durable, unless a publisher that failed left it unflushed.
NameHolds(d) ==
    /\ objects[d] # None => /\ objects[d] \in flushed /\ content[objects[d]] = d
                            /\ objects[d] \notin staging => durable[d] = objects[d] \/ d \in unflushed
    /\ durable[d] # None => durable[d] \in flushed /\ content[durable[d]] = d

\* While nobody was killed, a file with a staging name belongs to a publication, and one
\* that is also an object to the publication that linked it and still holds the lock.
Tidy ==
    /\ \A i \in staging : \E p \in Publishers : pub[p].pc \in Staged /\ pub[p].ino = i
    /\ \A d \in Digests : objects[d] # None /\ objects[d] \in staging =>
          \E p \in Publishers : /\ pub[p].pc \in {"check", "flush", "unstage"} /\ pub[p].made
                                /\ pub[p].ino = objects[d]

CasTyped ==
    /\ content \in [Inode -> Digests \cup {None}]
    /\ flushed \subseteq Inode /\ staging \subseteq Inode
    /\ objects \in [Digests -> Inode \cup {None}] /\ durable \in [Digests -> Inode \cup {None}]
    /\ pub \in [Publishers -> Call(PubPcs)]
    /\ acked \subseteq Digests /\ unflushed \subseteq Digests /\ known \subseteq Digests /\ faults \in Nat

RdPcs == {"away", "idle", "open", "hash"}
DelPcs == {"away", "idle", "chosen", "stat", "unlink", "flush"}

\* Of the other callers: whose digest is one.
CallersHold ==
    /\ rd \in [Readers -> Call(RdPcs)] /\ del \in [Deleters -> Call(DelPcs)]
    /\ \A p \in Readers : rd[p].pc = "open" => rd[p].d \in Digests
    /\ \A p \in Deleters : del[p].pc \notin {"away", "idle"} => del[p].d \in Digests

PublishersHold == (\A p \in Publishers : PublisherHolds(p, pub[p])) /\ StagedApart(pub)

NamesHold ==
    /\ \A i \in flushed : content[i] # None
    /\ \A d \in Digests : NameHolds(d)
    /\ \A d \in acked : d \notin unflushed \/ faults = 0 => objects[d] # None /\ objects[d] \notin staging

CasInv == CasTyped /\ CallersHold /\ PublishersHold /\ NamesHold /\ (faults = 0 => Tidy)

\* The types, and what they say of None.
LEMMA CasTypes ==
    ASSUME CasInv
    PROVE  /\ content \in [Inode -> Digests \cup {None}]
           /\ flushed \subseteq Inode /\ staging \subseteq Inode
           /\ objects \in [Digests -> Inode \cup {None}] /\ durable \in [Digests -> Inode \cup {None}]
           /\ pub \in [Publishers -> Call(PubPcs)]
           /\ None \notin Inode /\ None \notin Digests /\ None \notin Publishers
           /\ acked \subseteq Digests /\ unflushed \subseteq Digests /\ known \subseteq Digests /\ faults \in Nat
  BY CasAssumption DEF CasInv, CasTyped, Inode, None

LEMMA PlaceTypes ==
    ASSUME NEW k \in Call(PubPcs), NEW pc \in PubPcs
    PROVE  /\ k.pc \in PubPcs /\ k.d \in Digests \cup {None} /\ k.ino \in Inode \cup {None} /\ k.made \in BOOLEAN
           /\ [k EXCEPT !.pc = pc] \in Call(PubPcs)
           /\ [k EXCEPT !.pc = pc].pc = pc /\ [k EXCEPT !.pc = pc].d = k.d
           /\ [k EXCEPT !.pc = pc].ino = k.ino /\ [k EXCEPT !.pc = pc].made = k.made
           /\ Resting \in Call(PubPcs) /\ Resting.pc = "idle" /\ Resting.d = None
  BY DEF Call, Resting, PubPcs

\* The record of p becomes m, the others' stay.
LEMMA OneMoves ==
    ASSUME CasInv, NEW p \in Publishers, NEW m \in Call(PubPcs), pub' = [pub EXCEPT ![p] = m]
    PROVE  /\ pub' \in [Publishers -> Call(PubPcs)] /\ pub'[p] = m
           /\ \A q \in Publishers : q # p => pub'[q] = pub[q]
  BY CasTypes

LEMMA NextPlace ==
    ASSUME CasInv, NEW p \in Publishers, NEW pc \in PubPcs, PubTo(p, pc)
    PROVE  /\ pub' \in [Publishers -> Call(PubPcs)]
           /\ pub'[p].pc = pc /\ pub'[p].d = pub[p].d /\ pub'[p].ino = pub[p].ino /\ pub'[p].made = pub[p].made
           /\ \A q \in Publishers : q # p => pub'[q] = pub[q]
  <1> DEFINE m == [pub[p] EXCEPT !.pc = pc]
  <1>1. pub[p] \in Call(PubPcs)
    BY CasTypes
  <1>2. m \in Call(PubPcs) /\ m.pc = pc /\ m.d = pub[p].d /\ m.ino = pub[p].ino /\ m.made = pub[p].made
    BY <1>1, PlaceTypes
  <1>3. pub' = [pub EXCEPT ![p] = m]
    BY DEF PubTo
  <1> HIDE DEF m
  <1> QED
    BY <1>2, <1>3, OneMoves

\* The number of the next staging file is nobody's.
LEMMA FreshInode ==
    ASSUME Unused # {}
    PROVE  LET i == Min(Unused) IN
           /\ i \in Inode /\ i \notin staging /\ content[i] = None
           /\ \A q \in Publishers : pub[q].ino # i
  <1>1. Unused \in SUBSET Nat
    BY CasAssumption DEF Unused, Inode
  <1>2. PICK x \in Unused : \A y \in Unused : x <= y
    BY <1>1, Least
  <1>3. PICK i : i = Min(Unused)
    OBVIOUS
  <1>4. i \in Unused
    BY <1>2, <1>3 DEF Min
  <1>5. i \in Inode /\ i >= i
    BY <1>4, CasAssumption DEF Unused, Inode
  <1>6. i \notin staging /\ content[i] = None /\ \A q \in Publishers : pub[q].ino # i
    BY <1>4, <1>5 DEF Unused
  <1> QED
    BY <1>3, <1>5, <1>6

LEMMA StagingKeeps ==
    ASSUME CasInv, NEW p \in Publishers, NEW d \in Digests, CreateStaging(p, d)
    PROVE  CasInv'
  <1>1. PICK i : i = Min(Unused)
    OBVIOUS
  <1>2. i \in Inode /\ i \notin staging /\ content[i] = None /\ \A q \in Publishers : pub[q].ino # i
    BY <1>1, FreshInode DEF CreateStaging
  <1> DEFINE m == [pc |-> "copy", d |-> d, ino |-> i, made |-> FALSE]
  <1>3. /\ pub[p].pc = "idle" /\ staging' = staging \cup {i}
        /\ pub' = [pub EXCEPT ![p] = m]
        /\ UNCHANGED <<content, flushed, objects, durable, lock, rd, del, ls, proof, acked, unflushed, known, faults>>
    BY <1>1 DEF CreateStaging
  <1>4. m \in Call(PubPcs) /\ m.pc = "copy" /\ m.d = d /\ m.ino = i /\ m.made = FALSE
    BY <1>2 DEF Call, PubPcs
  <1> HIDE DEF m
  <1>5. /\ pub' \in [Publishers -> Call(PubPcs)] /\ pub'[p] = m
        /\ \A q \in Publishers : q # p => pub'[q] = pub[q]
    BY <1>3, <1>4, OneMoves
  <1>6. i \notin flushed
    BY <1>2 DEF CasInv, NamesHold
  <1>7. CasTyped' /\ CallersHold'
    BY <1>2, <1>3, <1>5 DEF CasInv, CasTyped, CallersHold
  <1>8. PublishersHold'
    <2>1. PublisherHolds(p, pub[p])'
      BY <1>2, <1>3, <1>4, <1>5 DEF CasInv, PublishersHold, PublisherHolds, Staged, Locked
    <2>2. ASSUME NEW q \in Publishers, q # p PROVE PublisherHolds(q, pub[q])'
      BY <1>2, <1>3, <1>5, <2>2 DEF CasInv, PublishersHold, PublisherHolds
    <2>3. StagedApart(pub)'
      BY <1>2, <1>4, <1>5 DEF CasInv, PublishersHold, StagedApart
    <2> QED
      BY <2>1, <2>2, <2>3 DEF PublishersHold
  <1>9. NamesHold'
    <2>1. \A e \in Digests : NameHolds(e)'
      BY <1>3 DEF CasInv, NamesHold, NameHolds
    <2>2. \A e \in acked : e \notin unflushed \/ faults = 0 => objects[e] \notin staging'
      BY <1>3, <1>6, CasTypes DEF CasInv, NamesHold, NameHolds
    <2> QED
      BY <1>3, <2>1, <2>2 DEF CasInv, NamesHold
  <1>10. Tidy => Tidy'
    <2> SUFFICES ASSUME Tidy PROVE Tidy'
      OBVIOUS
    <2>1. \A j \in staging' : \E q \in Publishers : pub'[q].pc \in Staged /\ pub'[q].ino = j
      BY <1>3, <1>4, <1>5 DEF Tidy, Staged
    <2>2. ASSUME NEW e \in Digests, objects[e] # None, objects[e] \in staging'
          PROVE  \E q \in Publishers : /\ pub'[q].pc \in {"check", "flush", "unstage"} /\ pub'[q].made
                                       /\ pub'[q].ino = objects[e]
      <3>1. objects[e] \in staging
        BY <1>3, <1>6, <2>2 DEF CasInv, NamesHold, NameHolds
      <3> QED
        BY <1>3, <1>5, <2>2, <3>1 DEF Tidy
    <2> QED
      BY <1>3, <2>1, <2>2 DEF Tidy
  <1>11. faults' = 0 => Tidy'
    BY <1>3, <1>10 DEF CasInv
  <1> QED
    BY <1>7, <1>8, <1>9, <1>11 DEF CasInv

\* What a step leaves: the names, and the other callers.
LEMMA NamesStay ==
    ASSUME CasInv, UNCHANGED <<content, flushed, staging, objects, durable, acked, unflushed>>,
           faults' = 0 => faults = 0
    PROVE  NamesHold'
  BY DEF CasInv, NamesHold, NameHolds

LEMMA CallersStay ==
    ASSUME CasInv, UNCHANGED <<rd, del>>
    PROVE  CallersHold'
  BY DEF CasInv, CallersHold

\* A publisher p that goes on to another place, the tree as it was.
LEMMA PlaceKeeps ==
    ASSUME CasInv, NEW p \in Publishers, NEW pc \in PubPcs, PubTo(p, pc), PublisherHolds(p, pub[p])',
           pc \in Staged => pub[p].pc \in Staged,
           \A q \in Publishers : q # p => (lock' = q <=> lock = q),
           UNCHANGED <<content, flushed, staging, objects, durable, rd, del, acked, unflushed, known, faults>>,
           faults = 0 /\ pub[p].pc \in Staged => pc \in Staged,
           faults = 0 /\ pub[p].pc \in {"check", "flush", "unstage"} => pc \in {"check", "flush", "unstage"}
    PROVE  CasInv'
  <1>1. /\ pub' \in [Publishers -> Call(PubPcs)]
        /\ pub'[p].pc = pc /\ pub'[p].d = pub[p].d /\ pub'[p].ino = pub[p].ino /\ pub'[p].made = pub[p].made
        /\ \A q \in Publishers : q # p => pub'[q] = pub[q]
    BY NextPlace
  <1>2. CasTyped'
    BY <1>1 DEF CasInv, CasTyped
  <1>3. PublishersHold'
    <2>1. ASSUME NEW q \in Publishers, q # p PROVE PublisherHolds(q, pub[q])'
      BY <1>1, <2>1 DEF CasInv, PublishersHold, PublisherHolds
    <2>2. StagedApart(pub)'
      BY <1>1 DEF CasInv, PublishersHold, StagedApart
    <2> QED
      BY <2>1, <2>2 DEF PublishersHold
  <1>4. faults' = 0 => Tidy'
    BY <1>1 DEF CasInv, Tidy
  <1> QED
    BY <1>2, <1>3, <1>4, NamesStay, CallersStay DEF CasInv

LEMMA AcquireKeeps ==
    ASSUME CasInv, NEW p \in Publishers, AcquirePublicationLock(p)
    PROVE  CasInv'
  <1>1. /\ pub[p].pc = "lock" /\ lock = None /\ lock' = p /\ PubTo(p, "link") /\ "link" \in PubPcs
        /\ UNCHANGED <<content, flushed, staging, objects, durable, rd, del, acked, unflushed, known, faults>>
    BY DEF AcquirePublicationLock, tree, PubPcs
  <1>2. PublisherHolds(p, pub[p])'
    BY <1>1, NextPlace DEF CasInv, PublishersHold, PublisherHolds, Staged, Locked
  <1>3. \A q \in Publishers : q # p => (lock' = q <=> lock = q)
    BY <1>1, CasTypes
  <1> QED
    BY <1>1, <1>2, <1>3, PlaceKeeps DEF Staged

LEMMA CheckKeeps ==
    ASSUME CasInv, NEW p \in Publishers, CheckCandidate(p)
    PROVE  CasInv'
  <1>1. /\ pub[p].pc = "check" /\ lock' = lock /\ PubTo(p, "flush") /\ "flush" \in PubPcs
        /\ UNCHANGED <<content, flushed, staging, objects, durable, rd, del, acked, unflushed, known, faults>>
    BY DEF CheckCandidate, tree, PubPcs
  <1>2. PublisherHolds(p, pub[p])'
    BY <1>1, NextPlace DEF CasInv, PublishersHold, PublisherHolds, Staged, Locked
  <1> QED
    BY <1>1, <1>2, PlaceKeeps DEF Staged

LEMMA RecheckKeeps ==
    ASSUME CasInv, NEW p \in Publishers, Recheck(p)
    PROVE  CasInv'
  <1>1. /\ pub[p].pc = "recheck" /\ lock' = None /\ PubTo(p, "open") /\ "open" \in PubPcs
        /\ UNCHANGED <<content, flushed, staging, objects, durable, rd, del, acked, unflushed, known, faults>>
    BY DEF Recheck, tree, PubPcs
  <1>2. lock = p
    BY <1>1 DEF CasInv, PublishersHold, PublisherHolds, Locked
  <1>3. PublisherHolds(p, pub[p])'
    BY <1>1, NextPlace, CasTypes DEF CasInv, PublishersHold, PublisherHolds, Staged, Locked
  <1>4. \A q \in Publishers : q # p => (lock' = q <=> lock = q)
    BY <1>1, <1>2, CasTypes
  <1> QED
    BY <1>1, <1>3, <1>4, PlaceKeeps DEF Staged

\* The staging file of p is p's alone, and nobody's object before it is linked.
LEMMA OwnFile ==
    ASSUME CasInv, NEW p \in Publishers, pub[p].pc \in Staged
    PROVE  /\ pub[p].d \in Digests /\ pub[p].ino \in Inode /\ pub[p].ino \in staging
           /\ \A q \in Publishers : q # p /\ pub[q].pc \in Staged => pub[q].ino # pub[p].ino
           /\ pub[p].pc = "copy" => \A d \in Digests : objects[d] # pub[p].ino /\ durable[d] # pub[p].ino
           /\ \A d \in Digests : objects[d] = pub[p].ino => d = pub[p].d
  <1>1. PublisherHolds(p, pub[p])
    BY DEF CasInv, PublishersHold
  <1>2. pub[p].d \in Digests /\ pub[p].ino \in Inode /\ pub[p].ino \in staging
    BY <1>1 DEF PublisherHolds, Staged
  <1>3. \A q \in Publishers : q # p /\ pub[q].pc \in Staged => pub[q].ino # pub[p].ino
    BY DEF CasInv, PublishersHold, StagedApart
  <1>4. ASSUME NEW d \in Digests, objects[d] = pub[p].ino \/ durable[d] = pub[p].ino
        PROVE  pub[p].pc # "copy" /\ (objects[d] = pub[p].ino => d = pub[p].d)
    <2>1. content[pub[p].ino] = d /\ d # None /\ pub[p].ino # None
      BY <1>2, <1>4, CasTypes DEF CasInv, NamesHold, NameHolds
    <2> QED
      BY <1>1, <2>1 DEF PublisherHolds, Staged
  <1> QED
    BY <1>2, <1>3, <1>4

LEMMA CopyKeeps ==
    ASSUME CasInv, NEW p \in Publishers, CopyAndHash(p)
    PROVE  CasInv'
  <1> DEFINE i == pub[p].ino
  <1>1. /\ pub[p].pc = "copy" /\ PubTo(p, "lock") /\ "lock" \in PubPcs
        /\ content' = [content EXCEPT ![i] = pub[p].d] /\ flushed' = flushed \cup {i}
        /\ UNCHANGED <<staging, objects, durable, lock, rd, del, acked, unflushed, known, faults>>
    BY DEF CopyAndHash, PubPcs
  <1>2. /\ pub' \in [Publishers -> Call(PubPcs)]
        /\ pub'[p].pc = "lock" /\ pub'[p].d = pub[p].d /\ pub'[p].ino = i /\ pub'[p].made = pub[p].made
        /\ \A q \in Publishers : q # p => pub'[q] = pub[q]
    BY <1>1, NextPlace
  <1>3. /\ pub[p].d \in Digests /\ i \in Inode /\ i \in staging
        /\ \A q \in Publishers : q # p /\ pub[q].pc \in Staged => pub[q].ino # i
        /\ \A d \in Digests : objects[d] # i /\ durable[d] # i
    BY <1>1, OwnFile DEF Staged
  <1> HIDE DEF i
  <1>4. /\ content' \in [Inode -> Digests \cup {None}] /\ content'[i] = pub[p].d
        /\ \A j \in Inode : j # i => content'[j] = content[j]
    BY <1>1, <1>3, CasTypes
  <1>5. CasTyped'
    BY <1>1, <1>2, <1>3, <1>4 DEF CasInv, CasTyped
  <1>6. PublishersHold'
    <2>1. PublisherHolds(p, pub[p])'
      <3>1. lock = p <=> pub[p].pc \in Locked
        BY DEF CasInv, PublishersHold, PublisherHolds
      <3> QED
        BY <1>1, <1>2, <1>3, <1>4, <3>1 DEF PublisherHolds, Staged, Locked
    <2>2. ASSUME NEW q \in Publishers, q # p PROVE PublisherHolds(q, pub[q])'
      <3>1. PublisherHolds(q, pub[q])
        BY DEF CasInv, PublishersHold
      <3>2. pub[q].pc \in Staged => pub[q].ino \in Inode /\ pub[q].ino # i
        BY <1>3, <2>2, <3>1 DEF PublisherHolds, Staged
      <3> QED
        BY <1>1, <1>2, <1>4, <2>2, <3>1, <3>2 DEF PublisherHolds, Staged
    <2>3. StagedApart(pub)'
      BY <1>2, <1>3 DEF CasInv, PublishersHold, StagedApart
    <2> QED
      BY <2>1, <2>2, <2>3 DEF PublishersHold
  <1>7. NamesHold'
    <2>1. \A j \in flushed' : content'[j] # None
      BY <1>1, <1>3, <1>4, CasTypes DEF CasInv, NamesHold
    <2>2. ASSUME NEW e \in Digests PROVE NameHolds(e)'
      BY <1>1, <1>3, <1>4, CasTypes DEF CasInv, NamesHold, NameHolds
    <2> QED
      BY <1>1, <2>1, <2>2 DEF CasInv, NamesHold
  <1>8. ASSUME Tidy PROVE Tidy'
    <2>1. \A j \in staging : \E q \in Publishers : pub'[q].pc \in Staged /\ pub'[q].ino = j
      BY <1>2, <1>8 DEF Tidy, Staged, i
    <2>2. \A e \in Digests : objects[e] # None /\ objects[e] \in staging =>
             \E q \in Publishers : /\ pub'[q].pc \in {"check", "flush", "unstage"} /\ pub'[q].made
                                  /\ pub'[q].ino = objects[e]
      BY <1>1, <1>2, <1>8 DEF Tidy
    <2> QED
      BY <1>1, <2>1, <2>2 DEF Tidy
  <1>9. faults' = 0 => Tidy'
    BY <1>1, <1>8 DEF CasInv
  <1> QED
    BY <1>1, <1>5, <1>6, <1>7, <1>9, CallersStay DEF CasInv

LEMMA LinkKeeps ==
    ASSUME CasInv, NEW p \in Publishers, LinkStaged(p)
    PROVE  CasInv'
  <1> DEFINE i == pub[p].ino
             d == pub[p].d
             absent == objects[d] = None
             m == [pub[p] EXCEPT !.pc = "check", !.made = absent]
  <1>1. /\ pub[p].pc = "link" /\ pub' = [pub EXCEPT ![p] = m]
        /\ objects' = IF absent THEN [objects EXCEPT ![d] = i] ELSE objects
        /\ UNCHANGED <<content, flushed, staging, durable, lock, rd, del, acked, unflushed, known, faults>>
    BY DEF LinkStaged
  <1>2. m \in Call(PubPcs) /\ m.pc = "check" /\ m.d = d /\ m.ino = i /\ m.made = absent
    BY CasTypes, ZenonT(40) DEF Call, PubPcs
  <1> HIDE DEF m
  <1>3. pub' \in [Publishers -> Call(PubPcs)] /\ pub'[p] = m /\ \A q \in Publishers : q # p => pub'[q] = pub[q]
    BY <1>1, <1>2, OneMoves
  <1>4. /\ d \in Digests /\ i \in Inode /\ i \in staging
        /\ \A q \in Publishers : q # p /\ pub[q].pc \in Staged => pub[q].ino # i
    BY <1>1, OwnFile DEF Staged
  <1>5. i \in flushed /\ content[i] = d /\ objects[d] # i /\ lock = p
    BY <1>1 DEF CasInv, PublishersHold, PublisherHolds, Staged, Locked
  <1> HIDE DEF i, d, absent
  <1>6. /\ objects' \in [Digests -> Inode \cup {None}]
        /\ objects'[d] = IF absent THEN i ELSE objects[d]
        /\ \A e \in Digests : e # d => objects'[e] = objects[e]
    BY <1>1, <1>4, CasTypes
  <1>7. CasTyped'
    BY <1>1, <1>3, <1>6 DEF CasInv, CasTyped
  <1>8. PublishersHold'
    <2>1. PublisherHolds(p, pub[p])'
      BY <1>1, <1>2, <1>3, <1>4, <1>5, <1>6 DEF PublisherHolds, Staged, Locked
    <2>2. ASSUME NEW q \in Publishers, q # p PROVE PublisherHolds(q, pub[q])'
      <3>1. PublisherHolds(q, pub[q]) /\ pub[q].pc \notin Locked
        BY <1>5, <2>2 DEF CasInv, PublishersHold, PublisherHolds
      <3>2. pub[q].pc \in Staged => pub[q].ino # i /\ pub[q].d \in Digests
        BY <1>4, <2>2, <3>1 DEF PublisherHolds, Staged
      <3>3. pub[q].pc = "lock" => objects'[pub[q].d] # pub[q].ino
        BY <1>6, <3>1, <3>2 DEF PublisherHolds, Staged
      <3> QED
        BY <1>1, <1>3, <2>2, <3>1, <3>3 DEF PublisherHolds, Staged, Locked
    <2>3. StagedApart(pub)'
      BY <1>2, <1>3, <1>4 DEF CasInv, PublishersHold, StagedApart
    <2> QED
      BY <2>1, <2>2, <2>3 DEF PublishersHold
  <1>9. NamesHold'
    <2>1. ASSUME NEW e \in Digests PROVE NameHolds(e)'
      BY <1>1, <1>4, <1>5, <1>6 DEF CasInv, NamesHold, NameHolds
    <2>2. ASSUME NEW e \in acked, e \notin unflushed \/ faults = 0 PROVE objects'[e] # None /\ objects'[e] \notin staging
      BY <1>6, <2>2, CasTypes DEF CasInv, NamesHold, absent
    <2> QED
      BY <1>1, <2>1, <2>2 DEF CasInv, NamesHold
  <1>10. ASSUME Tidy PROVE Tidy'
    <2>1. \A j \in staging : \E q \in Publishers : pub'[q].pc \in Staged /\ pub'[q].ino = j
      BY <1>1, <1>2, <1>3, <1>10 DEF Tidy, Staged, i
    <2>2. ASSUME NEW e \in Digests, objects'[e] # None, objects'[e] \in staging
          PROVE  \E q \in Publishers : /\ pub'[q].pc \in {"check", "flush", "unstage"} /\ pub'[q].made
                                       /\ pub'[q].ino = objects'[e]
      <3>1. CASE e = d /\ absent
        BY <1>2, <1>3, <1>6, <3>1
      <3>2. CASE ~(e = d /\ absent)
        BY <1>1, <1>3, <1>6, <1>10, <2>2, <3>2 DEF Tidy
      <3> QED
        BY <3>1, <3>2
    <2> QED
      BY <1>1, <2>1, <2>2 DEF Tidy
  <1>11. faults' = 0 => Tidy'
    BY <1>1, <1>10 DEF CasInv
  <1> QED
    BY <1>1, <1>7, <1>8, <1>9, <1>11, CallersStay DEF CasInv

\* The entry that the maker of a link flushes.
LEMMA FlushKeeps ==
    ASSUME CasInv, NEW p \in Publishers, FlushDestination(p)
    PROVE  CasInv'
  <1> DEFINE d == pub[p].d
  <1>1. /\ pub[p].pc = "flush" /\ PubTo(p, "unstage") /\ "unstage" \in PubPcs
        /\ durable' = IF pub[p].made THEN [durable EXCEPT ![d] = objects[d]] ELSE durable
        /\ UNCHANGED <<content, flushed, staging, objects, lock, rd, del, acked, unflushed, known, faults>>
    BY DEF FlushDestination, PubPcs
  <1>2. /\ pub' \in [Publishers -> Call(PubPcs)]
        /\ pub'[p].pc = "unstage" /\ pub'[p].d = d /\ pub'[p].ino = pub[p].ino /\ pub'[p].made = pub[p].made
        /\ \A q \in Publishers : q # p => pub'[q] = pub[q]
    BY <1>1, NextPlace
  <1>3. d \in Digests /\ PublisherHolds(p, pub[p]) /\ lock = p
    BY <1>1, OwnFile DEF CasInv, PublishersHold, PublisherHolds, Staged, Locked
  <1> HIDE DEF d
  <1>4. /\ durable' \in [Digests -> Inode \cup {None}]
        /\ durable'[d] = IF pub[p].made THEN objects[d] ELSE durable[d]
        /\ \A e \in Digests : e # d => durable'[e] = durable[e]
    BY <1>1, <1>3, CasTypes
  <1>5. CasTyped'
    BY <1>1, <1>2, <1>4 DEF CasInv, CasTyped
  <1>6. PublishersHold'
    <2>1. PublisherHolds(p, pub[p])'
      BY <1>1, <1>2, <1>3, <1>4 DEF PublisherHolds, Staged, Locked, d
    <2>2. ASSUME NEW q \in Publishers, q # p PROVE PublisherHolds(q, pub[q])'
      BY <1>1, <1>2, <1>3, <2>2 DEF CasInv, PublishersHold, PublisherHolds, Locked
    <2>3. StagedApart(pub)'
      BY <1>1, <1>2 DEF CasInv, PublishersHold, StagedApart, Staged
    <2> QED
      BY <2>1, <2>2, <2>3 DEF PublishersHold
  <1>7. NamesHold'
    <2>1. ASSUME NEW e \in Digests PROVE NameHolds(e)'
      BY <1>1, <1>4 DEF CasInv, NamesHold, NameHolds
    <2> QED
      BY <1>1, <2>1 DEF CasInv, NamesHold
  <1>8. ASSUME Tidy PROVE Tidy'
    <2>1. \A j \in staging : \E q \in Publishers : pub'[q].pc \in Staged /\ pub'[q].ino = j
      BY <1>1, <1>2, <1>8 DEF Tidy, Staged
    <2>2. \A e \in Digests : objects[e] # None /\ objects[e] \in staging =>
             \E q \in Publishers : /\ pub'[q].pc \in {"check", "flush", "unstage"} /\ pub'[q].made
                                  /\ pub'[q].ino = objects[e]
      BY <1>1, <1>2, <1>8 DEF Tidy
    <2> QED
      BY <1>1, <2>1, <2>2 DEF Tidy
  <1>9. faults' = 0 => Tidy'
    BY <1>1, <1>8 DEF CasInv
  <1> QED
    BY <1>1, <1>5, <1>6, <1>7, <1>9, CallersStay DEF CasInv

\* When the staging name of p goes away its entry is durable already, if it has one.
LEMMA UnstagedNames ==
    ASSUME CasInv, NEW p \in Publishers,
           pub[p].pc \in {"check", "flush"} /\ pub[p].made => pub[p].d \in unflushed',
           staging' = staging \ {pub[p].ino}, unflushed \subseteq unflushed',
           UNCHANGED <<content, flushed, objects, durable, acked, faults>>,
           pub[p].pc \in Staged \/ pub[p].ino \notin staging
    PROVE  NamesHold'
  <1>1. ASSUME NEW d \in Digests, objects[d] # None, objects[d] = pub[p].ino, pub[p].pc \in Staged
        PROVE  durable[d] = objects[d] \/ d \in unflushed'
    <2>1. PublisherHolds(p, pub[p]) /\ d = pub[p].d
      BY <1>1, OwnFile DEF CasInv, PublishersHold
    <2>2. pub[p].pc # "copy"
      BY <1>1, OwnFile
    <2> QED
      BY <1>1, <2>1, <2>2 DEF PublisherHolds, Staged
  <1>2. ASSUME NEW d \in Digests PROVE NameHolds(d)'
    <2>1. NameHolds(d)
      BY DEF CasInv, NamesHold
    <2>2. objects[d] # None /\ objects[d] \notin staging' => durable[d] = objects[d] \/ d \in unflushed'
      BY <1>1, <2>1 DEF NameHolds
    <2> QED
      BY <2>1, <2>2 DEF NameHolds
  <1> QED
    BY <1>2 DEF CasInv, NamesHold

\* p removes its staging name and goes on to m, where it stages nothing.
LEMMA UnstagedKeeps ==
    ASSUME CasInv, NEW p \in Publishers, NEW m \in Call(PubPcs), pub' = [pub EXCEPT ![p] = m],
           m.pc \notin Staged,
           pub[p].pc \in {"check", "flush"} /\ pub[p].made => pub[p].d \in unflushed',
           staging' = staging \ {pub[p].ino}, unflushed \subseteq unflushed', unflushed' \subseteq Digests,
           pub[p].pc \in Staged \/ pub[p].ino \notin staging,
           \A q \in Publishers : q # p => (lock' = q <=> lock = q),
           PublisherHolds(p, pub[p])',
           UNCHANGED <<content, flushed, objects, durable, rd, del, acked, known, faults>>
    PROVE  CasInv'
  <1>1. pub' \in [Publishers -> Call(PubPcs)] /\ pub'[p] = m /\ \A q \in Publishers : q # p => pub'[q] = pub[q]
    BY OneMoves
  <1>2. CasTyped'
    BY <1>1 DEF CasInv, CasTyped
  <1>3. NamesHold'
    BY UnstagedNames
  <1>4. PublishersHold'
    <2>1. ASSUME NEW q \in Publishers, q # p PROVE PublisherHolds(q, pub[q])'
      <3>1. PublisherHolds(q, pub[q])
        BY DEF CasInv, PublishersHold
      <3>2. pub[q].pc \in Staged => pub[q].ino \in staging'
        BY <2>1, <3>1, OwnFile DEF PublisherHolds
      <3> QED
        BY <1>1, <2>1, <3>1, <3>2 DEF PublisherHolds
    <2>2. StagedApart(pub)'
      BY <1>1 DEF CasInv, PublishersHold, StagedApart
    <2> QED
      BY <2>1, <2>2 DEF PublishersHold
  <1>5. ASSUME Tidy PROVE Tidy'
    <2>1. ASSUME NEW j \in staging' PROVE \E q \in Publishers : pub'[q].pc \in Staged /\ pub'[q].ino = j
      BY <1>1, <1>5 DEF Tidy
    <2>2. ASSUME NEW e \in Digests, objects[e] # None, objects[e] \in staging'
          PROVE  \E q \in Publishers : /\ pub'[q].pc \in {"check", "flush", "unstage"} /\ pub'[q].made
                                       /\ pub'[q].ino = objects[e]
      BY <1>1, <1>5, <2>2 DEF Tidy
    <2> QED
      BY <2>1, <2>2 DEF Tidy
  <1>6. faults' = 0 => Tidy'
    BY <1>5 DEF CasInv
  <1> QED
    BY <1>2, <1>3, <1>4, <1>6, CallersStay DEF CasInv

LEMMA UnlinkStagingKeeps ==
    ASSUME CasInv, NEW p \in Publishers, UnlinkStaging(p)
    PROVE  CasInv'
  <1> DEFINE m == [pub[p] EXCEPT !.pc = "recheck"]
  <1>1. /\ pub[p].pc = "unstage" /\ staging' = staging \ {pub[p].ino} /\ pub' = [pub EXCEPT ![p] = m]
        /\ UNCHANGED <<content, flushed, objects, durable, lock, rd, del, acked, unflushed, known, faults>>
    BY DEF UnlinkStaging, PubTo
  <1>2. m \in Call(PubPcs) /\ m.pc = "recheck" /\ m.d = pub[p].d /\ m.ino = pub[p].ino
    <2>1. pub[p] \in Call(PubPcs) /\ "recheck" \in PubPcs
      BY CasTypes DEF PubPcs
    <2> QED
      BY <2>1, PlaceTypes
  <1> HIDE DEF m
  <1>3. pub'[p] = m
    BY <1>1, <1>2, OneMoves
  <1>4. PublisherHolds(p, pub[p])'
    BY <1>1, <1>2, <1>3 DEF CasInv, PublishersHold, PublisherHolds, Staged, Locked
  <1> QED
    BY <1>1, <1>2, <1>4, UnstagedKeeps, CasTypes DEF Staged

LEMMA RestingHolds ==
    ASSUME CasInv, NEW p \in Publishers, pub'[p] = Resting, lock' # p
    PROVE  PublisherHolds(p, pub[p])'
  BY DEF PublisherHolds, Resting, Staged, Locked

\* Whoever holds the lock, p gives it up.
LEMMA LockGivenUp ==
    ASSUME CasInv, NEW p \in Publishers, lock' = IF lock = p THEN None ELSE lock
    PROVE  lock' # p /\ \A q \in Publishers : q # p => (lock' = q <=> lock = q)
  BY CasTypes

LEMMA FailKeeps ==
    ASSUME CasInv, NEW p \in Publishers, FailPublish(p)
    PROVE  CasInv'
  <1>1. /\ pub[p].pc \notin {"away", "idle"}
        /\ unflushed' = unflushed \cup (IF Unflushed(p) THEN {pub[p].d} ELSE {})
        /\ staging' = staging \ {pub[p].ino} /\ pub' = [pub EXCEPT ![p] = Resting]
        /\ lock' = IF lock = p THEN None ELSE lock
        /\ UNCHANGED <<content, flushed, objects, durable, rd, del, acked, known, faults>>
    BY DEF FailPublish, LeavesUnflushed, Publishing
  <1>2. Resting \in Call(PubPcs) /\ Resting.pc = "idle"
    BY DEF Resting, Call, PubPcs
  <1>3. pub'[p] = Resting
    BY <1>1, <1>2, OneMoves
  <1>4. PublisherHolds(p, pub[p])' /\ \A q \in Publishers : q # p => (lock' = q <=> lock = q)
    BY <1>1, <1>3, LockGivenUp, RestingHolds
  <1>5. pub[p].pc \in Staged \/ pub[p].ino \notin staging
    <2>1. pub[p].pc \in PubPcs /\ PublisherHolds(p, pub[p])
      BY CasTypes DEF Call, CasInv, PublishersHold
    <2>2. pub[p].pc \in Staged \/ pub[p].pc \in {"recheck", "open", "hash"}
      BY <1>1, <2>1 DEF Staged, PubPcs
    <2>3. pub[p].pc \in {"recheck", "open", "hash"} => pub[p].ino \notin staging
      BY <2>1 DEF PublisherHolds
    <2> QED
      BY <2>2, <2>3
  <1>6. /\ pub[p].pc \in {"check", "flush"} /\ pub[p].made => pub[p].d \in unflushed'
        /\ unflushed \subseteq unflushed' /\ unflushed' \subseteq Digests
    <2>1. Unflushed(p) => pub[p].d \in Digests
      BY OwnFile DEF Unflushed, Staged
    <2> QED
      BY <1>1, <2>1, CasTypes DEF Unflushed
  <1> QED
    BY <1>1, <1>2, <1>4, <1>5, <1>6, UnstagedKeeps DEF Staged

LEMMA KillKeeps ==
    ASSUME CasInv, NEW p \in Publishers, KillPublisher(p)
    PROVE  CasInv'
  <1>1. /\ pub' = [pub EXCEPT ![p] = Resting] /\ faults' = faults + 1
        /\ lock' = IF lock = p THEN None ELSE lock
        /\ UNCHANGED <<content, flushed, staging, objects, durable, rd, del, acked, unflushed, known>>
    BY DEF KillPublisher, tree
  <1>2. Resting \in Call(PubPcs) /\ Resting.pc = "idle"
    BY DEF Resting, Call, PubPcs
  <1>3. pub' \in [Publishers -> Call(PubPcs)] /\ pub'[p] = Resting /\ \A q \in Publishers : q # p => pub'[q] = pub[q]
    BY <1>1, <1>2, OneMoves
  <1>4. faults' \in Nat /\ faults' # 0
    BY <1>1 DEF CasInv, CasTyped
  <1>5. CasTyped'
    BY <1>1, <1>3, <1>4 DEF CasInv, CasTyped
  <1>6. PublisherHolds(p, pub[p])' /\ \A q \in Publishers : q # p => (lock' = q <=> lock = q)
    BY <1>1, <1>3, LockGivenUp, RestingHolds
  <1>7. PublishersHold'
    <2>1. ASSUME NEW q \in Publishers, q # p PROVE PublisherHolds(q, pub[q])'
      BY <1>1, <1>3, <1>6, <2>1 DEF CasInv, PublishersHold, PublisherHolds
    <2>2. StagedApart(pub)'
      BY <1>2, <1>3 DEF CasInv, PublishersHold, StagedApart, Staged
    <2> QED
      BY <1>6, <2>1, <2>2 DEF PublishersHold
  <1> QED
    BY <1>1, <1>4, <1>5, <1>7, NamesStay, CallersStay DEF CasInv

\* An object's links: its name, which no other digest shares, and its staging name.
LEMMA LinksAre ==
    ASSUME CasInv, NEW d \in Digests, objects[d] # None
    PROVE  Links(objects[d]) = IF objects[d] \in staging THEN 2 ELSE 1
  <1>1. \A e \in Digests : objects[e] = objects[d] => e = d
    BY DEF CasInv, NamesHold, NameHolds
  <1>2. {e \in Digests : objects[e] = objects[d]} = {d}
    BY <1>1
  <1>3. Cardinality({d}) = 1
    BY FS_Singleton
  <1> QED
    BY <1>2, <1>3 DEF Links

LEMMA OpenKeeps ==
    ASSUME CasInv, NEW p \in Publishers, OpenPublished(p)
    PROVE  CasInv'
  <1> DEFINE i == objects[pub[p].d]
             m == [pub[p] EXCEPT !.pc = "hash", !.ino = i]
  <1>1. /\ pub[p].pc = "open" /\ pub' = [pub EXCEPT ![p] = m] /\ i # None /\ Links(i) = 1
        /\ UNCHANGED <<content, flushed, staging, objects, durable, lock, rd, del, acked, unflushed, known, faults>>
    BY DEF OpenPublished, OpensAt, HasLinks, tree
  <1>2. pub[p].d \in Digests /\ PublisherHolds(p, pub[p])
    BY <1>1 DEF CasInv, PublishersHold, PublisherHolds
  <1>3. i \in Inode /\ i \notin staging
    BY <1>1, <1>2, LinksAre, CasTypes
  <1> HIDE DEF i
  <1>4. m \in Call(PubPcs) /\ m.pc = "hash" /\ m.d = pub[p].d /\ m.ino = i
    BY <1>3, CasTypes DEF Call, PubPcs
  <1> HIDE DEF m
  <1>5. pub' \in [Publishers -> Call(PubPcs)] /\ pub'[p] = m /\ \A q \in Publishers : q # p => pub'[q] = pub[q]
    BY <1>1, <1>4, OneMoves
  <1>6. CasTyped'
    BY <1>1, <1>5 DEF CasInv, CasTyped
  <1>7. PublishersHold'
    <2>1. PublisherHolds(p, pub[p])'
      BY <1>1, <1>2, <1>3, <1>4, <1>5 DEF PublisherHolds, Staged, Locked
    <2>2. ASSUME NEW q \in Publishers, q # p PROVE PublisherHolds(q, pub[q])'
      BY <1>1, <1>5, <2>2 DEF CasInv, PublishersHold, PublisherHolds
    <2>3. StagedApart(pub)'
      BY <1>4, <1>5 DEF CasInv, PublishersHold, StagedApart, Staged
    <2> QED
      BY <2>1, <2>2, <2>3 DEF PublishersHold
  <1>8. ASSUME Tidy PROVE Tidy'
    <2>1. \A j \in staging : \E q \in Publishers : pub'[q].pc \in Staged /\ pub'[q].ino = j
      BY <1>1, <1>5, <1>8 DEF Tidy, Staged
    <2>2. \A e \in Digests : objects[e] # None /\ objects[e] \in staging =>
             \E q \in Publishers : /\ pub'[q].pc \in {"check", "flush", "unstage"} /\ pub'[q].made
                                  /\ pub'[q].ino = objects[e]
      BY <1>1, <1>5, <1>8 DEF Tidy
    <2> QED
      BY <1>1, <2>1, <2>2 DEF Tidy
  <1>9. faults' = 0 => Tidy'
    BY <1>1, <1>8 DEF CasInv
  <1> QED
    BY <1>1, <1>6, <1>7, <1>9, NamesStay, CallersStay DEF CasInv

LEMMA ReturnKeeps ==
    ASSUME CasInv, NEW p \in Publishers, ReturnPublished(p)
    PROVE  CasInv'
  <1> DEFINE d == pub[p].d
  <1>1. /\ pub[p].pc = "hash" /\ pub' = [pub EXCEPT ![p] = Resting] /\ acked' = acked \cup {d}
        /\ objects[d] = pub[p].ino /\ Links(pub[p].ino) = 1 /\ known' = known \cup {d}
        /\ UNCHANGED <<content, flushed, staging, objects, durable, lock, rd, del, unflushed, faults>>
    BY DEF ReturnPublished, StillNamed, tree
  <1>2. d \in Digests /\ PublisherHolds(p, pub[p]) /\ pub[p].ino \in Inode /\ lock # p
    BY <1>1 DEF CasInv, PublishersHold, PublisherHolds, Locked
  <1>3. objects[d] # None /\ objects[d] \notin staging
    BY <1>1, <1>2, LinksAre, CasTypes
  <1> HIDE DEF d
  <1>4. Resting \in Call(PubPcs) /\ Resting.pc = "idle"
    BY DEF Resting, Call, PubPcs
  <1>5. pub' \in [Publishers -> Call(PubPcs)] /\ pub'[p] = Resting /\ \A q \in Publishers : q # p => pub'[q] = pub[q]
    BY <1>1, <1>4, OneMoves
  <1>6. CasTyped'
    BY <1>1, <1>2, <1>5 DEF CasInv, CasTyped
  <1>7. PublishersHold'
    <2>1. PublisherHolds(p, pub[p])'
      BY <1>1, <1>2, <1>5, RestingHolds
    <2>2. ASSUME NEW q \in Publishers, q # p PROVE PublisherHolds(q, pub[q])'
      BY <1>1, <1>5, <2>2 DEF CasInv, PublishersHold, PublisherHolds
    <2>3. StagedApart(pub)'
      BY <1>4, <1>5 DEF CasInv, PublishersHold, StagedApart, Staged
    <2> QED
      BY <2>1, <2>2, <2>3 DEF PublishersHold
  <1>8. NamesHold'
    BY <1>1, <1>3 DEF CasInv, NamesHold, NameHolds
  <1>9. ASSUME Tidy PROVE Tidy'
    <2>1. \A j \in staging : \E q \in Publishers : pub'[q].pc \in Staged /\ pub'[q].ino = j
      BY <1>1, <1>5, <1>9 DEF Tidy, Staged
    <2>2. \A e \in Digests : objects[e] # None /\ objects[e] \in staging =>
             \E q \in Publishers : /\ pub'[q].pc \in {"check", "flush", "unstage"} /\ pub'[q].made
                                  /\ pub'[q].ino = objects[e]
      BY <1>1, <1>5, <1>9 DEF Tidy
    <2> QED
      BY <1>1, <2>1, <2>2 DEF Tidy
  <1>10. faults' = 0 => Tidy'
    BY <1>1, <1>9 DEF CasInv
  <1> QED
    BY <1>1, <1>6, <1>7, <1>8, <1>10, CallersStay DEF CasInv

\* A step of another caller that leaves the names and the publishers.
LEMMA OthersStep ==
    ASSUME CasInv, CallersHold', known' = known,
           UNCHANGED <<content, flushed, staging, objects, durable, lock, pub, acked, unflushed, faults>>
    PROVE  CasInv'
  <1>1. CasTyped' /\ PublishersHold' /\ (faults' = 0 => Tidy')
    BY DEF CasInv, CasTyped, PublishersHold, PublisherHolds, Tidy
  <1> QED
    BY <1>1, NamesStay DEF CasInv

\* The record of a deleter.
LEMMA DeleterTypes ==
    ASSUME NEW k \in Call(DelPcs), NEW pc \in DelPcs
    PROVE  /\ [k EXCEPT !.pc = pc] \in Call(DelPcs) /\ [k EXCEPT !.pc = pc].pc = pc
           /\ [k EXCEPT !.pc = pc].d = k.d /\ [k EXCEPT !.pc = pc].ino = k.ino
           /\ Resting \in Call(DelPcs) /\ Resting.pc = "idle"
           /\ k.pc \in DelPcs
  BY DEF Call, Resting, DelPcs

LEMMA ReaderKeeps ==
    ASSUME CasInv, NEW p \in Readers, NEW k \in Call(RdPcs), rd' = [rd EXCEPT ![p] = k],
           k.pc = "open" => k.d \in Digests, del' = del
    PROVE  CallersHold'
  BY DEF CasInv, CallersHold

LEMMA DeleterKeeps ==
    ASSUME CasInv, NEW p \in Deleters, NEW k \in Call(DelPcs), del' = [del EXCEPT ![p] = k],
           k.pc \notin {"away", "idle"} => k.d \in Digests, rd' = rd
    PROVE  CallersHold'
  BY DEF CasInv, CallersHold

LEMMA ReadStepKeeps ==
    ASSUME CasInv, NEW p \in Readers, ReadStep(p)
    PROVE  CasInv'
  <1>1. /\ UNCHANGED <<content, flushed, staging, objects, durable, lock, pub, acked, unflushed, faults>>
        /\ known' = known /\ del' = del
    BY DEF ReadStep, StartRead, OpenToRead, FinishRead, tree
  <1>2. Resting \in Call(RdPcs) /\ Resting.pc = "idle"
    BY DEF Resting, Call, RdPcs
  <1>3. PICK k \in Call(RdPcs) : rd' = [rd EXCEPT ![p] = k] /\ (k.pc = "open" => k.d \in Digests)
    <2>1. ASSUME NEW d \in Digests, StartRead(p, d)
          PROVE  \E k \in Call(RdPcs) : rd' = [rd EXCEPT ![p] = k] /\ (k.pc = "open" => k.d \in Digests)
      <3> DEFINE k == [Resting EXCEPT !.pc = "open", !.d = d]
      <3>1. k \in Call(RdPcs) /\ k.d = d
        BY DEF Resting, Call, RdPcs
      <3>2. rd' = [rd EXCEPT ![p] = k]
        BY <2>1 DEF StartRead
      <3> QED
        BY <3>1, <3>2
    <2>2. ASSUME OpenToRead(p)
          PROVE  \E k \in Call(RdPcs) : rd' = [rd EXCEPT ![p] = k] /\ (k.pc = "open" => k.d \in Digests)
      <3> DEFINE k == [rd[p] EXCEPT !.pc = "hash", !.ino = objects[rd[p].d]]
      <3>1. rd[p].pc = "open" /\ rd[p].d \in Digests /\ rd[p] \in Call(RdPcs)
        BY <2>2 DEF OpenToRead, CasInv, CallersHold
      <3>2. objects[rd[p].d] \in Inode \cup {None}
        BY <3>1, CasTypes
      <3>3. k \in Call(RdPcs) /\ k.pc = "hash"
        BY <3>1, <3>2 DEF Call, RdPcs
      <3>4. rd' = [rd EXCEPT ![p] = k] \/ rd' = [rd EXCEPT ![p] = Resting]
        BY <2>2 DEF OpenToRead
      <3> HIDE DEF k
      <3> QED
        BY <1>2, <3>3, <3>4
    <2>3. ASSUME FinishRead(p)
          PROVE  \E k \in Call(RdPcs) : rd' = [rd EXCEPT ![p] = k] /\ (k.pc = "open" => k.d \in Digests)
      BY <1>2, <2>3 DEF FinishRead
    <2> QED
      BY <2>1, <2>2, <2>3 DEF ReadStep
  <1> QED
    BY <1>1, <1>3, ReaderKeeps, OthersStep

\* A deleter that goes on, or gives up.
LEMMA DeleterMoves ==
    ASSUME CasInv, NEW p \in Deleters, NEW pc \in DelPcs, del[p].pc \notin {"away", "idle"},
           DelTo(p, pc) \/ del' = [del EXCEPT ![p] = Resting], rd' = rd
    PROVE  CallersHold' /\ del[p].d \in Digests
  <1> DEFINE k == [del[p] EXCEPT !.pc = pc]
  <1>1. del[p].d \in Digests /\ del[p] \in Call(DelPcs) /\ "idle" \in DelPcs
    BY DEF CasInv, CallersHold, DelPcs
  <1>2. /\ k \in Call(DelPcs) /\ k.d = del[p].d
        /\ Resting \in Call(DelPcs) /\ Resting.pc = "idle"
    BY <1>1, DeleterTypes
  <1>3. del' = [del EXCEPT ![p] = k] \/ del' = [del EXCEPT ![p] = Resting]
    BY DEF DelTo
  <1> HIDE DEF k
  <1> QED
    BY <1>1, <1>2, <1>3, DeleterKeeps

LEMMA InspectKeeps ==
    ASSUME CasInv, NEW p \in Deleters, NEW d \in Digests, InspectGeneration(p, d)
    PROVE  CasInv'
  <1> DEFINE k == [Resting EXCEPT !.pc = "chosen", !.d = d, !.ino = objects[d]]
  <1>1. objects[d] \in Inode \cup {None}
    BY CasTypes
  <1>2. k \in Call(DelPcs) /\ k.d = d
    BY <1>1 DEF Call, Resting, DelPcs
  <1>3. /\ del' = [del EXCEPT ![p] = k] /\ rd' = rd
        /\ UNCHANGED <<content, flushed, staging, objects, durable, lock, pub, acked, unflushed, known, faults>>
    BY DEF InspectGeneration, tree
  <1> HIDE DEF k
  <1> QED
    BY <1>2, <1>3, DeleterKeeps, OthersStep

LEMMA LookingKeeps ==
    ASSUME CasInv, NEW p \in Deleters, VerifyToUnlink(p) \/ StatToUnlink(p)
    PROVE  CasInv'
  <1>1. /\ del[p].pc \notin {"away", "idle"}
        /\ rd' = rd /\ UNCHANGED <<content, flushed, staging, objects, durable, lock, pub, acked, unflushed, known, faults>>
    BY DEF VerifyToUnlink, StatToUnlink, tree
  <1>2. PICK pc \in DelPcs : DelTo(p, pc) \/ del' = [del EXCEPT ![p] = Resting]
    BY DEF VerifyToUnlink, StatToUnlink, DelPcs
  <1>3. CallersHold'
    BY <1>1, <1>2, DeleterMoves
  <1> QED
    BY <1>1, <1>3, OthersStep

LEMMA UnlinkKeeps ==
    ASSUME CasInv, NEW p \in Deleters, UnlinkName(p)
    PROVE  CasInv'
  <1> DEFINE d == del[p].d
  <1>1. /\ del[p].pc = "unlink"
        /\ DelTo(p, "flush") \/ del' = [del EXCEPT ![p] = Resting]
        /\ UNCHANGED <<content, flushed, staging, durable, lock, pub, rd, known, faults>>
    BY DEF UnlinkName
  <1>2. CallersHold' /\ d \in Digests
    <2>1. "flush" \in DelPcs /\ del[p].pc \notin {"away", "idle"} /\ rd' = rd
      BY <1>1 DEF UnlinkName, DelPcs
    <2> QED
      BY <1>1, <2>1, DeleterMoves DEF UnlinkName
  <1>3. CASE objects[d] = None
    <2>1. objects' = objects /\ acked' = acked /\ unflushed' = unflushed
      BY <1>3 DEF UnlinkName
    <2> QED
      BY <1>1, <1>2, <2>1, OthersStep
  <1>4. CASE objects[d] # None
    <2>1. objects' = [objects EXCEPT ![d] = None] /\ acked' = acked \ {d} /\ unflushed' = unflushed \ {d}
      BY <1>4 DEF UnlinkName
    <2> HIDE DEF d
    <2>2. /\ objects' \in [Digests -> Inode \cup {None}] /\ objects'[d] = None
          /\ \A e \in Digests : e # d => objects'[e] = objects[e]
      BY <1>2, <2>1, CasTypes
    <2>3. CasTyped'
      BY <1>1, <2>1, <2>2 DEF CasInv, CasTyped
    <2>4. PublishersHold'
      <3>1. ASSUME NEW q \in Publishers PROVE PublisherHolds(q, pub[q])'
        <4>1. PublisherHolds(q, pub[q])
          BY DEF CasInv, PublishersHold
        <4>2. pub[q].pc \in Staged => /\ pub[q].d \in Digests /\ pub[q].ino # None
                                      /\ objects'[pub[q].d] \in {None, objects[pub[q].d]}
          BY <2>2, <4>1, CasTypes DEF PublisherHolds, Staged
        <4> QED
          BY <1>1, <4>1, <4>2 DEF PublisherHolds, Staged
      <3>2. StagedApart(pub)'
        BY <1>1 DEF CasInv, PublishersHold, StagedApart
      <3> QED
        BY <3>1, <3>2 DEF PublishersHold
    <2>5. NamesHold'
      <3>1. ASSUME NEW e \in Digests PROVE NameHolds(e)'
        BY <1>1, <2>1, <2>2 DEF CasInv, NamesHold, NameHolds
      <3>2. ASSUME NEW e \in acked', e \notin unflushed' \/ faults = 0 PROVE objects'[e] # None /\ objects'[e] \notin staging
        BY <2>1, <2>2, <3>2, CasTypes DEF CasInv, NamesHold
      <3> QED
        BY <1>1, <3>1, <3>2 DEF CasInv, NamesHold
    <2>6. faults' = 0 => Tidy'
      <3>1. ASSUME Tidy PROVE Tidy'
        <4>1. ASSUME NEW e \in Digests, objects'[e] # None, objects'[e] \in staging
              PROVE  objects[e] = objects'[e]
          BY <2>2, <4>1
        <4> QED
          BY <1>1, <3>1, <4>1 DEF Tidy
      <3> QED
        BY <1>1, <3>1 DEF CasInv
    <2> QED
      BY <1>2, <2>3, <2>4, <2>5, <2>6 DEF CasInv
  <1> QED
    BY <1>3, <1>4

LEMMA FlushUnlinkKeeps ==
    ASSUME CasInv, NEW p \in Deleters, FlushUnlink(p)
    PROVE  CasInv'
  <1> DEFINE d == del[p].d
  <1>1. /\ del[p].pc = "flush" /\ durable' = [durable EXCEPT ![d] = objects[d]]
        /\ del' = [del EXCEPT ![p] = Resting] /\ rd' = rd
        /\ UNCHANGED <<content, flushed, staging, objects, lock, pub, acked, unflushed, known, faults>>
    BY DEF FlushUnlink
  <1>2. CallersHold' /\ d \in Digests
    <2>1. "flush" \in DelPcs /\ del[p].pc \notin {"away", "idle"}
      BY <1>1 DEF DelPcs
    <2> QED
      BY <1>1, <2>1, DeleterMoves
  <1> HIDE DEF d
  <1>3. /\ durable' \in [Digests -> Inode \cup {None}] /\ durable'[d] = objects[d]
        /\ \A e \in Digests : e # d => durable'[e] = durable[e]
    BY <1>1, <1>2, CasTypes
  <1>4. CasTyped'
    BY <1>1, <1>3 DEF CasInv, CasTyped
  <1>5. PublishersHold'
    <2>1. ASSUME NEW q \in Publishers PROVE PublisherHolds(q, pub[q])'
      <3>1. PublisherHolds(q, pub[q])
        BY DEF CasInv, PublishersHold
      <3>2. pub[q].pc = "unstage" => pub[q].d \in Digests
        BY <3>1 DEF PublisherHolds
      <3> QED
        BY <1>1, <1>3, <3>1, <3>2 DEF PublisherHolds
    <2>2. StagedApart(pub)'
      BY <1>1 DEF CasInv, PublishersHold, StagedApart
    <2> QED
      BY <2>1, <2>2 DEF PublishersHold
  <1>6. NamesHold'
    <2>1. ASSUME NEW e \in Digests PROVE NameHolds(e)'
      BY <1>1, <1>3 DEF CasInv, NamesHold, NameHolds
    <2> QED
      BY <1>1, <2>1 DEF CasInv, NamesHold
  <1>7. faults' = 0 => Tidy'
    BY <1>1 DEF CasInv, Tidy
  <1> QED
    BY <1>2, <1>4, <1>5, <1>6, <1>7 DEF CasInv

LEMMA DeleteStepKeeps ==
    ASSUME CasInv, NEW p \in Deleters, DeleteStep(p)
    PROVE  CasInv'
  BY InspectKeeps, LookingKeeps, UnlinkKeeps, FlushUnlinkKeeps DEF DeleteStep

\* Inventories and proofs of absence only look.
LEMMA LookersKeep ==
    ASSUME CasInv, (\E p \in Listers : ListStep(p)) \/ (\E p \in Provers : ProveStep(p))
    PROVE  CasInv'
  <1>1. UNCHANGED <<content, flushed, staging, objects, durable, lock, pub, rd, del, acked, unflushed, known, faults>>
    <2>1. ASSUME NEW p \in Listers, ListStep(p)
          PROVE  UNCHANGED <<content, flushed, staging, objects, durable, lock, pub, rd, del, acked, unflushed, known, faults>>
      BY <2>1, ZenonT(40) DEF ListStep, StartListing, ResumeListing, BeginScan, EndScan, ReturnListing, InspectListed, tree
    <2>2. ASSUME NEW p \in Provers, ProveStep(p)
          PROVE  UNCHANGED <<content, flushed, staging, objects, durable, lock, pub, rd, del, acked, unflushed, known, faults>>
      BY <2>2 DEF ProveStep, OpenParent, Look, CompareParent, ReturnProof, tree
    <2> QED
      BY <2>1, <2>2, SMTT(30)
  <1> QED
    BY <1>1, CallersStay, OthersStep

LEMMA PowerKeeps ==
    ASSUME CasInv, PowerLoss
    PROVE  CasInv'
  <1>1. /\ content' = [i \in Inode |-> IF i \in flushed THEN content[i] ELSE None]
        /\ durable' = objects' /\ staging' \subseteq staging /\ lock' = None
        /\ pub' = [p \in Publishers |-> IF p \in Publishing THEN Resting ELSE pub[p]]
        /\ rd' = [p \in Readers |-> IF rd[p] = Away THEN Away ELSE Resting]
        /\ del' = [p \in Deleters |-> IF del[p] = Away THEN Away ELSE Resting]
        /\ faults' = faults + 1 /\ flushed' = flushed
        /\ acked' = acked /\ unflushed' = unflushed /\ known' = known
    BY DEF PowerLoss
  <1>2. /\ objects' \in [Digests -> Inode \cup {None}]
        /\ \A d \in Digests : objects'[d] = objects[d] \/ objects'[d] = durable[d]
    <2>1. PICK kept \in SUBSET Digests :
             objects' = [d \in Digests |-> IF d \in kept THEN objects[d] ELSE durable[d]]
      BY DEF PowerLoss
    <2> QED
      BY <2>1, CasTypes
  <1>3. /\ Resting \in Call(PubPcs) /\ Resting \in Call(RdPcs) /\ Resting \in Call(DelPcs) /\ Resting.pc = "idle"
        /\ Away \in Call(RdPcs) /\ Away \in Call(DelPcs) /\ Away.pc = "away"
    BY DEF Resting, Away, Call, PubPcs, RdPcs, DelPcs
  <1>4. pub' \in [Publishers -> Call(PubPcs)] /\ \A p \in Publishers : pub'[p].pc \in {"away", "idle"}
    BY <1>1, <1>3, CasTypes DEF Publishing
  <1>5. faults' \in Nat /\ faults' # 0
    BY <1>1 DEF CasInv, CasTyped
  <1>6. content' \in [Inode -> Digests \cup {None}] /\ \A i \in flushed : content'[i] = content[i]
    BY <1>1, CasTypes
  <1>7. CasTyped'
    BY <1>1, <1>2, <1>4, <1>5, <1>6 DEF CasInv, CasTyped
  <1>8. CallersHold'
    BY <1>1, <1>3 DEF CallersHold
  <1>9. PublishersHold'
    BY <1>1, <1>4, CasTypes DEF PublishersHold, PublisherHolds, StagedApart, Staged, Locked
  <1>10. NamesHold'
    <2>1. ASSUME NEW d \in Digests PROVE NameHolds(d)'
      BY <1>1, <1>2, <1>6 DEF CasInv, NamesHold, NameHolds
    <2>2. ASSUME NEW d \in acked, d \notin unflushed PROVE objects'[d] # None /\ objects'[d] \notin staging'
      BY <1>1, <1>2, <2>2, CasTypes DEF CasInv, NamesHold, NameHolds
    <2> QED
      BY <1>1, <1>5, <1>6, <2>1, <2>2 DEF CasInv, NamesHold
  <1> QED
    BY <1>5, <1>7, <1>8, <1>9, <1>10 DEF CasInv

LEMMA PublishStepKeeps ==
    ASSUME CasInv, NEW p \in Publishers, PublishStep(p)
    PROVE  CasInv'
  BY StagingKeeps, CopyKeeps, AcquireKeeps, LinkKeeps, CheckKeeps, FlushKeeps, UnlinkStagingKeeps,
     RecheckKeeps, OpenKeeps, ReturnKeeps, FailKeeps, KillKeeps
  DEF PublishStep

LEMMA CasStepKeeps ==
    ASSUME CasInv, Next
    PROVE  CasInv'
  <1>1. ASSUME Rest PROVE CasInv'
    <2>1. UNCHANGED <<content, flushed, staging, objects, durable, lock, pub, rd, del, acked, unflushed, known, faults>>
      BY <1>1 DEF Rest, vars, tree
    <2> QED
      BY <2>1, CallersStay, OthersStep
  <1> QED
    BY <1>1, PublishStepKeeps, ReadStepKeeps, DeleteStepKeeps, LookersKeep, PowerKeeps DEF Next

LEMMA CasInit == Init => CasInv
  <1> SUFFICES ASSUME Init PROVE CasInv
    OBVIOUS
  <1>1. /\ content = [i \in Inode |-> None] /\ flushed = {} /\ staging = {}
        /\ objects = [d \in Digests |-> None] /\ durable = [d \in Digests |-> None]
        /\ lock = None /\ acked = {} /\ unflushed = {} /\ known = {}
    BY DEF Init
  <1>2. PICK cast \in Casts :
          /\ pub = [p \in Publishers |-> IF p \in cast THEN Resting ELSE Away]
          /\ rd = [p \in Readers |-> IF p \in cast THEN Resting ELSE Away]
          /\ del = [p \in Deleters |-> IF p \in cast THEN Resting ELSE Away]
          /\ faults = IF cast \in Calm THEN MaxFaults ELSE 0
    BY DEF Init
  <1>3. /\ Resting \in Call(PubPcs) /\ Resting \in Call(RdPcs) /\ Resting \in Call(DelPcs) /\ Resting.pc = "idle"
        /\ Away \in Call(PubPcs) /\ Away \in Call(RdPcs) /\ Away \in Call(DelPcs) /\ Away.pc = "away"
    BY DEF Resting, Away, Call, PubPcs, RdPcs, DelPcs
  <1>4. pub \in [Publishers -> Call(PubPcs)] /\ \A p \in Publishers : pub[p].pc \in {"away", "idle"}
    BY <1>2, <1>3
  <1>5. CasTyped
    BY <1>1, <1>2, <1>4, CasAssumption DEF CasTyped
  <1>6. CallersHold
    BY <1>2, <1>3 DEF CallersHold
  <1>7. PublishersHold
    BY <1>1, <1>4, CasAssumption DEF PublishersHold, PublisherHolds, StagedApart, Staged, Locked
  <1>8. NamesHold /\ Tidy
    BY <1>1 DEF NamesHold, NameHolds, Tidy
  <1> QED
    BY <1>5, <1>6, <1>7, <1>8 DEF CasInv

\* Whoever linked an object that still has its staging name holds the lock.
LEMMA LinkerHoldsLock ==
    ASSUME CasInv, faults = 0, NEW d \in Digests, objects[d] # None, objects[d] \in staging
    PROVE  lock \in Publishers /\ pub[lock].made /\ pub[lock].ino = objects[d]
  <1>1. PICK p \in Publishers : pub[p].pc \in {"check", "flush", "unstage"} /\ pub[p].made /\ pub[p].ino = objects[d]
    BY DEF CasInv, Tidy
  <1>2. lock = p
    BY <1>1 DEF CasInv, PublishersHold, PublisherHolds, Locked
  <1> QED
    BY <1>1, <1>2

LEMMA CasHolds ==
    ASSUME CasInv
    PROVE  /\ AcknowledgedIsReadable /\ AcknowledgedIsDurable
           /\ TransientLinksAreHidden /\ StagingBelongsToALiveCall
  <1>1. ASSUME NEW d \in acked
        PROVE  /\ objects[d] # None => content[objects[d]] = d
               /\ d \notin unflushed \/ faults = 0 => objects[d] # None /\ Links(objects[d]) = 1
               /\ d \notin unflushed => durable[d] = objects[d] /\ objects[d] \in flushed
    <2>1. d \in Digests /\ (d \notin unflushed \/ faults = 0 => objects[d] # None /\ objects[d] \notin staging)
      BY CasTypes DEF CasInv, NamesHold
    <2> QED
      BY <2>1, LinksAre DEF CasInv, NamesHold, NameHolds
  <1>2. ASSUME faults = 0, NEW p \in Readers, rd[p].pc = "open", lock = None, objects[rd[p].d] # None
        PROVE  Links(objects[rd[p].d]) = 1
    <2>1. rd[p].d \in Digests
      BY <1>2 DEF CasInv, CallersHold
    <2>2. objects[rd[p].d] \notin staging
      BY <1>2, <2>1, LinkerHoldsLock, CasTypes
    <2> QED
      BY <1>2, <2>1, <2>2, LinksAre
  <1>3. ASSUME faults = 0, NEW p \in Publishers, pub[p].pc = "check", objects[pub[p].d] # None
        PROVE  CandidateHolds(p)
    <2>1. PublisherHolds(p, pub[p]) /\ pub[p].d \in Digests /\ lock = p /\ pub[p].ino \in staging
      BY <1>3 DEF CasInv, PublishersHold, PublisherHolds, Staged, Locked
    <2>2. pub[p].made => objects[pub[p].d] \in staging
      BY <1>3, <2>1 DEF PublisherHolds
    <2>3. ~pub[p].made => objects[pub[p].d] \notin staging
      BY <1>3, <2>1, LinkerHoldsLock
    <2>4. Links(objects[pub[p].d]) = IF pub[p].made THEN 2 ELSE 1
      BY <1>3, <2>1, <2>2, <2>3, LinksAre
    <2> QED
      BY <1>3, <2>4 DEF CandidateHolds, HasLinks
  <1>4. StagingBelongsToALiveCall
    BY DEF CasInv, Tidy, StagingBelongsToALiveCall, Publishing, Staged
  <1>5. TransientLinksAreHidden
    BY <1>2, <1>3 DEF TransientLinksAreHidden, SharedLockIsFree
  <1> QED
    BY <1>1, <1>4, <1>5 DEF AcknowledgedIsReadable, AcknowledgedIsDurable

\* What publish returned is readable, with its own bytes and one link, and is on the disk,
\* however publishers, readers and deleters interleave and whoever fails, is killed or loses
\* power meanwhile; without a fault nobody who may look sees a link under .staging, and every
\* one belongs to a call under way.  An entry whose directory a failing publisher did not
\* flush is readable until the power goes, may then be gone, and never has other bytes
\* (cas.py publish, the reuse path).
THEOREM PublishedStays == StoresSpec => []PublicationHolds
  <1> DEFINE Inv == part = "cas" => CasInv
  <1>1. StoresInit => Inv
    BY CasInit DEF StoresInit, StoresStart
  <1>2. Inv /\ [StoresNext]_storesVars => Inv'
    <2> SUFFICES ASSUME Inv, [StoresNext]_storesVars, part' = "cas" PROVE CasInv'
      OBVIOUS
    <2>1. CASE StoresNext
      <3>1. (part = "cas" /\ Next) \/ UNCHANGED storesVars
        BY <2>1 DEF StoresNext
      <3>2. CASE Next
        BY <2>1, <3>2, CasStepKeeps DEF StoresNext
      <3>3. CASE UNCHANGED storesVars
        BY <3>3, CallersStay, OthersStep DEF storesVars, vars, tree
      <3> QED
        BY <3>1, <3>2, <3>3
    <2>2. CASE UNCHANGED storesVars
      BY <2>2, CallersStay, OthersStep DEF storesVars, vars, tree
    <2> QED
      BY <2>1, <2>2
  <1>3. Inv => PublicationHolds
    BY CasHolds DEF PublicationHolds
  <1> QED
    BY <1>1, <1>2, <1>3, PTL DEF StoresSpec

-----------------------------------------------------------------------------
\* The steps of those who only look, and of those who delete.

ListerPcs == {"away", "idle", "scan", "paged", "done"}
Listing == [of : {"objects", "staging"}, pc : ListerPcs, todo : SUBSET Entries, found : SUBSET Entries,
            old : SUBSET Inode, cursor : Entries \cup {None}, listed : SUBSET Entries]
ProverPcs == {"away", "idle", "open", "looked", "compared", "again", "proved"}

\* What a listing found is still there, and of an old file, or the directory has changed.
StillFound(k, p) ==
    k.pc = "scan" /\ p \notin dirty =>
        \A n \in k.found : n \in Names(k.of) /\ InodeOf(k.of, n) \in k.old

\* A name that was looked for in vain is absent still, or its directory has changed.
Looked(k, p) ==
    k.pc \in {"looked", "compared", "again"} /\ p \notin dirty => objects[k.d] = None

LookersHold ==
    /\ ls \in [Listers -> Listing] /\ proof \in [Provers -> Call(ProverPcs)]
    /\ \A p \in Listers : StillFound(ls[p], p)
    /\ \A p \in Provers : /\ Looked(proof[p], p)
                          /\ proof[p].pc \notin {"away", "idle"} => proof[p].d \in Digests

\* Maintenance keeps publication away, so what a deleter compared is what it removes.
GenerationsHold ==
    /\ Publishing = {} \/ Deleting = {}
    /\ \A p \in Deleters : del[p].pc = "unlink" => objects[del[p].d] \in {None, del[p].ino}

ExactInv == CasInv /\ LookersHold /\ (Serialized => GenerationsHold)

\* What a step may do to the directories, and who notices.
TreeMoves ==
    \/ UNCHANGED <<objects, staging>> /\ dirty' = dirty
    \/ objects' = objects /\ StagingChanges
    \/ /\ staging' = staging
       /\ \E d \in Digests : \E i \in Inode \cup {None} : objects' = [objects EXCEPT ![d] = i] /\ ObjectsChange(d)

LEMMA LookersStay ==
    ASSUME CasInv, LookersHold, TreeMoves, UNCHANGED <<ls, proof>>
    PROVE  LookersHold'
  <1>1. CASE UNCHANGED <<objects, staging>> /\ dirty' = dirty
    BY <1>1 DEF LookersHold, StillFound, Looked, Names, InodeOf, Present
  <1>2. CASE objects' = objects /\ StagingChanges
    <2>1. dirty \subseteq dirty' /\ \A p \in Listers : ls[p].pc = "scan" /\ ls[p].of = "staging" => p \in dirty'
      BY <1>2 DEF StagingChanges, Scanning
    <2>2. ASSUME NEW p \in Listers PROVE StillFound(ls[p], p)'
      <3>1. StillFound(ls[p], p) /\ ls[p] \in Listing /\ ls'[p] = ls[p]
        BY DEF LookersHold
      <3>2. ls[p].of \in {"objects", "staging"}
        BY <3>1 DEF Listing
      <3> QED
        BY <1>2, <2>1, <3>1, <3>2 DEF StillFound, Names, InodeOf, Present
    <2>3. ASSUME NEW p \in Provers PROVE Looked(proof[p], p)'
      BY <1>2, <2>1 DEF LookersHold, Looked
    <2> QED
      BY <2>2, <2>3 DEF LookersHold
  <1>3. CASE /\ staging' = staging
             /\ \E d \in Digests : \E i \in Inode \cup {None} : objects' = [objects EXCEPT ![d] = i] /\ ObjectsChange(d)
    <2>1. PICK d \in Digests : \E i \in Inode \cup {None} : objects' = [objects EXCEPT ![d] = i] /\ ObjectsChange(d)
      BY <1>3
    <2>2. \A e \in Digests : e # d => objects'[e] = objects[e]
      BY <2>1, CasTypes
    <2>3. /\ dirty \subseteq dirty' /\ \A p \in Listers : ls[p].pc = "scan" /\ ls[p].of = "objects" => p \in dirty'
          /\ \A p \in Provers : proof[p].pc \in {"looked", "compared", "again"} /\ proof[p].d = d => p \in dirty'
      BY <2>1 DEF ObjectsChange, Scanning, Proving
    <2>4. ASSUME NEW p \in Listers PROVE StillFound(ls[p], p)'
      <3>1. StillFound(ls[p], p) /\ ls[p] \in Listing /\ ls'[p] = ls[p]
        BY DEF LookersHold
      <3>2. ls[p].of \in {"objects", "staging"}
        BY <3>1 DEF Listing
      <3> QED
        BY <1>3, <2>3, <3>1, <3>2 DEF StillFound, Names, InodeOf
    <2>5. ASSUME NEW p \in Provers PROVE Looked(proof[p], p)'
      BY <2>2, <2>3 DEF LookersHold, Looked
    <2> QED
      BY <2>4, <2>5 DEF LookersHold
  <1> QED
    BY <1>1, <1>2, <1>3 DEF TreeMoves

\* A publisher notices the directories it changes, starts only while nobody deletes, and
\* links only a free name.
LEMMA PublisherMoves ==
    ASSUME CasInv, NEW p \in Publishers, PublishStep(p)
    PROVE  /\ UNCHANGED <<del, ls, proof>> /\ TreeMoves
           /\ \A q \in Publishing' : q \in Publishing \/ (q = p /\ (Serialized => Deleting = {}))
           /\ \A d \in Digests : objects'[d] # objects[d] => objects[d] = None /\ p \in Publishing
  <1>1. \A q \in Publishers : q # p => pub'[q] = pub[q]
    <2>1. \E m : pub' = [pub EXCEPT ![p] = m]
      BY CasTypes DEF PublishStep, PubTo, CreateStaging, CopyAndHash, AcquirePublicationLock, LinkStaged, CheckCandidate,
         FlushDestination, UnlinkStaging, Recheck, OpenPublished, ReturnPublished, FailPublish, KillPublisher
    <2> QED
      BY <2>1, CasTypes
  <1>2. CASE \E d \in Digests : CreateStaging(p, d)
    <2>1. UNCHANGED <<del, ls, proof, objects>> /\ StagingChanges /\ (Serialized => Deleting = {})
      BY <1>2 DEF CreateStaging
    <2> QED
      BY <1>1, <2>1 DEF TreeMoves, Publishing
  <1>3. CASE LinkStaged(p)
    <2>1. /\ pub[p].pc = "link" /\ UNCHANGED <<del, ls, proof, staging>>
          /\ pub[p].d \in Digests /\ pub[p].ino \in Inode
      BY <1>3, OwnFile DEF LinkStaged, Staged
    <2>2. /\ objects[pub[p].d] = None => objects' = [objects EXCEPT ![pub[p].d] = pub[p].ino] /\ ObjectsChange(pub[p].d)
          /\ objects[pub[p].d] # None => UNCHANGED <<objects, dirty>>
      BY <1>3 DEF LinkStaged
    <2>3. TreeMoves
      BY <2>1, <2>2 DEF TreeMoves
    <2>4. p \in Publishing
      BY <2>1 DEF Publishing
    <2>5. \A d \in Digests : objects'[d] # objects[d] => objects[d] = None
      BY <2>1, <2>2, CasTypes
    <2> QED
      BY <1>1, <2>1, <2>3, <2>4, <2>5 DEF Publishing
  <1>4. CASE UnlinkStaging(p) \/ FailPublish(p)
    <2>1. UNCHANGED <<del, ls, proof, objects>> /\ StagingChanges /\ p \in Publishing
      BY <1>4 DEF UnlinkStaging, FailPublish, Publishing
    <2> QED
      BY <1>1, <2>1 DEF TreeMoves, Publishing
  <1>5. CASE \/ CopyAndHash(p) \/ AcquirePublicationLock(p) \/ CheckCandidate(p) \/ FlushDestination(p)
             \/ Recheck(p) \/ OpenPublished(p) \/ ReturnPublished(p) \/ KillPublisher(p)
    <2>1. UNCHANGED <<del, ls, proof, objects, staging, dirty>> /\ p \in Publishing
      BY <1>5 DEF CopyAndHash, AcquirePublicationLock, CheckCandidate, FlushDestination, Recheck, OpenPublished,
         ReturnPublished, KillPublisher, tree, Publishing
    <2> QED
      BY <1>1, <2>1 DEF TreeMoves, Publishing
  <1> QED
    BY <1>2, <1>3, <1>4, <1>5 DEF PublishStep

LEMMA GenerationsStay ==
    ASSUME Serialized => GenerationsHold, UNCHANGED <<del, objects>>, Publishing' \subseteq Publishing
    PROVE  Serialized => GenerationsHold'
  BY DEF GenerationsHold, Deleting

LEMMA PublishExact ==
    ASSUME ExactInv, NEW p \in Publishers, PublishStep(p)
    PROVE  LookersHold' /\ (Serialized => GenerationsHold')
  <1>1. /\ UNCHANGED <<del, ls, proof>> /\ TreeMoves
        /\ \A q \in Publishing' : q \in Publishing \/ (q = p /\ (Serialized => Deleting = {}))
        /\ \A d \in Digests : objects'[d] # objects[d] => objects[d] = None /\ p \in Publishing
    BY PublisherMoves DEF ExactInv
  <1>2. LookersHold'
    BY <1>1, LookersStay DEF ExactInv
  <1>3. ASSUME Serialized PROVE GenerationsHold'
    <2>1. Publishing' = {} \/ Deleting' = {}
      BY <1>1, <1>3 DEF ExactInv, GenerationsHold, Deleting
    <2>2. ASSUME NEW q \in Deleters, del[q].pc = "unlink" PROVE objects'[del[q].d] \in {None, del[q].ino}
      <3>1. q \in Deleting /\ del[q].d \in Digests
        BY <2>2 DEF Deleting, ExactInv, CasInv, CallersHold
      <3>2. Publishing = {}
        BY <1>3, <3>1 DEF ExactInv, GenerationsHold
      <3>3. objects'[del[q].d] = objects[del[q].d]
        BY <1>1, <3>1, <3>2
      <3> QED
        BY <1>3, <2>2, <3>3 DEF ExactInv, GenerationsHold
    <2> QED
      BY <1>1, <2>1, <2>2 DEF GenerationsHold
  <1> QED
    BY <1>2, <1>3

LEMMA DeleteExact ==
    ASSUME ExactInv, NEW p \in Deleters, DeleteStep(p)
    PROVE  /\ LookersHold' /\ (Serialized => GenerationsHold')
           /\ \A d \in Digests : objects'[d] # objects[d] =>
                 objects'[d] = None /\ del[p].pc = "unlink" /\ del[p].d = d
  <1>1. UNCHANGED <<staging, pub, ls, proof>>
    BY DEF DeleteStep, InspectGeneration, VerifyToUnlink, StatToUnlink, UnlinkName, FlushUnlink, tree
  <1>2. del \in [Deleters -> Call(DelPcs)] /\ CasInv
    BY DEF ExactInv, CasInv, CallersHold
  <1>3. \A q \in Deleters : q # p => del'[q] = del[q]
    <2>1. \E m : del' = [del EXCEPT ![p] = m]
      BY <1>2 DEF DeleteStep, DelTo, InspectGeneration, VerifyToUnlink, StatToUnlink, UnlinkName, FlushUnlink
    <2> QED
      BY <1>2, <2>1
  <1>4. CASE UnlinkName(p) /\ objects[del[p].d] # None
    <2>1. /\ del[p].pc = "unlink" /\ objects' = [objects EXCEPT ![del[p].d] = None] /\ ObjectsChange(del[p].d)
          /\ DelTo(p, "flush") /\ del[p].d \in Digests
      BY <1>2, <1>4 DEF UnlinkName, CasInv, CallersHold
    <2>2. TreeMoves
      BY <1>1, <2>1 DEF TreeMoves
    <2>3. /\ \A d \in Digests : d # del[p].d => objects'[d] = objects[d]
          /\ objects'[del[p].d] = None
      BY <1>2, <2>1, CasTypes
    <2>4. del'[p].pc = "flush"
      BY <1>2, <2>1 DEF DelTo, Call
    <2>5. ASSUME Serialized PROVE GenerationsHold'
      <3>1. GenerationsHold /\ p \in Deleting
        BY <2>1, <2>5 DEF ExactInv, Deleting
      <3>2. Publishing' = {}
        BY <1>1, <3>1 DEF GenerationsHold, Publishing
      <3>3. ASSUME NEW q \in Deleters, del'[q].pc = "unlink" PROVE objects'[del'[q].d] \in {None, del'[q].ino}
        <4>1. q # p /\ del'[q] = del[q] /\ del[q].d \in Digests
          BY <1>2, <1>3, <2>4, <3>3 DEF CasInv, CallersHold
        <4> QED
          BY <2>3, <3>1, <3>3, <4>1 DEF GenerationsHold
      <3> QED
        BY <3>2, <3>3 DEF GenerationsHold
    <2> QED
      BY <1>1, <1>2, <2>1, <2>2, <2>3, <2>5, LookersStay DEF ExactInv
  <1>5. CASE ~(UnlinkName(p) /\ objects[del[p].d] # None)
    <2>1. UNCHANGED <<objects, dirty>>
      BY <1>5 DEF DeleteStep, InspectGeneration, VerifyToUnlink, StatToUnlink, UnlinkName, FlushUnlink, tree
    <2>2. LookersHold'
      BY <1>1, <1>2, <2>1, LookersStay DEF ExactInv, TreeMoves
    <2>3. /\ del'[p].pc \in {"stat", "unlink", "flush"} => Publishing = {} \/ ~Serialized \/ p \in Deleting
          /\ del'[p].pc = "unlink" => objects[del'[p].d] = del'[p].ino
      <3>1. /\ Resting.pc = "idle"
            /\ \A k \in Call(DelPcs) : \A pc \in DelPcs : /\ [k EXCEPT !.pc = pc].pc = pc /\ [k EXCEPT !.pc = pc].d = k.d
                                                          /\ [k EXCEPT !.pc = pc].ino = k.ino
        BY DEF Resting, Call
      <3>2. ASSUME NEW pc \in DelPcs, DelTo(p, pc)
            PROVE  del'[p].pc = pc /\ del'[p].d = del[p].d /\ del'[p].ino = del[p].ino
        <4> DEFINE k == [del[p] EXCEPT !.pc = pc]
        <4>1. del' = [del EXCEPT ![p] = k]
          BY <3>2 DEF DelTo
        <4>2. k.pc = pc /\ k.d = del[p].d /\ k.ino = del[p].ino
          BY <1>2, <3>1
        <4> HIDE DEF k
        <4> QED
          BY <1>2, <4>1, <4>2
      <3>3. CASE \E d \in Digests : InspectGeneration(p, d)
        <4>1. del'[p].pc = "chosen"
          <5>1. PICK d \in Digests : del' = [del EXCEPT ![p] = [Resting EXCEPT !.pc = "chosen", !.d = d, !.ino = objects[d]]]
            BY <3>3 DEF InspectGeneration
          <5> QED
            BY <1>2, <5>1 DEF Resting
        <4> QED
          BY <4>1
      <3>4. CASE VerifyToUnlink(p)
        BY <1>2, <3>1, <3>2, <3>4 DEF VerifyToUnlink, DelPcs
      <3>5. CASE StatToUnlink(p)
        BY <1>2, <3>1, <3>2, <3>5 DEF StatToUnlink, DelPcs, SameGeneration, Deleting
      <3>6. CASE UnlinkName(p) \/ FlushUnlink(p)
        <4>1. del'[p].pc = "idle"
          BY <1>2, <1>5, <3>1, <3>6 DEF UnlinkName, FlushUnlink
        <4> QED
          BY <4>1
      <3> QED
        BY <3>3, <3>4, <3>5, <3>6 DEF DeleteStep
    <2>4. ASSUME Serialized PROVE GenerationsHold'
      <3>1. GenerationsHold
        BY <2>4 DEF ExactInv
      <3>2. Publishing' = {} \/ Deleting' = {}
        BY <1>1, <1>3, <2>3, <2>4, <3>1 DEF GenerationsHold, Publishing, Deleting
      <3>3. ASSUME NEW q \in Deleters, del'[q].pc = "unlink" PROVE objects'[del'[q].d] \in {None, del'[q].ino}
        BY <1>3, <2>1, <2>3, <3>1, <3>3 DEF GenerationsHold
      <3> QED
        BY <3>2, <3>3 DEF GenerationsHold
    <2> QED
      BY <2>1, <2>2, <2>4, SMTT(30)
  <1> QED
    BY <1>4, <1>5

\* One lister moves on, over the directories as they are.
LEMMA OneLister ==
    ASSUME ExactInv, NEW p \in Listers, NEW k \in Listing, ls' = [ls EXCEPT ![p] = k],
           UNCHANGED <<objects, staging, pub, del, proof>>, dirty' \in {dirty, dirty \ {p}}, StillFound(k, p)'
    PROVE  LookersHold' /\ (Serialized => GenerationsHold')
  <1>1. ls \in [Listers -> Listing] /\ Listers \cap Provers = {}
    BY CasAssumption DEF ExactInv, LookersHold
  <1>2. ls' \in [Listers -> Listing] /\ ls'[p] = k /\ \A q \in Listers : q # p => ls'[q] = ls[q]
    BY <1>1
  <1>3. ASSUME NEW q \in Listers PROVE StillFound(ls[q], q)'
    <2>1. CASE q = p
      BY <1>2, <2>1 DEF StillFound, Names, InodeOf, Present
    <2>2. CASE q # p
      <3>1. StillFound(ls[q], q) /\ (q \notin dirty' => q \notin dirty) /\ ls'[q] = ls[q]
        BY <1>2, <2>2 DEF ExactInv, LookersHold
      <3> QED
        BY <3>1 DEF StillFound, Names, InodeOf, Present
    <2> QED
      BY <2>1, <2>2
  <1>4. ASSUME NEW q \in Provers PROVE Looked(proof[q], q)'
    <2>1. Looked(proof[q], q) /\ (q \notin dirty' => q \notin dirty)
      BY <1>1 DEF ExactInv, LookersHold
    <2> QED
      BY <2>1 DEF Looked
  <1>5. Serialized => GenerationsHold'
    BY DEF ExactInv, GenerationsHold, Publishing, Deleting
  <1> QED
    BY <1>2, <1>3, <1>4, <1>5 DEF ExactInv, LookersHold

LEMMA ListExact ==
    ASSUME ExactInv, NEW p \in Listers, ListStep(p)
    PROVE  /\ LookersHold' /\ (Serialized => GenerationsHold')
           /\ \A n \in ls'[p].listed \ ls[p].listed : n \in Names(ls[p].of) /\ InodeOf(ls[p].of, n) \in ls[p].old
  <1> DEFINE l == ls[p]
  <1>1. l \in Listing /\ ls \in [Listers -> Listing] /\ CasInv /\ StillFound(l, p)
    BY DEF ExactInv, LookersHold
  <1>2. NotListing \in Listing /\ NotListing.pc = "idle" /\ NotListing.listed = {}
    BY DEF NotListing, Listing, ListerPcs
  <1>3. \A of \in {"objects", "staging"} : Names(of) \subseteq Entries
    BY <1>1, CasTypes DEF Names, Present, Entries
  <1> DEFINE Goal == /\ LookersHold' /\ (Serialized => GenerationsHold')
                     /\ \A n \in ls'[p].listed \ l.listed : n \in Names(l.of) /\ InodeOf(l.of, n) \in l.old
  <1>4. ASSUME NEW k \in Listing, ls' = [ls EXCEPT ![p] = k], UNCHANGED <<objects, staging, pub, del, proof>>,
               dirty' \in {dirty, dirty \ {p}}, StillFound(k, p)',
               \A n \in k.listed \ l.listed : n \in Names(l.of) /\ InodeOf(l.of, n) \in l.old
        PROVE  Goal
    <2>1. ls'[p] = k
      BY <1>1, <1>4
    <2> QED
      BY <1>4, <2>1, OneLister
  <1>5. ASSUME ls' = [ls EXCEPT ![p] = NotListing], UNCHANGED <<objects, staging, pub, del, proof, dirty>>
        PROVE  Goal
    BY <1>2, <1>4, <1>5 DEF StillFound
  <1>6. ASSUME NEW k \in Listing, BeginScan(p, k), k.listed = {} \/ k = l PROVE Goal
    <2>0. PICK m : m = [k EXCEPT !.pc = "scan", !.todo = Names(k.of), !.found = {}]
      OBVIOUS
    <2>1. ls' = [ls EXCEPT ![p] = m] /\ UNCHANGED <<objects, staging, pub, del, proof>> /\ dirty' = dirty \ {p}
      BY <1>6, <2>0 DEF BeginScan
    <2>2. k.of \in {"objects", "staging"}
      BY DEF Listing
    <2>3. m \in Listing /\ m.found = {} /\ m.listed = k.listed
      BY <1>3, <2>0, <2>2 DEF Listing, ListerPcs
    <2>4. StillFound(m, p)'
      BY <2>3 DEF StillFound
    <2> HIDE DEF Goal
    <2> QED
      BY <1>4, <1>6, <2>1, <2>3, <2>4
  <1> QED
    <2> HIDE DEF Goal
    <2>1. ASSUME NEW of \in {"objects", "staging"}, StartListing(p, of) PROVE Goal
      <3>1. PICK old \in SUBSET Inode : BeginScan(p, [NotListing EXCEPT !.of = of, !.old = old])
        <4> DEFINE old == {InodeOf(of, n) : n \in {n \in Names(of) : Acceptable(of, n) /\ Written(InodeOf(of, n))}}
        <4>1. BeginScan(p, [NotListing EXCEPT !.of = of, !.old = old])
          BY <2>1 DEF StartListing
        <4>2. \A n \in Names(of) : InodeOf(of, n) \in Inode
          BY <1>1, CasTypes DEF Names, InodeOf, Present
        <4>3. old \in SUBSET Inode
          BY <4>2
        <4> HIDE DEF old
        <4> QED
          BY <4>1, <4>3
      <3>2. /\ [NotListing EXCEPT !.of = of, !.old = old] \in Listing
            /\ [NotListing EXCEPT !.of = of, !.old = old].listed = {}
        BY DEF NotListing, Listing, ListerPcs
      <3> QED
        BY <1>6, <3>1, <3>2
    <2>2. ASSUME ResumeListing(p) PROVE Goal
      BY <1>1, <1>6, <2>2 DEF ResumeListing
    <2>3. ASSUME ReturnListing(p) PROVE Goal
      BY <1>5, <2>3 DEF ReturnListing, tree
    <2>4. ASSUME NEW n \in l.todo, InspectListed(p, n) PROVE Goal
      <3>1. l.pc = "scan" /\ UNCHANGED <<objects, staging, pub, del, proof, dirty>>
        BY <2>4 DEF InspectListed, tree
      <3>2. CASE ~Acceptable(l.of, n)
        BY <1>5, <2>4, <3>1, <3>2 DEF InspectListed
      <3>3. CASE Acceptable(l.of, n)
        <4> DEFINE found == IF InodeOf(l.of, n) \in l.old THEN l.found \cup {n} ELSE l.found
        <4>0. PICK m : m = [l EXCEPT !.todo = @ \ {n}, !.found = found]
          OBVIOUS
        <4>1. ls' = [ls EXCEPT ![p] = m]
          BY <1>1, <2>4, <3>3, <4>0 DEF InspectListed
        <4>2. n \in Entries /\ l.found \subseteq Entries
          BY <1>1, <2>4 DEF Listing
        <4>3. found \subseteq Entries
          BY <4>2
        <4>4. \A x \in found : x \in l.found \/ (x = n /\ InodeOf(l.of, n) \in l.old /\ n \in Names(l.of))
          BY <3>3 DEF Acceptable
        <4> HIDE DEF found
        <4>5. m \in Listing /\ m.found = found /\ m.listed = l.listed /\ m.of = l.of /\ m.old = l.old /\ m.pc = l.pc
          BY ONLY <1>1, <4>0, <4>3 DEF Listing
        <4>6. StillFound(m, p)'
          BY <1>1, <3>1, <4>4, <4>5 DEF StillFound, Names, InodeOf, Present
        <4> QED
          BY <1>4, <3>1, <4>1, <4>5, <4>6
      <3> QED
        BY <3>2, <3>3
    <2>5. ASSUME EndScan(p) PROVE Goal
      <3> DEFINE rest == AfterCursor(p)
      <3>1. l.pc = "scan" /\ UNCHANGED <<objects, staging, pub, del, proof, dirty>>
        BY <2>5 DEF EndScan, tree
      <3>2. CASE ~DirectoryUnchanged(p) \/ l.cursor \notin l.found \cup {None}
        BY <1>5, <2>5, <3>1, <3>2 DEF EndScan
      <3>3. ASSUME DirectoryUnchanged(p), ls' = [ls EXCEPT ![p].pc = "done"] PROVE Goal
        <4>0. PICK m : m = [l EXCEPT !.pc = "done"]
          OBVIOUS
        <4>1. ls' = [ls EXCEPT ![p] = m]
          BY <3>3, <4>0
        <4>2. m \in Listing /\ m.pc = "done" /\ m.listed = l.listed
          BY ONLY <1>1, <4>0 DEF Listing, ListerPcs
        <4> QED
          BY <1>4, <3>1, <4>1, <4>2 DEF StillFound
      <3>4. ASSUME DirectoryUnchanged(p), rest # {}, NEW pc \in {"paged", "done"},
                   ls' = [ls EXCEPT ![p].listed = @ \cup {Min(rest)}, ![p].cursor = Min(rest), ![p].pc = pc]
            PROVE  Goal
        <4>1. rest \subseteq l.found /\ l.found \subseteq Entries /\ Entries \subseteq Nat
          BY <1>1, CasAssumption DEF AfterCursor, Listing, Entries, Inode
        <4>2. PICK x \in rest : \A y \in rest : x <= y
          BY <3>4, <4>1, Least
        <4>3. PICK n : n = Min(rest)
          OBVIOUS
        <4>4. n \in rest
          BY <4>2, <4>3 DEF Min
        <4>5. n \in Entries /\ n \in Names(l.of) /\ InodeOf(l.of, n) \in l.old
          BY <1>1, <3>1, <3>4, <4>1, <4>4 DEF StillFound, DirectoryUnchanged
        <4>0. PICK m : m = [l EXCEPT !.listed = @ \cup {n}, !.cursor = n, !.pc = pc]
          OBVIOUS
        <4>6. ls' = [ls EXCEPT ![p] = m]
          BY <1>1, <3>4, <4>0, <4>3 DEF Listing
        <4>7. m \in Listing /\ m.pc = pc /\ m.listed = l.listed \cup {n}
          BY ONLY <1>1, <4>0, <4>5, pc \in {"paged", "done"} DEF Listing, ListerPcs
        <4>8. StillFound(m, p)'
          BY <4>7 DEF StillFound
        <4> QED
          BY <1>4, <3>1, <4>5, <4>6, <4>7, <4>8
      <3> QED
        BY <2>5, <3>2, <3>3, <3>4 DEF EndScan
    <2>6. Goal
      BY <2>1, <2>2, <2>3, <2>4, <2>5 DEF ListStep
    <2> QED
      BY <2>6 DEF Goal

LEMMA OneProver ==
    ASSUME ExactInv, NEW p \in Provers, NEW k \in Call(ProverPcs), proof' = [proof EXCEPT ![p] = k],
           UNCHANGED <<objects, staging, pub, del, ls>>, dirty' \in {dirty, dirty \ {p}}, Looked(k, p)',
           k.pc \notin {"away", "idle"} => k.d \in Digests
    PROVE  LookersHold' /\ (Serialized => GenerationsHold')
  <1>1. proof \in [Provers -> Call(ProverPcs)] /\ Listers \cap Provers = {}
    BY CasAssumption DEF ExactInv, LookersHold
  <1>2. proof' \in [Provers -> Call(ProverPcs)] /\ proof'[p] = k /\ \A q \in Provers : q # p => proof'[q] = proof[q]
    BY <1>1
  <1>3. ASSUME NEW q \in Provers
        PROVE  Looked(proof[q], q)' /\ (proof'[q].pc \notin {"away", "idle"} => proof'[q].d \in Digests)
    <2>1. CASE q = p
      BY <1>2, <2>1 DEF Looked
    <2>2. CASE q # p
      BY <1>2, <2>2 DEF ExactInv, LookersHold, Looked
    <2> QED
      BY <2>1, <2>2
  <1>4. ASSUME NEW q \in Listers PROVE StillFound(ls[q], q)'
    <2>1. StillFound(ls[q], q) /\ (q \notin dirty' => q \notin dirty)
      BY <1>1 DEF ExactInv, LookersHold
    <2> QED
      BY <2>1 DEF StillFound, Names, InodeOf, Present
  <1>5. Serialized => GenerationsHold'
    BY DEF ExactInv, GenerationsHold, Publishing, Deleting
  <1> QED
    BY <1>2, <1>3, <1>4, <1>5 DEF ExactInv, LookersHold

LEMMA ProveExact ==
    ASSUME ExactInv, NEW p \in Provers, ProveStep(p)
    PROVE  /\ LookersHold' /\ (Serialized => GenerationsHold')
           /\ proof[p].pc # "proved" /\ proof'[p].pc = "proved" => objects[proof[p].d] = None
  <1>1. /\ proof \in [Provers -> Call(ProverPcs)] /\ proof[p] \in Call(ProverPcs) /\ CasInv
        /\ Looked(proof[p], p) /\ (proof[p].pc \notin {"away", "idle"} => proof[p].d \in Digests)
    BY DEF ExactInv, LookersHold
  <1>2. /\ Resting \in Call(ProverPcs) /\ Resting.pc = "idle"
        /\ \A k \in Call(ProverPcs) : \A pc \in ProverPcs :
              /\ [k EXCEPT !.pc = pc] \in Call(ProverPcs)
              /\ [k EXCEPT !.pc = pc].pc = pc /\ [k EXCEPT !.pc = pc].d = k.d
    BY DEF Resting, Call, ProverPcs
  <1>3. ASSUME NEW d \in Digests, OpenParent(p, d)
        PROVE  LookersHold' /\ (Serialized => GenerationsHold') /\ proof'[p].pc # "proved"
    <2>1. PICK k : k = [Resting EXCEPT !.pc = "open", !.d = d]
      OBVIOUS
    <2>2. k \in Call(ProverPcs) /\ k.pc = "open" /\ k.d = d
      BY <2>1 DEF Resting, Call, ProverPcs
    <2>3. /\ proof' = [proof EXCEPT ![p] = k] /\ dirty' = dirty \ {p} /\ UNCHANGED <<objects, staging, pub, del, ls>>
      BY <1>3, <2>1 DEF OpenParent
    <2>4. Looked(k, p)'
      BY <2>2 DEF Looked
    <2>5. proof'[p] = k
      BY <1>1, <2>3
    <2> QED
      BY <2>2, <2>3, <2>4, <2>5, OneProver
  <1>4. ASSUME NEW ok \in BOOLEAN, NEW pc \in {"looked", "compared", "again", "proved", "idle"}, ProofTo(p, ok, pc),
               UNCHANGED <<objects, staging, dirty, pub, del, ls>>, proof[p].pc \notin {"away", "idle"},
               ok /\ pc \in {"looked", "compared", "again"} /\ p \notin dirty => objects[proof[p].d] = None
        PROVE  /\ LookersHold' /\ (Serialized => GenerationsHold')
               /\ proof'[p].pc = IF ok THEN pc ELSE "idle"
    <2>1. PICK k : k = IF ok THEN [proof[p] EXCEPT !.pc = pc] ELSE Resting
      OBVIOUS
    <2>2. /\ k \in Call(ProverPcs) /\ (ok => k.pc = pc /\ k.d = proof[p].d) /\ (~ok => k.pc = "idle")
      <3>1. pc \in ProverPcs
        BY DEF ProverPcs
      <3>2. PICK x : x = proof[p]
        OBVIOUS
      <3>3. x \in Call(ProverPcs)
        BY <1>1, <3>2
      <3> QED
        BY <1>2, <2>1, <3>1, <3>2, <3>3
    <2>3. proof' = [proof EXCEPT ![p] = k]
      BY <1>4, <2>1 DEF ProofTo
    <2>4. Looked(k, p)'
      BY <1>4, <2>2 DEF Looked
    <2>5. proof'[p] = k
      BY <1>1, <2>3
    <2> QED
      BY <1>1, <1>4, <2>2, <2>3, <2>4, <2>5, OneProver
  <1>5. ASSUME Look(p) PROVE LookersHold' /\ (Serialized => GenerationsHold') /\ proof'[p].pc # "proved"
    <2>1. PICK pc \in {"looked", "again"} : ProofTo(p, objects[proof[p].d] = None, pc)
      BY <1>5 DEF Look
    <2>2. proof[p].pc \notin {"away", "idle"} /\ UNCHANGED <<objects, staging, dirty, pub, del, ls>>
      BY <1>5 DEF Look, tree
    <2>3. PICK ok \in BOOLEAN : ok = (objects[proof[p].d] = None)
      OBVIOUS
    <2> QED
      BY <1>4, <2>1, <2>2, <2>3
  <1>6. ASSUME CompareParent(p) PROVE /\ LookersHold' /\ (Serialized => GenerationsHold')
                                      /\ proof'[p].pc = "proved" => objects[proof[p].d] = None
    <2>1. PICK step \in {<<"looked", "compared">>, <<"again", "proved">>} :
             proof[p].pc = step[1] /\ ProofTo(p, DirectoryUnchanged(p), step[2])
      BY <1>6 DEF CompareParent
    <2>2. /\ proof[p].pc \in {"looked", "again"} /\ step[2] \in {"compared", "proved"}
          /\ UNCHANGED <<objects, staging, dirty, pub, del, ls>>
      BY <1>6, <2>1 DEF CompareParent, tree
    <2>3. PICK ok \in BOOLEAN : ok = DirectoryUnchanged(p)
      BY DEF DirectoryUnchanged
    <2>4. p \notin dirty => objects[proof[p].d] = None
      BY <1>1, <2>2 DEF Looked
    <2> QED
      BY <1>4, <2>1, <2>2, <2>3, <2>4 DEF DirectoryUnchanged
  <1>7. ASSUME ReturnProof(p) PROVE LookersHold' /\ (Serialized => GenerationsHold') /\ proof'[p].pc # "proved"
    <2>1. /\ proof[p].pc = "proved" /\ ProofTo(p, FALSE, "idle")
          /\ UNCHANGED <<objects, staging, dirty, pub, del, ls>>
      BY <1>7 DEF ReturnProof, tree
    <2> QED
      BY <1>4, <2>1
  <1> QED
    BY <1>3, <1>5, <1>6, <1>7 DEF ProveStep

LEMMA PowerExact ==
    ASSUME ExactInv, PowerLoss
    PROVE  /\ LookersHold' /\ (Serialized => GenerationsHold') /\ faults' # faults
           /\ \A p \in Listers : ls'[p].listed \ ls[p].listed = {}
           /\ \A p \in Provers : proof'[p].pc # "proved"
  <1>1. /\ faults' = faults + 1
        /\ pub' = [p \in Publishers |-> IF p \in Publishing THEN Resting ELSE pub[p]]
        /\ del' = [p \in Deleters |-> IF del[p] = Away THEN Away ELSE Resting]
        /\ ls' = [p \in Listers |-> IF ls[p].pc = "away" THEN ls[p] ELSE NotListing]
        /\ proof' = [p \in Provers |-> IF proof[p] = Away THEN Away ELSE Resting]
    BY DEF PowerLoss
  <1>2. /\ Resting \in Call(ProverPcs) /\ Away \in Call(ProverPcs) /\ Resting.pc = "idle" /\ Away.pc = "away"
        /\ NotListing \in Listing /\ NotListing.pc = "idle" /\ NotListing.listed = {}
    BY DEF Resting, Away, Call, ProverPcs, NotListing, Listing, ListerPcs
  <1>3. faults \in Nat /\ ls \in [Listers -> Listing]
    BY DEF ExactInv, CasInv, CasTyped, LookersHold
  <1>4. ls' \in [Listers -> Listing] /\ \A p \in Listers : ls'[p].pc # "scan"
    BY <1>1, <1>2, <1>3
  <1>5. proof' \in [Provers -> Call(ProverPcs)] /\ \A p \in Provers : proof'[p].pc \in {"away", "idle"}
    BY <1>1, <1>2
  <1>6. LookersHold'
    BY <1>4, <1>5 DEF LookersHold, StillFound, Looked
  <1>7. \A p \in Deleters : del'[p].pc \in {"away", "idle"}
    BY <1>1, <1>2
  <1>8. GenerationsHold'
    BY <1>7 DEF GenerationsHold, Deleting
  <1> QED
    BY <1>1, <1>2, <1>3, <1>5, <1>6, <1>8

\* What stands still.
LEMMA ExactStays ==
    ASSUME ExactInv, UNCHANGED <<objects, staging, dirty, pub, del, ls, proof>>
    PROVE  LookersHold' /\ (Serialized => GenerationsHold')
  BY LookersStay DEF ExactInv, TreeMoves, GenerationsHold, Publishing, Deleting

LEMMA ExactInit == Init => ExactInv
  <1> SUFFICES ASSUME Init PROVE ExactInv
    OBVIOUS
  <1>1. PICK cast \in Casts :
          /\ pub = [p \in Publishers |-> IF p \in cast THEN Resting ELSE Away]
          /\ del = [p \in Deleters |-> IF p \in cast THEN Resting ELSE Away]
          /\ ls = [p \in Listers |-> IF p \in cast THEN NotListing ELSE [NotListing EXCEPT !.pc = "away"]]
          /\ proof = [p \in Provers |-> IF p \in cast THEN Resting ELSE Away]
    BY DEF Init
  <1>2. /\ Resting \in Call(ProverPcs) /\ Away \in Call(ProverPcs) /\ Resting.pc = "idle" /\ Away.pc = "away"
        /\ NotListing \in Listing /\ NotListing.pc = "idle"
        /\ [NotListing EXCEPT !.pc = "away"] \in Listing /\ [NotListing EXCEPT !.pc = "away"].pc = "away"
    BY DEF Resting, Away, Call, ProverPcs, NotListing, Listing, ListerPcs
  <1>3. LookersHold
    BY <1>1, <1>2 DEF LookersHold, StillFound, Looked
  <1>4. GenerationsHold
    BY <1>1, <1>2 DEF GenerationsHold, Deleting
  <1> QED
    BY <1>3, <1>4, CasInit DEF ExactInv

\* The three promises of a step, and the invariant they rest on.
StepIsExact ==
    /\ \A p \in Listers : \A n \in ls'[p].listed \ ls[p].listed : n \in Names(ls[p].of) /\ InodeOf(ls[p].of, n) \in ls[p].old
    /\ \A p \in Provers : proof[p].pc # "proved" /\ proof'[p].pc = "proved" => objects[proof[p].d] = None
    /\ Serialized => \A d \in Digests : objects[d] # None /\ objects'[d] # objects[d] /\ faults' = faults =>
          /\ objects'[d] = None
          /\ \E p \in Deleters : del[p].pc = "unlink" /\ del[p].d = d /\ del[p].ino = objects[d]

LEMMA ExactNext ==
    ASSUME ExactInv, Next \/ UNCHANGED vars
    PROVE  ExactInv' /\ StepIsExact
  <1>1. CasInv'
    <2>1. CASE UNCHANGED vars
      BY <2>1, CallersStay, OthersStep DEF ExactInv, vars, tree
    <2> QED
      BY <2>1, CasStepKeeps DEF ExactInv
  <1>2. ASSUME NEW p \in Publishers, PublishStep(p) PROVE LookersHold' /\ (Serialized => GenerationsHold') /\ StepIsExact
    <2>1. UNCHANGED <<ls, proof>> /\ \A d \in Digests : objects'[d] # objects[d] => objects[d] = None
      BY <1>2, PublisherMoves DEF ExactInv
    <2> QED
      BY <1>2, <2>1, PublishExact DEF StepIsExact
  <1>3. ASSUME NEW p \in Deleters, DeleteStep(p) PROVE LookersHold' /\ (Serialized => GenerationsHold') /\ StepIsExact
    <2>1. UNCHANGED <<ls, proof>>
      BY <1>3 DEF DeleteStep, InspectGeneration, VerifyToUnlink, StatToUnlink, UnlinkName, FlushUnlink
    <2>2. \A d \in Digests : objects'[d] # objects[d] => objects'[d] = None /\ del[p].pc = "unlink" /\ del[p].d = d
      BY <1>3, DeleteExact
    <2>3. Serialized /\ del[p].pc = "unlink" => objects[del[p].d] \in {None, del[p].ino}
      BY DEF ExactInv, GenerationsHold
    <2> QED
      BY <1>3, <2>1, <2>2, <2>3, DeleteExact DEF StepIsExact
  <1>4. ASSUME NEW p \in Listers, ListStep(p) PROVE LookersHold' /\ (Serialized => GenerationsHold') /\ StepIsExact
    <2>1. UNCHANGED <<objects, proof>> /\ \A q \in Listers : q # p => ls'[q] = ls[q]
      <3>1. UNCHANGED <<objects, proof>> /\ \E m : ls' = [ls EXCEPT ![p] = m]
        BY <1>4, ZenonT(40) DEF ListStep, StartListing, ResumeListing, BeginScan, EndScan, ReturnListing, InspectListed, tree,
           ExactInv, LookersHold
      <3> QED
        BY <3>1 DEF ExactInv, LookersHold
    <2>2. \A n \in ls'[p].listed \ ls[p].listed : n \in Names(ls[p].of) /\ InodeOf(ls[p].of, n) \in ls[p].old
      BY <1>4, ListExact
    <2> QED
      BY <1>4, <2>1, <2>2, ListExact DEF StepIsExact
  <1>5. ASSUME NEW p \in Provers, ProveStep(p) PROVE LookersHold' /\ (Serialized => GenerationsHold') /\ StepIsExact
    <2>1. UNCHANGED <<objects, ls>> /\ \A q \in Provers : q # p => proof'[q] = proof[q]
      <3>1. UNCHANGED <<objects, ls>> /\ \E m : proof' = [proof EXCEPT ![p] = m]
        BY <1>5 DEF ProveStep, OpenParent, Look, CompareParent, ReturnProof, ProofTo, tree
      <3> QED
        BY <3>1 DEF ExactInv, LookersHold
    <2>2. proof[p].pc # "proved" /\ proof'[p].pc = "proved" => objects[proof[p].d] = None
      BY <1>5, ProveExact
    <2> QED
      BY <1>5, <2>1, <2>2, ProveExact DEF StepIsExact
  <1>6. ASSUME PowerLoss PROVE LookersHold' /\ (Serialized => GenerationsHold') /\ StepIsExact
    BY <1>6, PowerExact DEF StepIsExact
  <1>7. ASSUME UNCHANGED <<objects, staging, dirty, pub, del, ls, proof>>
        PROVE  LookersHold' /\ (Serialized => GenerationsHold') /\ StepIsExact
    BY <1>7, ExactStays DEF StepIsExact
  <1>8. (\E p \in Readers : ReadStep(p)) \/ Rest \/ UNCHANGED vars => UNCHANGED <<objects, staging, dirty, pub, del, ls, proof>>
    BY DEF ReadStep, StartRead, OpenToRead, FinishRead, Rest, vars, tree
  <1> QED
    BY <1>1, <1>2, <1>3, <1>4, <1>5, <1>6, <1>7, <1>8 DEF Next, ExactInv

\* A page of an inventory is a snapshot, a proof of absence was true when it was returned, an
\* unlink takes the generation it inspected (if maintenance is serialized against
\* publication, as unlink_verified requires of its callers); a migration commits whole, a
\* listing of the records returns all of them, and a port answers of the store that is there.
THEOREM StepsStayExact ==
    ASSUME Serialized
    PROVE  StoresSpec => StepsAreExact
  <1> DEFINE Inv == /\ part = "cas" => ExactInv
                    /\ part = "identity" => IdentityInv
                    /\ part = "migration" => MigrationInv
                    /\ part = "records" => ListingInv
  <1>1. StoresInit => Inv
    BY ExactInit, IdentityInit, MigrationInit, ListingInit DEF StoresInit, StoresStart
  <1>2. [StoresNext]_storesVars =>
           /\ part' = part
           /\ IF part = "cas" THEN Next \/ UNCHANGED vars ELSE UNCHANGED vars
           /\ IF part = "identity" THEN Identity!Next \/ UNCHANGED identityVars ELSE UNCHANGED identityVars
           /\ IF part = "migration" THEN [Migration!Next]_migrationVars ELSE UNCHANGED migrationVars
           /\ IF part = "records" THEN [Records!Next]_recordsVars ELSE UNCHANGED recordsVars
    BY DEF StoresNext, storesVars
  <1>3. Inv /\ [StoresNext]_storesVars => Inv'
    <2>1. IdentityInv /\ (Identity!Next \/ UNCHANGED identityVars) => IdentityInv'
      BY IdentityNext, IdentityTypes, HandlesAlone DEF identityVars
    <2> QED
      BY <1>2, <2>1, ExactNext, MigrationNext, ListingNext
  <1>4. Inv /\ [StoresNext]_storesVars => StepIsExact \/ UNCHANGED vars
    BY <1>2, ExactNext
  <1>5. Inv /\ [StoresNext]_storesVars =>
          [\A p \in Listers : \A n \in ls'[p].listed \ ls[p].listed :
              n \in Names(ls[p].of) /\ InodeOf(ls[p].of, n) \in ls[p].old]_vars
    BY <1>4 DEF StepIsExact
  <1>6. Inv /\ [StoresNext]_storesVars =>
          [\A p \in Provers : proof[p].pc # "proved" /\ proof'[p].pc = "proved" => objects[proof[p].d] = None]_vars
    BY <1>4 DEF StepIsExact
  <1>7. Inv /\ [StoresNext]_storesVars =>
          [\A d \in Digests : objects[d] # None /\ objects'[d] # objects[d] /\ faults' = faults =>
              /\ objects'[d] = None
              /\ \E p \in Deleters : del[p].pc = "unlink" /\ del[p].d = d /\ del[p].ino = objects[d]]_vars
    BY <1>4 DEF StepIsExact
  <1>8. Inv /\ [StoresNext]_storesVars =>
          [db' # db /\ db.exists =>
              /\ \E p \in Initializers : db'.ledger = 1..Compiled[p]
              /\ db'.objects = db'.ledger /\ db.ledger \subseteq db'.ledger
              /\ db.id # Unkeyed => db'.id = db.id /\ db'.authority = db.authority]_(Migration!vars)
    <2>1. UNCHANGED migrationVars => UNCHANGED Migration!vars
      BY DEF migrationVars, Migration!vars
    <2> QED
      BY <1>2, <2>1, MigrationSteps
  <1>9. Inv /\ [StoresNext]_storesVars =>
          [Records!ReturnRuns /\ listing'.at = "returned" =>
              listing.got = {r \in Runs : file[r] = "whole"} /\ listing.got = Records!Files]_(Records!vars)
    <2>1. UNCHANGED recordsVars => UNCHANGED Records!vars
      BY DEF recordsVars, Records!vars
    <2> QED
      BY <1>2, <2>1, ListingReturns
  <1>10. Inv /\ [StoresNext]_storesVars =>
          [\A h \in Ports : answer'[h] # answer[h] =>
              /\ answer'[h] \in {"ready", "manifest"} =>
                    registry # Identity!Absent /\ path = registry /\ Identity!Complete(path)
              /\ answer'[h] = "CAS_IDENTITY_MISMATCH" => path # registry
              /\ answer'[h] = "CAS_MISSING" => path = Identity!Absent]_(Identity!vars)
    <2>1. UNCHANGED identityVars => UNCHANGED Identity!vars
      BY DEF identityVars, Identity!vars, Identity!readPorts
    <2> QED
      BY <1>2, <2>1, AnswersCurrent
  <1> QED
    BY <1>1, <1>3, <1>5, <1>6, <1>7, <1>8, <1>9, <1>10, PTL
    DEF StoresSpec, StepsAreExact, PageIsASnapshot, AbsenceIsProved, OnlyTheInspectedGenerationGoes,
        Migration!CommitsAreWhole, Records!ListedIsEverything, Identity!AnswersAreCurrent

-----------------------------------------------------------------------------
\* The rest of the types, and the listings that come to an end.

CasRest ==
    /\ dirty \subseteq Listers \cup Provers /\ lock \in Publishers \cup {None}
    /\ acked \subseteq known /\ faults \in 0..MaxFaults

LEMMA RestMoves ==
    ASSUME CasRest, dirty' \subseteq dirty \cup Listers \cup Provers, lock' \in Publishers \cup {None, lock},
           acked' \ acked \subseteq known' /\ known \subseteq known',
           faults' = faults \/ (faults < MaxFaults /\ faults' = faults + 1)
    PROVE  CasRest'
  <1>1. faults' \in 0..MaxFaults
    BY CasAssumption DEF CasRest
  <1> QED
    BY <1>1 DEF CasRest

LEMMA RestStays ==
    ASSUME CasRest, dirty' \subseteq dirty \cup Listers \cup Provers, lock' \in Publishers \cup {None, lock},
           UNCHANGED <<acked, known, faults>>
    PROVE  CasRest'
  BY RestMoves

LEMMA RestNext == CasRest /\ (Next \/ UNCHANGED vars) => CasRest'
  <1> SUFFICES ASSUME CasRest, Next \/ UNCHANGED vars PROVE CasRest'
    OBVIOUS
  <1>1. /\ Scanning \subseteq Listers /\ Proving \subseteq Provers
        /\ StagingChanges => dirty' \subseteq dirty \cup Listers \cup Provers
        /\ \A d : ObjectsChange(d) => dirty' \subseteq dirty \cup Listers \cup Provers
    BY DEF Scanning, Proving, StagingChanges, ObjectsChange
  <1>2. ASSUME NEW p \in Publishers, PublishStep(p) PROVE CasRest'
    <2>1. CASE (\E d \in Digests : CreateStaging(p, d)) \/ UnlinkStaging(p) \/ LinkStaged(p)
      BY <1>1, <2>1, RestStays DEF CreateStaging, UnlinkStaging, LinkStaged
    <2>2. CASE FailPublish(p) \/ Recheck(p) \/ AcquirePublicationLock(p)
      BY <1>1, <2>2, RestStays DEF FailPublish, Recheck, AcquirePublicationLock, tree
    <2>3. CASE CopyAndHash(p) \/ CheckCandidate(p) \/ FlushDestination(p) \/ OpenPublished(p)
      BY <2>3, RestStays DEF CopyAndHash, CheckCandidate, FlushDestination, OpenPublished, tree
    <2>4. CASE ReturnPublished(p) \/ KillPublisher(p)
      BY <2>4, RestMoves DEF ReturnPublished, KillPublisher, tree
    <2> QED
      BY <1>2, <2>1, <2>2, <2>3, <2>4 DEF PublishStep
  <1>3. ASSUME NEW p \in Deleters, DeleteStep(p) PROVE CasRest'
    <2>1. /\ dirty' \subseteq dirty \cup Listers \cup Provers /\ UNCHANGED <<lock, known, faults>>
          /\ acked' \subseteq acked
      BY <1>1, <1>3 DEF DeleteStep, InspectGeneration, VerifyToUnlink, StatToUnlink, UnlinkName, FlushUnlink, tree
    <2> QED
      BY <2>1, RestMoves
  <1>4. ASSUME NEW p \in Readers, ReadStep(p) PROVE CasRest'
    BY <1>4, RestStays DEF ReadStep, StartRead, OpenToRead, FinishRead, tree
  <1>5. ASSUME NEW p \in Listers, ListStep(p) PROVE CasRest'
    BY <1>5, RestStays DEF ListStep, StartListing, ResumeListing, BeginScan, InspectListed, EndScan, ReturnListing, tree
  <1>6. ASSUME NEW p \in Provers, ProveStep(p) PROVE CasRest'
    BY <1>6, RestStays DEF ProveStep, OpenParent, Look, CompareParent, ReturnProof, tree
  <1>7. ASSUME PowerLoss PROVE CasRest'
    BY <1>7, RestMoves DEF PowerLoss
  <1>8. ASSUME UNCHANGED vars \/ Rest PROVE CasRest'
    BY <1>8, RestStays DEF Rest, vars, tree
  <1> QED
    BY <1>2, <1>3, <1>4, <1>5, <1>6, <1>7, <1>8 DEF Next

LEMMA RestInit == Init => CasRest
  BY CasAssumption DEF Init, CasRest

LEMMA CasTypeOK == ExactInv /\ CasRest => TypeOK
  <1> SUFFICES ASSUME ExactInv, CasRest PROVE TypeOK
    OBVIOUS
  <1>1. CasTyped /\ CallersHold /\ ls \in [Listers -> Listing] /\ proof \in [Provers -> Call(ProverPcs)]
    BY DEF ExactInv, CasInv, LookersHold
  <1> QED
    BY <1>1 DEF TypeOK, CasRest, CasTyped, CallersHold, RdPcs, DelPcs, Listing, ListerPcs, ProverPcs

\* An old file is written, or is a staging file nobody copies to any more; an old object
\* has no staging name left.  Neither can get a name again that it lost.
OldHold(of, old) ==
    /\ \A i \in old : content[i] # None \/ (i \in staging /\ Written(i))
    /\ of = "objects" => \A i \in old : i \notin staging

\* What is listed of what is there and old: all up to the cursor, and all at the end; what
\* a scan still has to look at or has found is the rest, unless the directory has changed.
ListedHold(k, p) ==
    /\ k.pc \in {"scan", "paged", "done"} => OldHold(k.of, k.old)
    /\ k.pc \in {"scan", "paged"} =>
          \A n \in Names(k.of) : InodeOf(k.of, n) \in k.old /\ n <= k.cursor => n \in k.listed
    /\ k.pc = "done" => \A n \in Names(k.of) : InodeOf(k.of, n) \in k.old => n \in k.listed
    /\ k.pc = "scan" /\ p \notin dirty =>
          \A n \in Names(k.of) : InodeOf(k.of, n) \in k.old => n \in k.todo \/ n \in k.found

CompleteInv == ExactInv /\ \A p \in Listers : ListedHold(ls[p], p)

\* No old file gets a name it did not have.
NamesOnlyGo(of, old) ==
    \A n : n \in Names(of)' /\ InodeOf(of, n)' \in old => n \in Names(of) /\ InodeOf(of, n)' = InodeOf(of, n)

LEMMA ListedStays ==
    ASSUME CompleteInv, NEW p \in Listers, ls'[p] = ls[p], p \notin dirty' => p \notin dirty,
           \A of \in {"objects", "staging"} : \A old \in SUBSET Inode :
              OldHold(of, old) => OldHold(of, old)' /\ NamesOnlyGo(of, old)
    PROVE  ListedHold(ls[p], p)'
  <1> DEFINE k == ls[p]
  <1>1. k \in Listing /\ ListedHold(k, p)
    BY DEF CompleteInv, ExactInv, LookersHold
  <1>2. k.of \in {"objects", "staging"} /\ k.old \in SUBSET Inode
    BY <1>1 DEF Listing
  <1>3. k.pc \in {"scan", "paged", "done"} => OldHold(k.of, k.old)' /\ NamesOnlyGo(k.of, k.old)
    BY <1>1, <1>2 DEF ListedHold
  <1> QED
    BY <1>1, <1>3 DEF ListedHold, NamesOnlyGo

LEMMA PublishKeepsOld ==
    ASSUME CasInv, NEW p \in Publishers, PublishStep(p), NEW of \in {"objects", "staging"}, NEW old \in SUBSET Inode,
           OldHold(of, old)
    PROVE  OldHold(of, old)' /\ NamesOnlyGo(of, old)
  <1>1. /\ content \in [Inode -> Digests \cup {None}] /\ None \notin Digests
        /\ objects \in [Digests -> Inode \cup {None}] /\ pub \in [Publishers -> Call(PubPcs)] /\ None \notin Inode
    BY CasTypes
  <1>2. PublisherHolds(p, pub[p])
    BY DEF CasInv, PublishersHold
  <1>3. \A q \in Publishers : q # p => pub'[q] = pub[q]
    <2>1. \E m : pub' = [pub EXCEPT ![p] = m]
      BY CasTypes DEF PublishStep, PubTo, CreateStaging, CopyAndHash, AcquirePublicationLock, LinkStaged, CheckCandidate,
         FlushDestination, UnlinkStaging, Recheck, OpenPublished, ReturnPublished, FailPublish, KillPublisher
    <2> QED
      BY <1>1, <2>1
  <1>4. ASSUME content' = content \/ (pub[p].pc = "copy" /\ content' = [content EXCEPT ![pub[p].ino] = pub[p].d]),
               pub'[p].pc # "copy", staging' = staging, objects' = objects
        PROVE  OldHold(of, old)' /\ NamesOnlyGo(of, old)
    <2>1. \A i \in old : content[i] # None => content'[i] # None
      BY <1>1, <1>2, <1>4 DEF PublisherHolds
    <2>2. \A i \in old : Written(i) => Written(i)'
      BY <1>3, <1>4 DEF Written
    <2>3. OldHold(of, old)'
      BY <1>4, <2>1, <2>2 DEF OldHold
    <2>4. NamesOnlyGo(of, old)
      BY <1>4 DEF NamesOnlyGo, Names, InodeOf, Present
    <2> QED
      BY <2>3, <2>4
  <1>5. CASE \E d \in Digests : CreateStaging(p, d)
    <2>1. PICK d \in Digests : CreateStaging(p, d)
      BY <1>5
    <2>2. PICK i : i = Min(Unused)
      OBVIOUS
    <2>3. i \in Inode /\ i \notin staging /\ content[i] = None
      BY <2>1, <2>2, FreshInode DEF CreateStaging
    <2>4. /\ staging' = staging \cup {i} /\ UNCHANGED <<content, objects>>
          /\ pub' = [pub EXCEPT ![p] = [pc |-> "copy", d |-> d, ino |-> i, made |-> FALSE]]
      BY <2>1, <2>2 DEF CreateStaging
    <2>5. i \notin old
      BY <2>3 DEF OldHold
    <2>6. pub'[p].ino = i
      BY <1>1, <2>4
    <2>7. \A j \in old : Written(j) => Written(j)'
      BY <1>3, <2>5, <2>6 DEF Written
    <2>8. OldHold(of, old)'
      BY <2>4, <2>5, <2>7 DEF OldHold
    <2>9. NamesOnlyGo(of, old)
      BY <2>4, <2>5 DEF NamesOnlyGo, Names, InodeOf, Present
    <2> QED
      BY <2>8, <2>9
  <1>6. CASE CopyAndHash(p)
    <2>1. pub'[p].pc = "lock"
      BY <1>6, NextPlace DEF CopyAndHash, PubPcs
    <2> QED
      BY <1>4, <1>6, <2>1 DEF CopyAndHash
  <1>7. CASE LinkStaged(p)
    <2>1. /\ pub[p].pc = "link" /\ pub[p].ino \in staging /\ pub[p].d \in Digests
          /\ UNCHANGED <<content, staging>>
          /\ objects' \in {objects, [objects EXCEPT ![pub[p].d] = pub[p].ino]}
      BY <1>2, <1>7 DEF LinkStaged, PublisherHolds, Staged
    <2>2. pub'[p].pc = "check"
      BY <1>1, <1>7 DEF LinkStaged, Call
    <2>3. \A i \in old : Written(i) => Written(i)'
      BY <1>3, <2>2 DEF Written
    <2>4. OldHold(of, old)'
      BY <2>1, <2>3 DEF OldHold
    <2>5. \A n \in Digests : objects'[n] = objects[n] \/ objects'[n] = pub[p].ino
      BY <1>1, <2>1
    <2>6. of = "objects" => pub[p].ino \notin old
      BY <2>1 DEF OldHold
    <2>7. NamesOnlyGo(of, old)
      BY <2>1, <2>5, <2>6 DEF NamesOnlyGo, Names, InodeOf, Present
    <2> QED
      BY <2>4, <2>7
  <1>8. CASE UnlinkStaging(p) \/ FailPublish(p)
    <2>1. /\ staging' = staging \ {pub[p].ino} /\ UNCHANGED <<content, objects>> /\ p \in Publishing
      BY <1>8 DEF UnlinkStaging, FailPublish, Publishing
    <2>2. pub'[p].pc # "copy"
      BY <1>1, <1>8 DEF UnlinkStaging, FailPublish, PubTo, Resting, Call
    <2>3. \A i \in old : Written(i) => Written(i)'
      BY <1>3, <2>2 DEF Written
    <2>4. pub[p].ino \in old /\ pub[p].ino \in staging => content[pub[p].ino] # None
      <3> SUFFICES ASSUME pub[p].ino \in old, pub[p].ino \in staging, content[pub[p].ino] = None PROVE FALSE
        OBVIOUS
      <3>1. pub[p].pc # "copy"
        BY DEF OldHold, Written
      <3>2. pub[p].pc \in Staged \/ pub[p].pc \in {"recheck", "open", "hash"}
        BY <1>1, <2>1 DEF Publishing, Staged, Call, PubPcs
      <3> QED
        BY <1>1, <1>2, <3>1, <3>2 DEF PublisherHolds, Staged
    <2>5. OldHold(of, old)'
      BY <2>1, <2>3, <2>4 DEF OldHold
    <2>6. NamesOnlyGo(of, old)
      BY <2>1 DEF NamesOnlyGo, Names, InodeOf, Present
    <2> QED
      BY <2>5, <2>6
  <1>9. CASE \/ AcquirePublicationLock(p) \/ CheckCandidate(p) \/ FlushDestination(p)
             \/ Recheck(p) \/ OpenPublished(p) \/ ReturnPublished(p) \/ KillPublisher(p)
    <2>1. UNCHANGED <<content, objects, staging>>
      BY <1>9 DEF AcquirePublicationLock, CheckCandidate, FlushDestination, Recheck, OpenPublished,
         ReturnPublished, KillPublisher, tree
    <2>2. pub'[p].pc # "copy"
      BY <1>1, <1>9 DEF AcquirePublicationLock, CheckCandidate, FlushDestination, Recheck, OpenPublished,
         ReturnPublished, KillPublisher, PubTo, Resting, Call
    <2> QED
      BY <1>4, <2>1, <2>2
  <1> QED
    BY <1>5, <1>6, <1>7, <1>8, <1>9 DEF PublishStep

\* A step that leaves files and publishers alone, and only takes names away.
LEMMA OldStays ==
    ASSUME UNCHANGED <<content, staging, pub>>, \A d \in Digests : objects'[d] \in {objects[d], None},
           CasInv, NEW of \in {"objects", "staging"}, NEW old \in SUBSET Inode, OldHold(of, old)
    PROVE  OldHold(of, old)' /\ NamesOnlyGo(of, old)
  <1>1. OldHold(of, old)'
    BY DEF OldHold, Written
  <1>2. NamesOnlyGo(of, old)
    BY DEF NamesOnlyGo, Names, InodeOf, Present
  <1> QED
    BY <1>1, <1>2

LEMMA DeleteKeepsListed ==
    ASSUME CompleteInv, NEW p \in Deleters, DeleteStep(p), NEW q \in Listers
    PROVE  ListedHold(ls[q], q)'
  <1>1. UNCHANGED <<content, staging, pub, ls>>
    BY DEF DeleteStep, InspectGeneration, VerifyToUnlink, StatToUnlink, UnlinkName, FlushUnlink, tree
  <1>2. \A d \in Digests : objects'[d] \in {objects[d], None}
    <2>1. objects' \in {objects, [objects EXCEPT ![del[p].d] = None]}
      BY DEF DeleteStep, InspectGeneration, VerifyToUnlink, StatToUnlink, UnlinkName, FlushUnlink, tree
    <2> QED
      BY <2>1, CasTypes DEF CompleteInv, ExactInv
  <1>3. dirty \subseteq dirty'
    BY DEF DeleteStep, InspectGeneration, VerifyToUnlink, StatToUnlink, UnlinkName, FlushUnlink, tree, ObjectsChange
  <1> QED
    BY <1>1, <1>2, <1>3, OldStays, ListedStays DEF CompleteInv, ExactInv

LEMMA PublishKeepsListed ==
    ASSUME CompleteInv, NEW p \in Publishers, PublishStep(p), NEW q \in Listers
    PROVE  ListedHold(ls[q], q)'
  <1>1. ls' = ls
    BY PublisherMoves DEF CompleteInv, ExactInv
  <1>2. dirty \subseteq dirty'
    BY PublisherMoves DEF CompleteInv, ExactInv, TreeMoves, StagingChanges, ObjectsChange
  <1> QED
    BY <1>1, <1>2, PublishKeepsOld, ListedStays DEF CompleteInv, ExactInv

\* Those who only look leave the listings of others as they are.
LEMMA OthersKeepListed ==
    ASSUME CompleteInv, UNCHANGED <<content, objects, staging, pub>>, NEW q \in Listers, ls'[q] = ls[q],
           q \notin dirty' => q \notin dirty
    PROVE  ListedHold(ls[q], q)'
  BY OldStays, ListedStays DEF CompleteInv, ExactInv

LEMMA BeginListed ==
    ASSUME CompleteInv, NEW p \in Listers, NEW k \in Listing, BeginScan(p, k), OldHold(k.of, k.old),
           \A n \in Names(k.of) : InodeOf(k.of, n) \in k.old /\ n <= k.cursor => n \in k.listed
    PROVE  ListedHold(ls[p], p)'
  <1>1. PICK m : m = [k EXCEPT !.pc = "scan", !.todo = Names(k.of), !.found = {}]
    OBVIOUS
  <1>2. /\ m.pc = "scan" /\ m.todo = Names(k.of) /\ m.of = k.of /\ m.old = k.old /\ m.cursor = k.cursor
        /\ m.listed = k.listed
    BY <1>1 DEF Listing
  <1>3. ls'[p] = m /\ UNCHANGED <<content, staging, objects, pub>>
    BY <1>1 DEF BeginScan, CompleteInv, ExactInv, LookersHold
  <1>4. OldHold(m.of, m.old)'
    BY <1>2, <1>3 DEF OldHold, Written
  <1>5. \A n \in Names(m.of)' : InodeOf(m.of, n)' \in m.old => n \in m.todo /\ (n <= m.cursor => n \in m.listed)
    BY <1>2, <1>3 DEF Names, InodeOf, Present
  <1> QED
    BY <1>2, <1>3, <1>4, <1>5 DEF ListedHold

LEMMA EntriesArePositive == \A n \in Entries : n \in Nat /\ n > 0
  <1>1. \A n \in Inode : n \in Nat /\ n > 0
    BY DEF Inode
  <1>2. \A n \in Digests : n \in Nat /\ n > 0
    <2>1. Digests \subseteq Nat /\ \A n \in Digests : n # 0
      BY CasAssumption DEF None
    <2> QED
      BY ONLY <2>1
  <1> QED
    BY <1>1, <1>2 DEF Entries

LEMMA StartListed ==
    ASSUME CompleteInv, NEW p \in Listers, NEW of \in {"objects", "staging"}, StartListing(p, of)
    PROVE  ListedHold(ls[p], p)'
  <1> DEFINE settled == {n \in Names(of) : Acceptable(of, n) /\ Written(InodeOf(of, n))}
  <1>1. PICK old : old = {InodeOf(of, n) : n \in settled}
    OBVIOUS
  <1>2. PICK k : k = [NotListing EXCEPT !.of = of, !.old = old]
    OBVIOUS
  <1>3. BeginScan(p, k)
    BY <1>1, <1>2 DEF StartListing
  <1>4. CasInv
    BY DEF CompleteInv, ExactInv
  <1>5. \A n \in Names(of) : InodeOf(of, n) \in Inode /\ n \in Entries
    BY <1>4, CasTypes DEF Names, InodeOf, Present, Entries
  <1>6. old \subseteq Inode
    BY <1>1, <1>5
  <1>7. k \in Listing /\ k.of = of /\ k.old = old /\ k.cursor = None
    BY <1>2, <1>6 DEF NotListing, Listing, ListerPcs
  <1>8. ASSUME NEW i \in old
        PROVE  /\ content[i] # None \/ (i \in staging /\ Written(i))
               /\ of = "objects" => i \notin staging
    <2>1. PICK n \in settled : i = InodeOf(of, n)
      BY <1>1, <1>8
    <2>2. n \in Names(of) /\ Links(i) = 1 /\ Written(i)
      BY <2>1 DEF Acceptable
    <2>3. CASE of = "objects"
      <3>1. n \in Digests /\ objects[n] # None /\ i = objects[n]
        BY <2>1, <2>2, <2>3 DEF Names, InodeOf, Present
      <3>2. i \notin staging
        BY <1>4, <2>2, <3>1, LinksAre
      <3>3. content[i] = n /\ n # None
        BY <1>4, <3>1, CasTypes DEF CasInv, NamesHold, NameHolds
      <3> QED
        BY <3>2, <3>3
    <2>4. CASE of = "staging"
      BY <2>1, <2>2, <2>4 DEF Names, InodeOf
    <2> QED
      BY <2>3, <2>4
  <1>9. OldHold(k.of, k.old)
    BY <1>7, <1>8 DEF OldHold
  <1>10. \A n \in Names(k.of) : ~(n <= k.cursor)
    <2>1. \A n \in Names(of) : n \in Nat /\ n > 0
      BY <1>5, EntriesArePositive
    <2>2. k.cursor = 0 /\ k.of = of
      BY <1>7 DEF None
    <2> QED
      BY <2>1, <2>2
  <1> QED
    BY <1>3, <1>7, <1>9, <1>10, BeginListed

LEMMA InspectListedKeeps ==
    ASSUME CompleteInv, NEW p \in Listers, NEW n \in ls[p].todo, InspectListed(p, n)
    PROVE  ListedHold(ls[p], p)'
  <1> DEFINE l == ls[p]
  <1>1. l \in Listing /\ ls \in [Listers -> Listing] /\ ListedHold(l, p) /\ l.pc = "scan"
    BY DEF CompleteInv, ExactInv, LookersHold, InspectListed
  <1>2. UNCHANGED <<content, objects, staging, pub, dirty>>
    BY DEF InspectListed, tree
  <1>3. CASE ~Acceptable(l.of, n)
    <2>1. ls'[p] = NotListing
      BY <1>1, <1>3 DEF InspectListed
    <2> QED
      BY <2>1 DEF ListedHold, NotListing
  <1>4. CASE Acceptable(l.of, n)
    <2> DEFINE found == IF InodeOf(l.of, n) \in l.old THEN l.found \cup {n} ELSE l.found
    <2>1. PICK m : m = [l EXCEPT !.todo = @ \ {n}, !.found = found]
      OBVIOUS
    <2>2. ls'[p] = m
      BY <1>1, <1>4, <2>1 DEF InspectListed
    <2>3. /\ m.pc = "scan" /\ m.of = l.of /\ m.old = l.old /\ m.cursor = l.cursor /\ m.listed = l.listed
          /\ m.todo = l.todo \ {n} /\ m.found = found
      BY ONLY <1>1, <2>1 DEF Listing
    <2>4. OldHold(m.of, m.old)'
      BY <1>1, <1>2, <2>3 DEF ListedHold, OldHold, Written
    <2>5. p \notin dirty => \A x \in Names(l.of) : InodeOf(l.of, x) \in l.old => x \in m.todo \/ x \in m.found
      BY <1>1, <2>3 DEF ListedHold
    <2>6. \A x \in Names(l.of) : InodeOf(l.of, x) \in l.old /\ x <= l.cursor => x \in l.listed
      BY <1>1 DEF ListedHold
    <2> QED
      BY <1>2, <2>2, <2>3, <2>4, <2>5, <2>6 DEF ListedHold, Names, InodeOf, Present
  <1> QED
    BY <1>3, <1>4

LEMMA EndScanKeeps ==
    ASSUME CompleteInv, NEW p \in Listers, EndScan(p)
    PROVE  ListedHold(ls[p], p)'
  <1> DEFINE l == ls[p]
             rest == AfterCursor(p)
  <1>1. l \in Listing /\ ls \in [Listers -> Listing] /\ ListedHold(l, p) /\ l.pc = "scan" /\ l.todo = {}
    BY DEF CompleteInv, ExactInv, LookersHold, EndScan
  <1>2. UNCHANGED <<content, objects, staging, pub, dirty>>
    BY DEF EndScan, tree
  <1>3. /\ rest \subseteq l.found /\ l.found \subseteq Entries /\ Entries \subseteq Nat /\ l.cursor \in Nat
        /\ \A n \in l.found : n \in rest \/ n <= l.cursor
    <2>1. l.found \subseteq Entries /\ l.cursor \in Entries \cup {None}
      BY <1>1 DEF Listing
    <2>2. Entries \subseteq Nat
      BY EntriesArePositive
    <2>3. l.cursor \in Nat
      <3>1. PICK c : c = l.cursor
        OBVIOUS
      <3>2. c \in Entries \/ c = 0
        BY <2>1, <3>1 DEF None
      <3>3. c \in Nat
        BY ONLY <3>2, EntriesArePositive
      <3> QED
        BY <3>1, <3>3
    <2>4. rest \subseteq l.found
      BY DEF AfterCursor
    <2>5. ASSUME NEW n \in l.found PROVE n \in rest \/ n <= l.cursor
      <3>1. n \in Nat
        BY <2>1, <2>2
      <3>2. CASE n > l.cursor
        BY <3>2 DEF AfterCursor
      <3> QED
        BY ONLY <2>3, <3>1, <3>2
    <2> QED
      BY <2>1, <2>2, <2>3, <2>4, <2>5
  <1>4. IsFiniteSet(rest)
    <2>1. IsFiniteSet(Inode)
      BY CasAssumption, FS_Interval DEF Inode
    <2>2. IsFiniteSet(Entries)
      BY <2>1, CasAssumption, FS_Union DEF Entries
    <2> QED
      BY <1>3, <2>2, FS_Subset
  <1>5. p \notin dirty => \A n \in Names(l.of) : InodeOf(l.of, n) \in l.old => n \in l.found
    BY <1>1 DEF ListedHold
  <1>6. \A n \in Names(l.of) : InodeOf(l.of, n) \in l.old /\ n <= l.cursor => n \in l.listed
    BY <1>1 DEF ListedHold
  <1>7. CASE ls' = [ls EXCEPT ![p] = NotListing]
    <2>1. ls'[p] = NotListing
      BY <1>1, <1>7
    <2> QED
      BY <2>1 DEF ListedHold, NotListing
  <1>8. CASE p \notin dirty /\ rest = {} /\ ls' = [ls EXCEPT ![p].pc = "done"]
    <2>1. PICK m : m = [l EXCEPT !.pc = "done"]
      OBVIOUS
    <2>2. ls'[p] = m
      BY <1>1, <1>8, <2>1
    <2>3. m.pc = "done" /\ m.of = l.of /\ m.old = l.old /\ m.listed = l.listed
      BY ONLY <1>1, <2>1 DEF Listing
    <2>4. OldHold(m.of, m.old)'
      BY <1>1, <1>2, <2>3 DEF ListedHold, OldHold, Written
    <2>5. \A n \in Names(l.of) : InodeOf(l.of, n) \in l.old => n \in l.listed
      BY <1>3, <1>5, <1>6, <1>8
    <2> QED
      BY <1>2, <2>2, <2>3, <2>4, <2>5 DEF ListedHold, Names, InodeOf, Present
  <1>9. ASSUME p \notin dirty, rest # {},
               ls' = [ls EXCEPT ![p].listed = @ \cup {Min(rest)}, ![p].cursor = Min(rest),
                                ![p].pc = IF Continues(rest) THEN "paged" ELSE "done"]
        PROVE  ListedHold(ls[p], p)'
    <2>1. PICK x \in rest : \A y \in rest : x <= y
      BY <1>3, <1>9, Least
    <2>2. PICK n : n = Min(rest)
      OBVIOUS
    <2>3. n \in rest /\ \A y \in rest : n <= y
      BY <2>1, <2>2 DEF Min
    <2>4. PICK pc \in {"paged", "done"} : pc = IF Continues(rest) THEN "paged" ELSE "done"
      OBVIOUS
    <2>5. PICK m : m = [l EXCEPT !.listed = @ \cup {n}, !.cursor = n, !.pc = pc]
      OBVIOUS
    <2>6. ls'[p] = m
      BY <1>1, <1>9, <2>2, <2>4, <2>5 DEF Listing
    <2>7. m.pc = pc /\ m.of = l.of /\ m.old = l.old /\ m.listed = l.listed \cup {n} /\ m.cursor = n
      BY ONLY <1>1, <2>5 DEF Listing
    <2>8. OldHold(m.of, m.old)'
      BY <1>1, <1>2, <2>7 DEF ListedHold, OldHold, Written
    <2>9. \A y \in Names(l.of) : InodeOf(l.of, y) \in l.old /\ y <= n => y \in m.listed
      <3> SUFFICES ASSUME NEW y \in Names(l.of), InodeOf(l.of, y) \in l.old, y <= n PROVE y \in m.listed
        OBVIOUS
      <3>1. y \in l.found
        BY <1>5, <1>9
      <3>2. CASE y \in rest
        <4>1. n <= y /\ n \in Nat /\ y \in Nat
          BY <1>3, <2>3, <3>2
        <4> QED
          BY <2>7, <4>1
      <3>3. CASE y <= l.cursor
        BY <1>6, <2>7, <3>3
      <3> QED
        BY <1>3, <3>1, <3>2, <3>3
    <2>10. pc = "done" => \A y \in Names(l.of) : InodeOf(l.of, y) \in l.old => y \in m.listed
      <3> SUFFICES ASSUME pc = "done", NEW y \in Names(l.of), InodeOf(l.of, y) \in l.old PROVE y \in m.listed
        OBVIOUS
      <3>1. y \in l.found
        BY <1>5, <1>9
      <3>2. ~(Cardinality(rest) > 1)
        BY <2>4 DEF Continues
      <3>3. rest = {n}
        <4>1. IsFiniteSet({n}) /\ Cardinality({n}) = 1 /\ {n} \subseteq rest
          BY <2>3, FS_Singleton
        <4>2. Cardinality({n}) <= Cardinality(rest) /\ Cardinality(rest) \in Nat
          BY <1>4, <4>1, FS_Subset, FS_CardinalityType
        <4>3. Cardinality(rest) = Cardinality({n})
          BY <3>2, <4>1, <4>2
        <4> QED
          BY <1>4, <4>1, <4>3, FS_Subset
      <3> QED
        BY <1>3, <1>6, <2>7, <3>1, <3>3
    <2> QED
      BY <1>2, <2>6, <2>7, <2>8, <2>9, <2>10 DEF ListedHold, Names, InodeOf, Present
  <1> QED
    BY <1>7, <1>8, <1>9 DEF EndScan, DirectoryUnchanged

LEMMA ListKeepsListed ==
    ASSUME CompleteInv, NEW p \in Listers, ListStep(p), NEW q \in Listers
    PROVE  ListedHold(ls[q], q)'
  <1>1. ls \in [Listers -> Listing] /\ ls[p] \in Listing /\ ListedHold(ls[p], p)
    BY DEF CompleteInv, ExactInv, LookersHold
  <1>2. /\ UNCHANGED <<content, objects, staging, pub>> /\ dirty \ {p} \subseteq dirty'
        /\ \E m : ls' = [ls EXCEPT ![p] = m]
    BY DEF ListStep, StartListing, ResumeListing, BeginScan, EndScan, ReturnListing, InspectListed, tree
  <1>3. CASE q # p
    BY <1>1, <1>2, <1>3, OthersKeepListed
  <1>4. CASE ResumeListing(p)
    <2> DEFINE k == ls[p]
    <2>1. k.pc = "paged" /\ BeginScan(p, k)
      BY <1>4 DEF ResumeListing
    <2>2. OldHold(k.of, k.old)
      BY <1>1, <2>1 DEF ListedHold
    <2>3. \A n \in Names(k.of) : InodeOf(k.of, n) \in k.old /\ n <= k.cursor => n \in k.listed
      BY <1>1, <2>1 DEF ListedHold
    <2>4. ListedHold(ls[p], p)'
      BY ONLY <1>1, <2>1, <2>2, <2>3, BeginListed, CompleteInv
    <2> QED
      BY <1>3, <2>4
  <1>5. CASE ReturnListing(p)
    <2>1. ls'[p] = NotListing
      BY <1>1, <1>5 DEF ReturnListing
    <2> QED
      BY <1>3, <2>1 DEF ListedHold, NotListing
  <1> QED
    BY <1>3, <1>4, <1>5, StartListed, InspectListedKeeps, EndScanKeeps DEF ListStep

LEMMA CompleteInit == Init => CompleteInv
  <1> SUFFICES ASSUME Init PROVE CompleteInv
    OBVIOUS
  <1>1. PICK cast \in Casts : ls = [p \in Listers |-> IF p \in cast THEN NotListing ELSE [NotListing EXCEPT !.pc = "away"]]
    BY DEF Init
  <1>2. \A p \in Listers : ls[p].pc \in {"idle", "away"}
    BY <1>1 DEF NotListing
  <1> QED
    BY <1>2, ExactInit DEF CompleteInv, ListedHold

LEMMA CompleteNext == CompleteInv /\ (Next \/ UNCHANGED vars) => CompleteInv'
  <1> SUFFICES ASSUME CompleteInv, Next \/ UNCHANGED vars, NEW q \in Listers PROVE ListedHold(ls[q], q)'
    BY ExactNext DEF CompleteInv
  <1>1. ASSUME PowerLoss PROVE ListedHold(ls[q], q)'
    <2>1. ls'[q].pc \in {"away", "idle"}
      BY <1>1 DEF PowerLoss, NotListing
    <2> QED
      BY <2>1 DEF ListedHold
  <1>2. ASSUME \/ \E p \in Readers : ReadStep(p)
               \/ Rest \/ UNCHANGED vars
        PROVE  ListedHold(ls[q], q)'
    <2>1. UNCHANGED <<content, objects, staging, pub, ls, dirty>>
      BY <1>2 DEF ReadStep, StartRead, OpenToRead, FinishRead, Rest, vars, tree
    <2> QED
      BY <2>1, OthersKeepListed
  <1>3. ASSUME NEW p \in Provers, ProveStep(p) PROVE ListedHold(ls[q], q)'
    <2>1. UNCHANGED <<content, objects, staging, pub, ls>> /\ dirty \ {p} \subseteq dirty' /\ q # p
      BY <1>3, CasAssumption DEF ProveStep, OpenParent, Look, CompareParent, ReturnProof, tree
    <2> QED
      BY <2>1, OthersKeepListed
  <1> QED
    BY <1>1, <1>2, <1>3, PublishKeepsListed, DeleteKeepsListed, ListKeepsListed DEF Next

LEMMA CompletePromise == CompleteInv => ListingIsComplete
  BY DEF CompleteInv, ListedHold, ListingIsComplete

-----------------------------------------------------------------------------
\* The stores together: their types, and their listings.

\* The rows and the logged runs are runs.
LEMMA StoredAreRuns ==
    ASSUME rows \subseteq Runs, logged \subseteq Runs, [Records!Next]_recordsVars
    PROVE  rows' \subseteq Runs /\ logged' \subseteq Runs
  <1>1. ASSUME NEW r \in Runs, Records!Insert(r) \/ Records!LogRest(r) PROVE rows' \subseteq Runs /\ logged' \subseteq Runs
    BY <1>1 DEF Records!Insert, Records!LogRest
  <1>2. ASSUME UNCHANGED <<rows, logged>> PROVE rows' \subseteq Runs /\ logged' \subseteq Runs
    BY <1>2
  <1>3. ASSUME NEW r \in Runs,
               \/ Records!Start(r) \/ Records!EndBody(r, "completed") \/ Records!EndBody(r, "failed")
               \/ Records!CreateFile(r) \/ Records!WriteSome(r) \/ Records!WriteRest(r)
        PROVE  UNCHANGED <<rows, logged>>
    BY <1>3 DEF Records!Start, Records!EndBody, Records!CreateFile, Records!WriteSome, Records!WriteRest
  <1>4. ASSUME NEW r \in Runs,
               \/ Records!CloseConnection(r) \/ Records!FailToClose(r) \/ Records!LogSome(r) \/ Records!FailPersisting(r)
               \/ \E how \in {"ends", "fails", "swallows"} : Records!ExitSession(r, how)
               \/ Records!Kill(r) \/ Records!OpenRecord(r)
        PROVE  UNCHANGED <<rows, logged>>
    BY <1>4 DEF Records!CloseConnection, Records!FailToClose, Records!LogSome, Records!FailPersisting,
                Records!ExitSession, Records!Kill, Records!OpenRecord
  <1>5. ASSUME Records!Scan \/ Records!ReadRecord \/ Records!ReturnRuns \/ Records!EndListing \/ UNCHANGED recordsVars
        PROVE  UNCHANGED <<rows, logged>>
    BY <1>5 DEF Records!Scan, Records!ReadRecord, Records!ReturnRuns, Records!EndListing, recordsVars
  <1> QED
    BY <1>1, <1>2, <1>3, <1>4, <1>5 DEF Records!Next

\* Every store keeps its types, whatever callers, writers, readers, deaths and faults meet
\* in it: among them the CHECK constraints of the lanes' head (GovernanceLane), a lock held by
\* a publisher alone (CasStore), a generation no greater than the events there are.
THEOREM StoresTypes == StoresSpec => []StoresTypeOK
  <1> DEFINE Inv == /\ part = "cas" => ExactInv /\ CasRest
                    /\ part = "identity" => IdentityInv
                    /\ part = "shadow" => ShadowInv
                    /\ part = "lane" => LaneTypes
                    /\ part = "migration" => MigrationInv
                    /\ part = "reads" => ReadsInv
                    /\ part = "records" => ListingInv /\ rows \subseteq Runs /\ logged \subseteq Runs
                    /\ part = "queries" => QueryTypes
  <1>1. StoresInit => Inv
    <2> SUFFICES ASSUME NEW p \in StoresParts, StoresStart(p) PROVE Inv
      BY DEF StoresInit
    <2>1. /\ part = p /\ Init /\ Identity!Init /\ Shadow!Init /\ Migration!Init /\ Reads!Init /\ Records!Init
          /\ p = "queries" => Queries!ReadsInit
          /\ p = "lane" => Lane!Init
      BY DEF StoresStart
    <2>2. Records!Init => rows \subseteq Runs /\ logged \subseteq Runs
      BY DEF Records!Init
    <2> QED
      BY <2>1, <2>2, ExactInit, RestInit, IdentityInit, ShadowInit, LaneTypesInit, MigrationInit, ReadsStart,
         ListingInit, QueryTypesInit
  <1>2. Inv /\ [StoresNext]_storesVars => Inv'
    <2> SUFFICES ASSUME Inv, [StoresNext]_storesVars PROVE Inv'
      OBVIOUS
    <2>1. /\ part' = part
          /\ part = "cas" => Next \/ UNCHANGED vars
          /\ part = "identity" => Identity!Next \/ UNCHANGED identityVars
          /\ part = "shadow" => [Shadow!Next]_shadowVars
          /\ part = "lane" => [Lane!Next]_laneVars
          /\ part = "migration" => [Migration!Next]_migrationVars
          /\ part = "reads" => [Reads!Next]_readsVars
          /\ part = "records" => [Records!Next]_recordsVars
          /\ part = "queries" => [Queries!ReadsNext]_<<laneVars, queryVars>>
      BY DEF StoresNext, storesVars
    <2>2. ASSUME ExactInv, Next \/ UNCHANGED vars PROVE ExactInv'
      BY <2>2, ExactNext
    <2>3. ASSUME IdentityInv, Identity!Next \/ UNCHANGED identityVars PROVE IdentityInv'
      <3>1. CASE UNCHANGED identityVars
        BY <2>3, <3>1, HandlesAlone DEF identityVars, IdentityInv, Identity!TypeOK
      <3> QED
        BY <2>3, <3>1, IdentityNext
    <2> QED
      BY <2>1, <2>2, <2>3, RestNext, ShadowNext, LaneTypesNext, MigrationNext, ReadsNext, ListingNext,
         StoredAreRuns, QueryTypesNext
  <1>3. Inv => StoresTypeOK
    <2>1. IdentityInv => Identity!TypeOK
      BY DEF IdentityInv
    <2>2. ShadowInv => Shadow!TypeOK
      BY DEF ShadowInv
    <2>3. MigrationInv => Migration!TypeOK
      BY DEF MigrationInv
    <2>4. ASSUME ListingInv, rows \subseteq Runs, logged \subseteq Runs PROVE Records!TypeOK
      <3>1. RecordsTyped /\ listing \in ListingRecord
        BY <2>4 DEF ListingInv, ListingHolds, RecordsInv
      <3> QED
        BY <2>4, <3>1 DEF RecordsTyped, ListingRecord, Records!TypeOK
    <2> QED
      BY <2>1, <2>2, <2>3, <2>4, CasTypeOK, LaneTypesPromise, ReadsPromise, QueryTypesPromise DEF StoresTypeOK
  <1> QED
    BY <1>1, <1>2, <1>3, PTL DEF StoresSpec

\* A listing that comes to its end is complete: an inventory of the store has every entry that
\* was there at its beginning and still is (inventory_objects, discover_stale_staging), and the
\* pages a caller put together are the rows there were when it read the first, each once and in
\* order, whatever is submitted, changed and linked in between (the cursors of registry.py and
\* read_ports.py).
THEOREM ListingsComplete == StoresSpec => []ListingsAreComplete
  <1> DEFINE Inv == (part = "cas" => CompleteInv) /\ (part = "reads" => ReadsInv)
  <1>1. StoresInit => Inv
    BY CompleteInit, ReadsStart DEF StoresInit, StoresStart
  <1>2. Inv /\ [StoresNext]_storesVars => Inv'
    <2>1. [StoresNext]_storesVars => /\ part' = part
                                     /\ part = "cas" => Next \/ UNCHANGED vars
                                     /\ part = "reads" => [Reads!Next]_readsVars
      BY DEF StoresNext, storesVars
    <2> QED
      BY <2>1, CompleteNext, ReadsNext
  <1>3. Inv => ListingsAreComplete
    BY CompletePromise, ReadsPromise DEF ListingsAreComplete
  <1> QED
    BY <1>1, <1>2, <1>3, PTL DEF StoresSpec

=============================================================================
