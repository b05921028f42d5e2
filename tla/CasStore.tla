------------------------------ MODULE CasStore ------------------------------
(***************************************************************************)
(* The content-addressed artifact store (quant_platform.tracking.cas),      *)
(* system call by system call: publication through a private staging name  *)
(* and a hard link, verified reads, generation-checked deletion and the     *)
(* paged inventories of objects and of stale staging files, proofs of       *)
(* absence, with publishers that are killed and a machine that loses power. *)
(* Retention takes Publish and Unlink as single steps; here they are the    *)
(* several steps the store makes of them.                                   *)
(* The file system is external: a directory maps a name to an inode, link   *)
(* fails on a name that exists, flock dies with its process, and an entry   *)
(* or bytes that were not flushed may be lost with the power.               *)
(***************************************************************************)
EXTENDS Naturals, FiniteSets, FiniteSetsExt

CONSTANTS
    Digests,          \* artifact digests: positive numbers, in the order of the inventory
    Publishers, Readers, Deleters, Listers, Provers,   \* processes, by what they call
    MaxInodes,        \* bound: staging files ever created
    Casts,            \* which processes make calls, one set per behaviour
    MaxFaults,        \* bound: publishers killed and power losses
    Calm,             \* bound: the casts among which there are none
    Serialized        \* maintenance calls are serialized against publication

None == 0
Inode == 1..MaxInodes
Entries == Digests \cup Inode     \* what an inventory lists: objects or staging files

ASSUME CasAssumption ==
    /\ Digests \subseteq Nat \ {None} /\ IsFiniteSet(Digests)
    /\ None \notin Publishers /\ Listers \cap Provers = {}
    /\ MaxInodes \in Nat /\ MaxFaults \in Nat
    /\ Casts \subseteq SUBSET (Publishers \cup Readers \cup Deleters \cup Listers \cup Provers)
    /\ Calm \subseteq Casts
    /\ Serialized \in BOOLEAN

VARIABLES
    content,     \* what an inode holds: None while it is partial, then a digest
    flushed,     \* inodes whose bytes were flushed
    staging,     \* inodes with a name under .staging
    objects,     \* the directory entry of each digest
    durable,     \* the entry each digest keeps if the power fails
    dirty,       \* listers and provers whose directory changed under them (its mtime)
    lock,        \* the publisher that holds the exclusive lock of the root
    pub, rd, del, ls, proof,   \* where each process is
    acked,       \* digests a publication returned that were not deleted since
    unflushed,   \* of those not deleted since, the digests whose entry a failing publisher left unflushed
    known,       \* digests a publication ever returned
    faults       \* kills and power losses so far

tree == <<content, flushed, staging, objects, durable, dirty>>
vars == <<tree, lock, pub, rd, del, ls, proof, acked, unflushed, known, faults>>

Resting == [pc |-> "idle", d |-> None, ino |-> None, made |-> FALSE]
Away == [Resting EXCEPT !.pc = "away"]
NotListing == [of |-> "objects", pc |-> "idle", todo |-> {}, found |-> {}, old |-> {}, cursor |-> None, listed |-> {}]
PubPcs == {"away", "idle", "copy", "lock", "link", "check", "flush", "unstage", "recheck", "open", "hash"}
Call(pcs) == [pc : pcs, d : Digests \cup {None}, ino : Inode \cup {None}, made : BOOLEAN]

TypeOK ==
    /\ content \in [Inode -> Digests \cup {None}]
    /\ flushed \subseteq Inode /\ staging \subseteq Inode
    /\ objects \in [Digests -> Inode \cup {None}] /\ durable \in [Digests -> Inode \cup {None}]
    /\ dirty \subseteq Listers \cup Provers /\ lock \in Publishers \cup {None}
    /\ pub \in [Publishers -> Call(PubPcs)]
    /\ rd \in [Readers -> Call({"away", "idle", "open", "hash"})]
    /\ del \in [Deleters -> Call({"away", "idle", "chosen", "stat", "unlink", "flush"})]
    /\ ls \in [Listers -> [of : {"objects", "staging"}, pc : {"away", "idle", "scan", "paged", "done"},
                           todo : SUBSET Entries, found : SUBSET Entries, old : SUBSET Inode,
                           cursor : Entries \cup {None}, listed : SUBSET Entries]]
    /\ proof \in [Provers -> Call({"away", "idle", "open", "looked", "compared", "again", "proved"})]
    /\ acked \subseteq known /\ known \subseteq Digests /\ unflushed \subseteq Digests
    /\ faults \in 0..MaxFaults

Init ==
    /\ content = [i \in Inode |-> None] /\ flushed = {} /\ staging = {}
    /\ objects = [d \in Digests |-> None] /\ durable = [d \in Digests |-> None] /\ dirty = {}
    /\ lock = None
    /\ \E cast \in Casts :
          /\ pub = [p \in Publishers |-> IF p \in cast THEN Resting ELSE Away]
          /\ rd = [p \in Readers |-> IF p \in cast THEN Resting ELSE Away]
          /\ del = [p \in Deleters |-> IF p \in cast THEN Resting ELSE Away]
          /\ ls = [p \in Listers |-> IF p \in cast THEN NotListing ELSE [NotListing EXCEPT !.pc = "away"]]
          /\ proof = [p \in Provers |-> IF p \in cast THEN Resting ELSE Away]
          /\ faults = IF cast \in Calm THEN MaxFaults ELSE 0
    /\ acked = {} /\ unflushed = {} /\ known = {}

\* st_nlink: a staging name and the names under objects.
Links(i) == (IF i \in staging THEN 1 ELSE 0) + Cardinality({d \in Digests : objects[d] = i})

\* Mutant: a second link is not looked at.
AnyLinkCount(d, n) == objects[d] # None

\* The status every path asks of an object: present, private, n links.
HasLinks(d, n) == objects[d] # None /\ Links(objects[d]) = n

\* Inodes are numbered as they are created; a number is never used twice.
Unused == {i \in Inode : \A j \in Inode : j >= i =>
             /\ j \notin staging /\ content[j] = None
             /\ \A p \in Publishers : pub[p].ino # j}

\* A live call of the other kind, which the callers keep away.
Publishing == {p \in Publishers : pub[p].pc \notin {"away", "idle"}}
Deleting == {p \in Deleters : del[p].pc \in {"stat", "unlink", "flush"}}
Scanning == {p \in Listers : ls[p].pc = "scan"}
Proving == {p \in Provers : proof[p].pc \notin {"away", "idle", "proved"}}

\* A directory that changes gets a new time: whoever compares it later notices.
ObjectsChange(d) ==
    dirty' = dirty \cup {p \in Scanning : ls[p].of = "objects"} \cup {p \in Proving : proof[p].d = d}
StagingChanges == dirty' = dirty \cup {p \in Scanning : ls[p].of = "staging"}

-----------------------------------------------------------------------------
\* publish.

PubTo(p, pc) == pub' = [pub EXCEPT ![p].pc = pc]

\* The source is opened and a private staging file is created for it.
CreateStaging(p, d) ==
    /\ pub[p].pc = "idle" /\ Unused # {}
    /\ Serialized => Deleting = {}
    /\ LET i == Min(Unused) IN
       /\ staging' = staging \cup {i}
       /\ pub' = [pub EXCEPT ![p] = [pc |-> "copy", d |-> d, ino |-> i, made |-> FALSE]]
    /\ StagingChanges
    /\ UNCHANGED <<content, flushed, objects, durable, lock, rd, del, ls, proof, acked, unflushed, known, faults>>

\* Mutant: a source that changes while it is copied goes unnoticed.
CopyChanging(p) ==
    /\ pub[p].pc = "copy"
    /\ \E d \in Digests : content' = [content EXCEPT ![pub[p].ino] = d]
    /\ flushed' = flushed \cup {pub[p].ino}
    /\ PubTo(p, "lock")
    /\ UNCHANGED <<staging, objects, durable, dirty, lock, rd, del, ls, proof, acked, unflushed, known, faults>>

\* Mutant: the bytes are not flushed before they are linked.
CopyUnflushed(p) ==
    /\ pub[p].pc = "copy"
    /\ content' = [content EXCEPT ![pub[p].ino] = pub[p].d]
    /\ PubTo(p, "lock")
    /\ UNCHANGED <<flushed, staging, objects, durable, dirty, lock, rd, del, ls, proof, acked, unflushed, known, faults>>

\* The bytes are copied and hashed with no lock held, flushed and made read-only.
CopyAndHash(p) ==
    /\ pub[p].pc = "copy"
    /\ content' = [content EXCEPT ![pub[p].ino] = pub[p].d]
    /\ flushed' = flushed \cup {pub[p].ino}
    /\ PubTo(p, "lock")
    /\ UNCHANGED <<staging, objects, durable, dirty, lock, rd, del, ls, proof, acked, unflushed, known, faults>>

AcquirePublicationLock(p) ==
    /\ pub[p].pc = "lock" /\ lock = None
    /\ lock' = p /\ PubTo(p, "link")
    /\ UNCHANGED <<tree, rd, del, ls, proof, acked, unflushed, known, faults>>

\* Mutant: the link replaces a name that exists.
LinkOver(p) ==
    /\ pub[p].pc = "link"
    /\ objects' = [objects EXCEPT ![pub[p].d] = pub[p].ino] /\ ObjectsChange(pub[p].d)
    /\ pub' = [pub EXCEPT ![p].pc = "check", ![p].made = TRUE]
    /\ UNCHANGED <<content, flushed, staging, durable, lock, rd, del, ls, proof, acked, unflushed, known, faults>>

\* A name that exists is never replaced: its object is reused.
LinkStaged(p) ==
    /\ pub[p].pc = "link"
    /\ LET absent == objects[pub[p].d] = None IN
       /\ IF absent
          THEN objects' = [objects EXCEPT ![pub[p].d] = pub[p].ino] /\ ObjectsChange(pub[p].d)
          ELSE UNCHANGED <<objects, dirty>>
       /\ pub' = [pub EXCEPT ![p].pc = "check", ![p].made = absent]
    /\ UNCHANGED <<content, flushed, staging, durable, lock, rd, del, ls, proof, acked, unflushed, known, faults>>

\* _assert_publication_candidate, first with the staging link still there.
CandidateHolds(p) == HasLinks(pub[p].d, IF pub[p].made THEN 2 ELSE 1)

CheckCandidate(p) ==
    /\ pub[p].pc = "check" /\ CandidateHolds(p)
    /\ PubTo(p, "flush")
    /\ UNCHANGED <<tree, lock, rd, del, ls, proof, acked, unflushed, known, faults>>

\* Mutant: the directory entry is left to the operating system.
FlushNothing(p) ==
    /\ pub[p].pc = "flush"
    /\ PubTo(p, "unstage")
    /\ UNCHANGED <<tree, lock, rd, del, ls, proof, acked, unflushed, known, faults>>

\* Only the publisher that made the link flushes the directory that holds it.
FlushDestination(p) ==
    /\ pub[p].pc = "flush"
    /\ durable' = IF pub[p].made THEN [durable EXCEPT ![pub[p].d] = objects[pub[p].d]] ELSE durable
    /\ PubTo(p, "unstage")
    /\ UNCHANGED <<content, flushed, staging, objects, dirty, lock, rd, del, ls, proof, acked, unflushed, known, faults>>

UnlinkStaging(p) ==
    /\ pub[p].pc = "unstage"
    /\ staging' = staging \ {pub[p].ino} /\ PubTo(p, "recheck")
    /\ StagingChanges
    /\ UNCHANGED <<content, flushed, objects, durable, lock, rd, del, ls, proof, acked, unflushed, known, faults>>

\* One link left: the lock is given up and the bytes are hashed once more.
Recheck(p) ==
    /\ pub[p].pc = "recheck" /\ HasLinks(pub[p].d, 1)
    /\ lock' = None /\ PubTo(p, "open")
    /\ UNCHANGED <<tree, rd, del, ls, proof, acked, unflushed, known, faults>>

\* p linked its object and has not flushed the directory.
Unflushed(p) == pub[p].pc \in {"check", "flush"} /\ pub[p].made

LeavesUnflushed(p) == unflushed' = unflushed \cup (IF Unflushed(p) THEN {pub[p].d} ELSE {})

\* Mutant: what a failed publication staged stays behind.
FailLittered(p) ==
    /\ p \in Publishing /\ LeavesUnflushed(p)
    /\ lock' = IF lock = p THEN None ELSE lock
    /\ pub' = [pub EXCEPT ![p] = Resting]
    /\ UNCHANGED <<tree, rd, del, ls, proof, acked, known, faults>>

\* Any step may fail: a changed source, a lock that stays taken for five
\* seconds, a check that does not hold, an error of the system.  The staging
\* name is removed, then the lock released; the link stays, flushed or not.
FailPublish(p) ==
    /\ p \in Publishing /\ LeavesUnflushed(p)
    /\ staging' = staging \ {pub[p].ino} /\ StagingChanges
    /\ lock' = IF lock = p THEN None ELSE lock
    /\ pub' = [pub EXCEPT ![p] = Resting]
    /\ UNCHANGED <<content, flushed, objects, durable, rd, del, ls, proof, acked, known, faults>>

\* The kernel releases the lock of a killed publisher; its names stay.  So
\* does a cleanup that fails: closing the descriptor releases the lock.
KillPublisher(p) ==
    /\ p \in Publishing /\ faults < MaxFaults
    /\ faults' = faults + 1
    /\ lock' = IF lock = p THEN None ELSE lock
    /\ pub' = [pub EXCEPT ![p] = Resting]
    /\ UNCHANGED <<tree, rd, del, ls, proof, acked, unflushed, known>>

-----------------------------------------------------------------------------
\* verify, read_verified and inspect; publication ends with the same reading.

\* Mutant: readers do not take the shared lock.
NoSharedLock == TRUE

\* The shared lock is free unless a publisher is between link and unlink.
SharedLockIsFree == lock = None

\* _open_single_link_object: under the shared lock, an object with one link.
OpensAt(d) == SharedLockIsFree /\ HasLinks(d, 1)

\* The name still leads to the inode that was opened, and nothing else does.
StillNamed(d, i) == objects[d] = i /\ Links(i) = 1

StartRead(p, d) ==
    /\ rd[p].pc = "idle" /\ d \in known
    /\ rd' = [rd EXCEPT ![p] = [Resting EXCEPT !.pc = "open", !.d = d]]
    /\ UNCHANGED <<tree, lock, pub, del, ls, proof, acked, unflushed, known, faults>>

OpenToRead(p) ==
    /\ rd[p].pc = "open" /\ SharedLockIsFree
    /\ rd' = IF OpensAt(rd[p].d)
             THEN [rd EXCEPT ![p].pc = "hash", ![p].ino = objects[rd[p].d]]
             ELSE [rd EXCEPT ![p] = Resting]
    /\ UNCHANGED <<tree, lock, pub, del, ls, proof, acked, unflushed, known, faults>>

\* The bytes come back, or an error if the name moved under the reader.
FinishRead(p) ==
    /\ rd[p].pc = "hash"
    /\ rd' = [rd EXCEPT ![p] = Resting]
    /\ UNCHANGED <<tree, lock, pub, del, ls, proof, acked, unflushed, known, faults>>

OpenPublished(p) ==
    /\ pub[p].pc = "open" /\ OpensAt(pub[p].d)
    /\ pub' = [pub EXCEPT ![p].pc = "hash", ![p].ino = objects[pub[p].d]]
    /\ UNCHANGED <<tree, lock, rd, del, ls, proof, acked, unflushed, known, faults>>

ReturnPublished(p) ==
    /\ pub[p].pc = "hash" /\ StillNamed(pub[p].d, pub[p].ino)
    /\ acked' = acked \cup {pub[p].d} /\ known' = known \cup {pub[p].d}
    /\ pub' = [pub EXCEPT ![p] = Resting]
    /\ UNCHANGED <<tree, lock, rd, del, ls, proof, unflushed, faults>>

-----------------------------------------------------------------------------
\* inspect, then unlink_verified with the generation that was inspected.

DelTo(p, pc) == del' = [del EXCEPT ![p].pc = pc]

InspectGeneration(p, d) ==
    /\ del[p].pc = "idle" /\ OpensAt(d)
    /\ del' = [del EXCEPT ![p] = [Resting EXCEPT !.pc = "chosen", !.d = d, !.ino = objects[d]]]
    /\ UNCHANGED <<tree, lock, pub, rd, ls, proof, acked, unflushed, known, faults>>

\* Mutant: any object under the digest will do.
AnyGeneration(p) == HasLinks(del[p].d, 1)

\* unlink_verified takes no lock; inode, size and times are the generation.
SameGeneration(p) == HasLinks(del[p].d, 1) /\ objects[del[p].d] = del[p].ino

VerifyToUnlink(p) ==
    /\ del[p].pc = "chosen"
    /\ Serialized => Publishing = {}
    /\ IF SameGeneration(p) THEN DelTo(p, "stat") ELSE del' = [del EXCEPT ![p] = Resting]
    /\ UNCHANGED <<tree, lock, pub, rd, ls, proof, acked, unflushed, known, faults>>

\* _unlink_name_if_same compares the name once more ...
StatToUnlink(p) ==
    /\ del[p].pc = "stat"
    /\ IF SameGeneration(p) THEN DelTo(p, "unlink") ELSE del' = [del EXCEPT ![p] = Resting]
    /\ UNCHANGED <<tree, lock, pub, rd, ls, proof, acked, unflushed, known, faults>>

\* ... and then removes whatever the name leads to.
UnlinkName(p) ==
    /\ del[p].pc = "unlink"
    /\ IF objects[del[p].d] # None
       THEN /\ objects' = [objects EXCEPT ![del[p].d] = None] /\ ObjectsChange(del[p].d)
            /\ acked' = acked \ {del[p].d} /\ unflushed' = unflushed \ {del[p].d} /\ DelTo(p, "flush")
       ELSE del' = [del EXCEPT ![p] = Resting] /\ UNCHANGED <<objects, dirty, acked, unflushed>>
    /\ UNCHANGED <<content, flushed, staging, durable, lock, pub, rd, ls, proof, known, faults>>

FlushUnlink(p) ==
    /\ del[p].pc = "flush"
    /\ durable' = [durable EXCEPT ![del[p].d] = objects[del[p].d]]
    /\ del' = [del EXCEPT ![p] = Resting]
    /\ UNCHANGED <<content, flushed, staging, objects, dirty, lock, pub, rd, ls, proof, acked, unflushed, known, faults>>

-----------------------------------------------------------------------------
\* inventory_objects and discover_stale_staging: pages of one record, each from a
\* scan of the whole directory.

Present == {d \in Digests : objects[d] # None}
Names(of) == IF of = "objects" THEN Present ELSE staging
InodeOf(of, n) == IF of = "objects" THEN objects[n] ELSE n

\* _inspect_inventory_object, _inspect_staging_entry: an entry that is there, with one link.
Acceptable(of, n) == n \in Names(of) /\ Links(InodeOf(of, n)) = 1

\* Nothing writes to the file any more.
Written(i) == \A p \in Publishers : pub[p].ino = i => pub[p].pc # "copy"

BeginScan(p, listing) ==
    /\ ls' = [ls EXCEPT ![p] = [listing EXCEPT !.pc = "scan", !.todo = Names(listing.of), !.found = {}]]
    /\ dirty' = dirty \ {p}
    /\ UNCHANGED <<content, flushed, staging, objects, durable, lock, pub, rd, del, proof, acked, unflushed, known, faults>>

\* The first page fixes the cutoff: entries settled by then are old.
StartListing(p, of) ==
    /\ ls[p].pc = "idle"
    /\ LET settled == {n \in Names(of) : Acceptable(of, n) /\ Written(InodeOf(of, n))}
       IN BeginScan(p, [NotListing EXCEPT !.of = of, !.old = {InodeOf(of, n) : n \in settled}])

ResumeListing(p) == ls[p].pc = "paged" /\ BeginScan(p, ls[p])

\* One unexpected entry, a transient link among them, fails the whole scan.
InspectListed(p, n) ==
    /\ ls[p].pc = "scan" /\ n \in ls[p].todo
    /\ ls' = IF ~Acceptable(ls[p].of, n) THEN [ls EXCEPT ![p] = NotListing]
             ELSE [ls EXCEPT ![p].todo = @ \ {n},
                             ![p].found = IF InodeOf(ls[p].of, n) \in ls[p].old THEN @ \cup {n} ELSE @]
    /\ UNCHANGED <<tree, lock, pub, rd, del, proof, acked, unflushed, known, faults>>

\* Mutant: the directory is not compared with the one that was scanned.
AnyDirectory(p) == TRUE

\* _assert_scanned_directory_unchanged, and the comparisons of verify_absent.
DirectoryUnchanged(p) == p \notin dirty

\* The records behind the cursor's entry.
AfterCursor(p) == {n \in ls[p].found : n > ls[p].cursor}

\* Mutant: the page before the last is taken for the last.
MoreThanTwo(rest) == Cardinality(rest) > 2

\* A page of one record continues when the records behind it are more.
Continues(rest) == Cardinality(rest) > 1

EndScan(p) ==
    /\ ls[p].pc = "scan" /\ ls[p].todo = {}
    /\ LET rest == AfterCursor(p) IN
       ls' = IF ~DirectoryUnchanged(p) \/ ls[p].cursor \notin ls[p].found \cup {None}
             THEN [ls EXCEPT ![p] = NotListing]
             ELSE IF rest = {} THEN [ls EXCEPT ![p].pc = "done"]
             ELSE [ls EXCEPT ![p].listed = @ \cup {Min(rest)}, ![p].cursor = Min(rest),
                             ![p].pc = IF Continues(rest) THEN "paged" ELSE "done"]
    /\ UNCHANGED <<tree, lock, pub, rd, del, proof, acked, unflushed, known, faults>>

ReturnListing(p) ==
    /\ ls[p].pc = "done"
    /\ ls' = [ls EXCEPT ![p] = NotListing]
    /\ UNCHANGED <<tree, lock, pub, rd, del, proof, acked, unflushed, known, faults>>

-----------------------------------------------------------------------------
\* verify_absent: the name is looked for twice, each time before the fan-out
\* directory is compared with what it was when it was opened.

ProofTo(p, ok, pc) == proof' = [proof EXCEPT ![p] = IF ok THEN [@ EXCEPT !.pc = pc] ELSE Resting]

\* Only a digest that was published has a fan-out directory.
OpenParent(p, d) ==
    /\ proof[p].pc = "idle" /\ d \in known
    /\ proof' = [proof EXCEPT ![p] = [Resting EXCEPT !.pc = "open", !.d = d]]
    /\ dirty' = dirty \ {p}
    /\ UNCHANGED <<content, flushed, staging, objects, durable, lock, pub, rd, del, ls, acked, unflushed, known, faults>>

Look(p) ==
    /\ \E step \in {<<"open", "looked">>, <<"compared", "again">>} :
          proof[p].pc = step[1] /\ ProofTo(p, objects[proof[p].d] = None, step[2])
    /\ UNCHANGED <<tree, lock, pub, rd, del, ls, acked, unflushed, known, faults>>

CompareParent(p) ==
    /\ \E step \in {<<"looked", "compared">>, <<"again", "proved">>} :
          proof[p].pc = step[1] /\ ProofTo(p, DirectoryUnchanged(p), step[2])
    /\ UNCHANGED <<tree, lock, pub, rd, del, ls, acked, unflushed, known, faults>>

ReturnProof(p) ==
    /\ proof[p].pc = "proved" /\ ProofTo(p, FALSE, "idle")
    /\ UNCHANGED <<tree, lock, pub, rd, del, ls, acked, unflushed, known, faults>>

-----------------------------------------------------------------------------
\* Power is lost: every process dies, and each entry that was not flushed is
\* as it was or as it had become.
PowerLoss ==
    /\ faults < MaxFaults /\ faults' = faults + 1
    /\ content' = [i \in Inode |-> IF i \in flushed THEN content[i] ELSE None]
    /\ \E kept \in SUBSET Digests :
          /\ objects' = [d \in Digests |-> IF d \in kept THEN objects[d] ELSE durable[d]]
          /\ durable' = objects'
    /\ staging' \in SUBSET staging
    /\ dirty' = {} /\ lock' = None
    /\ pub' = [p \in Publishers |-> IF p \in Publishing THEN Resting ELSE pub[p]]
    /\ rd' = [p \in Readers |-> IF rd[p] = Away THEN Away ELSE Resting]
    /\ del' = [p \in Deleters |-> IF del[p] = Away THEN Away ELSE Resting]
    /\ ls' = [p \in Listers |-> IF ls[p].pc = "away" THEN ls[p] ELSE NotListing]
    /\ proof' = [p \in Provers |-> IF proof[p] = Away THEN Away ELSE Resting]
    /\ UNCHANGED <<flushed, acked, unflushed, known>>

\* Nobody calls.
Rest ==
    /\ Publishing = {} /\ Deleting = {} /\ Scanning = {} /\ Proving = {}
    /\ UNCHANGED vars

PublishStep(p) ==
    \/ \E d \in Digests : CreateStaging(p, d)
    \/ CopyAndHash(p) \/ AcquirePublicationLock(p) \/ LinkStaged(p) \/ CheckCandidate(p)
    \/ FlushDestination(p) \/ UnlinkStaging(p) \/ Recheck(p) \/ OpenPublished(p)
    \/ ReturnPublished(p) \/ FailPublish(p) \/ KillPublisher(p)
ReadStep(p) == (\E d \in Digests : StartRead(p, d)) \/ OpenToRead(p) \/ FinishRead(p)
DeleteStep(p) ==
    \/ \E d \in Digests : InspectGeneration(p, d)
    \/ VerifyToUnlink(p) \/ StatToUnlink(p) \/ UnlinkName(p) \/ FlushUnlink(p)
ListStep(p) ==
    \/ \E of \in {"objects", "staging"} : StartListing(p, of)
    \/ ResumeListing(p) \/ EndScan(p) \/ ReturnListing(p)
    \/ \E n \in ls[p].todo : InspectListed(p, n)
ProveStep(p) == (\E d \in Digests : OpenParent(p, d)) \/ Look(p) \/ CompareParent(p) \/ ReturnProof(p)

Next ==
    \/ \E p \in Publishers : PublishStep(p)
    \/ \E p \in Readers : ReadStep(p)
    \/ \E p \in Deleters : DeleteStep(p)
    \/ \E p \in Listers : ListStep(p)
    \/ \E p \in Provers : ProveStep(p)
    \/ PowerLoss \/ Rest

Spec == Init /\ [][Next]_vars

-----------------------------------------------------------------------------
\* What a publication returned, by linking or by reusing, can be read: one link, its own
\* bytes, whatever publishers were killed or failed around it.  Only an entry that a
\* failing publisher left unflushed may be gone, once power was lost, and never has
\* other bytes (cas.py publish, reuse path).
AcknowledgedIsReadable ==
    \A d \in acked :
        /\ objects[d] # None => content[objects[d]] = d
        /\ d \notin unflushed \/ faults = 0 => objects[d] # None /\ Links(objects[d]) = 1

\* It is on the disk, but for such an entry: bytes and directory entry both survive a
\* loss of power.
AcknowledgedIsDurable ==
    \A d \in acked \ unflushed : durable[d] = objects[d] /\ objects[d] \in flushed

\* While nothing was killed, no reader and no second publisher that may look
\* at an object finds the staging link of a publication on it: the lock hides it.
TransientLinksAreHidden ==
    faults = 0 =>
        /\ \A p \in Readers : rd[p].pc = "open" /\ SharedLockIsFree =>
              LET d == rd[p].d IN objects[d] = None \/ Links(objects[d]) = 1
        /\ \A p \in Publishers : pub[p].pc = "check" /\ objects[pub[p].d] # None => CandidateHolds(p)

\* Without a kill every staging name belongs to a publication under way: every
\* way a publication fails removes what it staged.
StagingBelongsToALiveCall ==
    faults = 0 => staging \subseteq {pub[p].ino : p \in Publishing}

\* A listing that ends has every old object, or every old staging file, that is still
\* there, though every page scanned the directory again and entries came and went
\* between the pages.
ListingIsComplete ==
    \A p \in Listers : ls[p].pc = "done" =>
        \A n \in Names(ls[p].of) : InodeOf(ls[p].of, n) \in ls[p].old => n \in ls[p].listed

\* A page is a snapshot: no record is of an entry that went away, or was put there
\* anew, while the rest of the directory was being read.
PageIsASnapshot ==
    [][\A p \in Listers : \A n \in ls'[p].listed \ ls[p].listed :
          n \in Names(ls[p].of) /\ InodeOf(ls[p].of, n) \in ls[p].old]_vars

\* When verify_absent returns, the name is absent, whatever was published or deleted
\* since it was looked for.
AbsenceIsProved ==
    [][\A p \in Provers : proof[p].pc # "proved" /\ proof'[p].pc = "proved" => objects[proof[p].d] = None]_vars

\* A name goes away only by a deletion that inspected that very generation,
\* and never leads to another inode without having gone away (power aside).
OnlyTheInspectedGenerationGoes ==
    [][\A d \in Digests : objects[d] # None /\ objects'[d] # objects[d] /\ faults' = faults =>
          /\ objects'[d] = None
          /\ \E p \in Deleters : del[p].pc = "unlink" /\ del[p].d = d /\ del[p].ino = objects[d]]_vars
=============================================================================
