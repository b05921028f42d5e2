------------------------ MODULE EvidencePublication ------------------------
(***************************************************************************)
(* Publication without replacement                                          *)
(* (_publish_bytes_no_replace in scripts/benchmark_service_operability.py   *)
(* and, the same steps, in scripts/plot_service_operability.py): a private  *)
(* file is written and hard-linked to the destination; whoever finds the    *)
(* destination taken reads it and accepts identical bytes.  Publishers run  *)
(* at once, may be killed between any two steps, the destination may be     *)
(* edited, replaced or removed by hand, and the power may fail.             *)
(***************************************************************************)
EXTENDS Naturals, FiniteSets

CONSTANTS
    Publishers,             \* positive numbers; publisher p's private file is inode p
    Payload,                \* [Publishers -> bytes]
    MaxHands, MaxCuts       \* bounds: changes by hand, power failures

VARIABLES
    file,       \* [inode -> its content, mode, link count and change count]
    dest,       \* inode the destination names, 0 for none
    synced,     \* whether that entry would survive a power failure
    at,         \* [publisher -> next step]
    seen,       \* [publisher -> what it opened and first read of it]
    verdict,    \* [publisher -> how it ended]
    hands, cuts

publicationVars == <<file, dest, synced, at, seen, verdict, hands, cuts>>

Foreign == 0
Inodes == Publishers \cup {100}     \* 100: a file put there by hand
Steps == {"write", "link", "fsync", "open", "read", "compare", "unlink", "over"}
NoFile == [content |-> Foreign, mode |-> "private", links |-> 0, changes |-> 0]
Unseen == [inode |-> 0, file |-> NoFile]

TypeOK ==
    /\ dest \in Inodes \cup {0} /\ synced \in BOOLEAN
    /\ at \in [Publishers -> Steps]
    /\ verdict \in [Publishers -> {"none", "ok", "refused", "killed"}]
    /\ \A i \in Inodes : file[i].links \in 0..2
    /\ hands \in 0..MaxHands /\ cuts \in 0..MaxCuts

Init ==
    /\ file = [i \in Inodes |-> NoFile] /\ dest = 0 /\ synced = TRUE
    /\ at = [p \in Publishers |-> "write"] /\ seen = [p \in Publishers |-> Unseen]
    /\ verdict = [p \in Publishers |-> "none"]
    /\ hands = 0 /\ cuts = 0

To(p, next) == at' = [at EXCEPT ![p] = next]
End(p, how) == verdict' = [verdict EXCEPT ![p] = how]
Changed(f) == [f EXCEPT !.changes = @ + 1]

-----------------------------------------------------------------------------
\* A private file with the payload, the canonical mode, on disk.
Write(p) ==
    /\ at[p] = "write"
    /\ file' = [file EXCEPT ![p] = [content |-> Payload[p], mode |-> "canonical", links |-> 1, changes |-> 0]]
    /\ To(p, "link")
    /\ UNCHANGED <<dest, synced, seen, verdict, hands, cuts>>

\* Mutant: the private file is renamed over the destination.
LinkReplacing(p) == TRUE

MayLink(p) == dest = 0

\* The commit point.
Link(p) ==
    /\ at[p] = "link"
    /\ IF MayLink(p)
       THEN /\ dest' = p /\ synced' = FALSE
            /\ file' = [file EXCEPT ![p] = Changed([@ EXCEPT !.links = @ + 1])]
            /\ To(p, "fsync")
       ELSE To(p, "open") /\ UNCHANGED <<dest, synced, file>>
    /\ UNCHANGED <<seen, verdict, hands, cuts>>

\* _fsync_directory; a success of its own.
FsyncDirectory(p) ==
    /\ at[p] = "fsync"
    /\ synced' = TRUE
    /\ End(p, "ok") /\ To(p, "unlink")
    /\ UNCHANGED <<file, dest, seen, hands, cuts>>

\* _read_existing_publication: opened, and its identity taken.
Open(p) ==
    /\ at[p] = "open"
    /\ IF dest # 0 /\ file[dest].mode = "canonical"
       THEN /\ seen' = [seen EXCEPT ![p] = [inode |-> dest, file |-> file[dest]]]
            /\ To(p, "read") /\ UNCHANGED verdict
       ELSE End(p, "refused") /\ To(p, "unlink") /\ UNCHANGED seen
    /\ UNCHANGED <<file, dest, synced, hands, cuts>>

\* Read in pieces: the bytes are those of some moment, unless they change in between.
Read(p) ==
    /\ at[p] = "read"
    /\ seen' = [seen EXCEPT ![p].file.content = file[seen[p].inode].content]
    /\ To(p, "compare")
    /\ UNCHANGED <<file, dest, synced, verdict, hands, cuts>>

\* Mutant: what was opened is compared, whatever is there by now.
SameBytes(p) == seen[p].file.content = Payload[p]

\* _file_identity before, after and by name again: inode, mode, links and change time.
Accepted(p) ==
    LET i == seen[p].inode
    IN  /\ dest = i /\ file[i].changes = seen[p].file.changes /\ file[i].links = seen[p].file.links
        /\ seen[p].file.content = Payload[p]

Compare(p) ==
    /\ at[p] = "compare"
    /\ End(p, IF Accepted(p) THEN "ok" ELSE "refused")
    /\ To(p, "unlink")
    /\ UNCHANGED <<file, dest, synced, seen, hands, cuts>>

\* The private name goes, in every case.
Unlink(p) ==
    /\ at[p] = "unlink"
    /\ file' = [file EXCEPT ![p] = Changed([@ EXCEPT !.links = @ - 1])]
    /\ To(p, "over")
    /\ UNCHANGED <<dest, synced, seen, verdict, hands, cuts>>

-----------------------------------------------------------------------------
\* A killed publisher leaves its private name behind.
Kill(p) ==
    /\ at[p] \notin {"write", "over"}
    /\ To(p, "over")
    /\ verdict' = [verdict EXCEPT ![p] = IF @ = "none" THEN "killed" ELSE @]
    /\ UNCHANGED <<file, dest, synced, seen, hands, cuts>>

\* By hand: the destination is edited, replaced or removed.
Hand ==
    /\ hands < MaxHands /\ hands' = hands + 1
    /\ dest # 0
    /\ \/ file' = [file EXCEPT ![dest] = Changed([@ EXCEPT !.content = Foreign])] /\ UNCHANGED dest
       \/ /\ dest # 100 /\ dest' = 100
          /\ file' = [file EXCEPT ![dest] = Changed([@ EXCEPT !.links = @ - 1]),
                                  ![100] = [content |-> Foreign, mode |-> "canonical", links |-> 1, changes |-> 0]]
       \/ dest # 0 /\ dest' = 0 /\ file' = [file EXCEPT ![dest] = Changed([@ EXCEPT !.links = @ - 1])]
    /\ UNCHANGED <<synced, at, seen, verdict, cuts>>

\* An entry that was not synced may be lost; every publisher stops.
PowerCut ==
    /\ cuts < MaxCuts /\ cuts' = cuts + 1
    /\ at' = [p \in Publishers |-> IF at[p] = "write" THEN "write" ELSE "over"]
    /\ verdict' = [p \in Publishers |-> IF verdict[p] = "none" /\ at[p] # "write" THEN "killed" ELSE verdict[p]]
    /\ \/ dest # 0 /\ dest' = 0 /\ ~synced /\ file' = [file EXCEPT ![dest].links = @ - 1]
       \/ UNCHANGED <<dest, file>>
    /\ synced' = TRUE
    /\ UNCHANGED <<seen, hands>>

Next ==
    \/ \E p \in Publishers :
          \/ Write(p) \/ Link(p) \/ FsyncDirectory(p) \/ Unlink(p) \/ Kill(p)
          \/ Open(p) \/ Read(p) \/ Compare(p)
    \/ Hand \/ PowerCut

Spec == Init /\ [][Next]_publicationVars

-----------------------------------------------------------------------------
\* A publisher that reports success has its bytes at the destination, whoever put them
\* there and whoever was killed on the way, until somebody changes it by hand or the
\* power fails; and no publisher replaces another's.
SuccessIsThePayload ==
    hands + cuts = 0 =>
        \A p \in Publishers : verdict[p] = "ok" => dest # 0 /\ file[dest].content = Payload[p]

\* Whoever accepts a file that was there accepts its bytes of this moment, also when it
\* was edited or replaced while it was read.
AcceptanceIsCurrent ==
    \A p \in Publishers : at[p] = "compare" /\ verdict'[p] = "ok" =>
        dest' # 0 /\ file'[dest'].content = Payload[p]

\* No publisher's step changes what the destination names.
NeverReplaced == dest # 0 /\ dest' # dest => hands' # hands \/ cuts' # cuts

PublicationIsExact == NeverReplaced /\ AcceptanceIsCurrent

\* A reported success survives a power failure.
SuccessIsDurable ==
    hands = 0 => \A p \in Publishers : verdict[p] = "ok" => dest # 0

\* With nothing else going on, identical bytes are accepted.
IdenticalIsAccepted ==
    hands + cuts = 0 /\ (\A p, q \in Publishers : Payload[p] = Payload[q])
        => \A p \in Publishers : verdict[p] # "refused"
=============================================================================
