------------------------------ MODULE Delivery ------------------------------
(***************************************************************************)
(* What leads from a commit to published files and evidence, side by side:  *)
(* the release commands (ReleaseBundle), the archives they stage            *)
(* (ArchiveViews), the container workflow (ContainerEvidence), the isolated *)
(* measurements of the service (IsolatedMeasurement) and the publication of *)
(* their reports (EvidencePublication).  They meet in files that were       *)
(* checked, so a behaviour is about one of them.                            *)
(***************************************************************************)
EXTENDS Naturals, Sequences

CONSTANTS
    Commits, Parents, VersionOf, ConsoleOf, Pinned, EditsDuringBuild,   \* ReleaseBundle
    Budget,
    Files, RecordFile, MaxCells, Parts, Folded, MaxMembers,                 \* ArchiveViews
    ReadSize, ExpansionLimit, RecordBlocks, MaxAfter,
    SourceRevisions, Wanted, Contents, Clean, Scanned, MaxTagMoves,             \* ContainerEvidence
    Modes, Peaks, Limit, MaxOut,                                        \* IsolatedMeasurement
    Reporters, Payload,  MaxHands, MaxCuts                              \* EvidencePublication

ASSUME ReleaseAssumption ==
    /\ Commits \subseteq Nat \ {0} /\ Parents \in [Commits -> SUBSET Commits]
    /\ \A c \in Commits : \A p \in Parents[c] : p < c
    /\ VersionOf \in [Commits -> Nat \ {0}] /\ ConsoleOf \in [Commits -> Nat \ {0}]
    /\ Pinned \subseteq Commits /\ EditsDuringBuild \in BOOLEAN
    /\ Budget \in Nat

ASSUME ArchiveAssumption ==
    /\ RecordFile \in Files /\ Folded \in [Parts -> Parts]
    /\ MaxCells \in Nat /\ MaxMembers \in Nat /\ MaxAfter \in Nat
    /\ ReadSize \in Nat \ {0} /\ ExpansionLimit \in Nat /\ RecordBlocks \in Nat \ {0}

ASSUME EvidenceAssumption ==
    /\ Wanted \in SourceRevisions /\ Clean \in Contents /\ MaxTagMoves \in Nat
    /\ DOMAIN Scanned = Contents

ASSUME MeasurementAssumption ==
    /\ Modes \in Seq({"disabled", "enabled"}) /\ Len(Modes) = 2
    /\ Peaks \subseteq Nat \ {0} /\ Limit \in Nat /\ MaxOut \in Nat \ {0}

ASSUME PublicationAssumption ==
    /\ Reporters \subseteq Nat \ {0}
    /\ \A p \in Reporters : Payload[p] \in Nat
    /\ MaxHands \in Nat /\ MaxCuts \in Nat

VARIABLES
    delivery,                                           \* what this behaviour is about
    checkout, installed, origin, tags, job, stage, manifests, assets, releases, accepted, started, moves,
    archive, inspection, position, unread, held, expanded,
    worktree, images, metadata, saved, step, seen, documents, summaries, tagMoves,
    parent, arm, child, out, buffer, results, report,
    inode, dest, synced, at, opened, verdict, hands, cuts

releaseVars == <<checkout, installed, origin, tags, job, stage, manifests, assets, releases, accepted, started, moves>>
archiveVars == <<archive, inspection, position, unread, held, expanded>>
containerVars == <<worktree, images, metadata, saved, step, seen, documents, summaries, tagMoves>>
measurementVars == <<parent, arm, child, out, buffer, results, report>>
publicationVars == <<inode, dest, synced, at, opened, verdict, hands, cuts>>
deliveryVars == <<delivery, releaseVars, archiveVars, containerVars, measurementVars, publicationVars>>

Release == INSTANCE ReleaseBundle WITH jobs <- started
Archives == INSTANCE ArchiveViews WITH verdict <- inspection, pending <- unread, Record <- RecordFile, Ceiling <- ExpansionLimit
Container == INSTANCE ContainerEvidence WITH Revisions <- SourceRevisions, checkout <- worktree, tags <- images, archive <- saved, moves <- tagMoves,
                                             Findings <- Scanned, MaxMoves <- MaxTagMoves
Measurement == INSTANCE IsolatedMeasurement WITH Arms <- Modes
Publication == INSTANCE EvidencePublication WITH Publishers <- Reporters, file <- inode, seen <- opened

Deliveries == {"release", "archive", "container", "measurement", "publication"}

DeliveryStart(d) ==
    /\ delivery = d
    /\ LET c == CHOOSE c \in Commits : TRUE
       IN IF d = "release" THEN Release!Init
          ELSE Release!Start([commit |-> c, state |-> "clean"], [b \in Release!Branches |-> c])
    /\ IF d = "archive" THEN Archives!Init ELSE Archives!Start(<<>>)
    /\ Container!Init /\ Measurement!Init /\ Publication!Init

DeliveryInit == \E d \in Deliveries : DeliveryStart(d)

DeliveryNext ==
    /\ UNCHANGED delivery
    /\ \/ delivery = "release" /\ Release!Next
          /\ UNCHANGED <<archiveVars, containerVars, measurementVars, publicationVars>>
       \/ delivery = "archive" /\ Archives!Next
          /\ UNCHANGED <<releaseVars, containerVars, measurementVars, publicationVars>>
       \/ delivery = "container" /\ Container!Next
          /\ UNCHANGED <<releaseVars, archiveVars, measurementVars, publicationVars>>
       \/ delivery = "measurement" /\ Measurement!Next
          /\ UNCHANGED <<releaseVars, archiveVars, containerVars, publicationVars>>
       \/ delivery = "publication" /\ Publication!Next
          /\ UNCHANGED <<releaseVars, archiveVars, containerVars, measurementVars>>

DeliverySpec == DeliveryInit /\ [][DeliveryNext]_deliveryVars

-----------------------------------------------------------------------------
\* The types of all.
DeliveryTypeOK ==
    /\ delivery = "release" => Release!TypeOK
    /\ delivery = "container" => Container!TypeOK
    /\ delivery = "measurement" => Measurement!TypeOK
    /\ delivery = "publication" => Publication!TypeOK

\* An accepted archive has one reading; what a release publishes is what its commands
\* verified; published evidence is of one image, of one whole pair of measurements, and
\* is the payload its publisher was given (in the order of the header).
DeliveredIsBound ==
    /\ delivery = "release" => Release!ReleaseHolds
    /\ delivery = "archive" => Archives!ArchivesReadOneWay
    /\ delivery = "container" => Container!EvidenceIsOfOneImage
    /\ delivery = "measurement" => Measurement!MeasurementHolds
    /\ delivery = "publication" => Publication!SuccessIsThePayload

\* A published release and published evidence stay as they are (ReleaseBundle,
\* EvidencePublication).
PublishedIsKept ==
    /\ [][delivery = "release" => Release!PublishedIsFinal]_deliveryVars
    /\ [][delivery = "publication" => Publication!PublicationIsExact]_deliveryVars
=============================================================================
