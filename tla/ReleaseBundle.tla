--------------------------- MODULE ReleaseBundle ---------------------------
(***************************************************************************)
(* A release: scripts/release.py and src/quant_platform/release/ build it   *)
(* into a staging directory, bind it with three manifests, verify it and    *)
(* decide whether it may be published; .github/workflows/release.yml tags,  *)
(* uploads and verifies it again.  In between the working tree is edited or *)
(* another commit checked out, staged files are lost or changed, the        *)
(* branches advance, somebody pushes a tag, an upload is partial, and a job *)
(* fails anywhere.                                                          *)
(***************************************************************************)
EXTENDS Naturals, FiniteSets

CONSTANTS
    Commits,            \* natural numbers, each greater than its parents'
    Parents,            \* [Commits -> SUBSET Commits]
    VersionOf,          \* [Commits -> version pyproject.toml states]
    ConsoleOf,          \* [Commits -> version web/package.json and its lock state]
    Pinned,             \* commits whose committed contract is the expected one
    EditsDuringBuild,   \* whether the working tree may move while dry_run builds
    Budget              \* bound: jobs started and things moved, together

VARIABLES
    checkout,   \* commit and state of the working tree
    installed,  \* version of the installed distribution
    origin,     \* [branch -> commit]
    tags,       \* [version -> commit its tag names, 0 when there is none]
    job,        \* the running job
    stage,      \* [staged file -> bytes]
    manifests,  \* [manifest -> what it records], of those written
    assets,     \* what the job prepared for upload
    releases,   \* [version -> its release on GitHub]
    accepted,   \* stages that verify accepted (history)
    jobs, moves

releaseVars == <<checkout, installed, origin, tags, job, stage, manifests, assets, releases,
                 accepted, jobs, moves>>

Versions == {VersionOf[c] : c \in Commits}
Branches == {"dev", "prod", "main"}
Artifacts == {"wheel", "sdist", "console", "sbom"}
ManifestNames == {"descriptor", "inventory", "provenance"}
Kinds == {"dry-run", "publication"}
TreeStates == {"clean", "edited"}
Steps == {"idle", "install", "fetch", "check", "bytes", "manifests", "verify", "gate", "push",
          "draft", "reverify"}
Nothing == [x \in {} |-> 0]
NoJob == [step |-> "idle", kind |-> "dry-run", commit |-> 0,
          fetched |-> [b \in Branches |-> 0], known |-> [v \in Versions |-> 0]]

RECURSIVE AncestryUpTo(_, _)
AncestryUpTo(c, n) == IF n = 0 THEN {c} ELSE {c} \cup UNION {AncestryUpTo(p, n - 1) : p \in Parents[c]}
Ancestry(c) == AncestryUpTo(c, Cardinality(Commits))

TypeOK ==
    /\ checkout \in [commit : Commits, state : TreeStates] /\ installed \in Versions \cup {0}
    /\ origin \in [Branches -> Commits] /\ tags \in [Versions -> Commits \cup {0}]
    /\ job.step \in Steps /\ job.kind \in Kinds
    /\ DOMAIN stage \subseteq Artifacts \cup {"stray"} /\ DOMAIN manifests \subseteq ManifestNames
    /\ \A v \in Versions : releases[v].state \in {"none", "draft", "published"}
    /\ jobs + moves \in 0..Budget

\* Before the first job, with this working tree and these branches.
Start(tree, branches) ==
    /\ checkout = tree /\ installed = 0 /\ origin = branches
    /\ tags = [v \in Versions |-> 0]
    /\ job = NoJob /\ stage = Nothing /\ manifests = Nothing /\ assets = Nothing
    /\ releases = [v \in Versions |-> [state |-> "none", commit |-> 0, files |-> Nothing]]
    /\ accepted = {} /\ jobs = 0 /\ moves = 0

Init ==
    \E tree \in [commit : Commits, state : {"clean"}], branches \in [Branches -> Commits] :
        /\ branches["dev"] \in Ancestry(branches["prod"]) /\ branches["prod"] \in Ancestry(branches["main"])
        /\ Start(tree, branches)

Without(f, k) == [x \in DOMAIN f \ {k} |-> f[x]]
With(f, k, v) == [x \in DOMAIN f \cup {k} |-> IF x = k THEN v ELSE f[x]]

\* A job that refuses or fails is over; what it left on disk stays.
Go(ok, next) == job' = IF ok THEN [job EXCEPT !.step = next] ELSE NoJob

-----------------------------------------------------------------------------
\* Around the tool.

\* A publication is dispatched for the commit main is at, into a new workspace; a dry run
\* uses the working tree and directory as they are.
Dispatch(kind) ==
    /\ job = NoJob /\ jobs + moves < Budget
    /\ jobs' = jobs + 1
    /\ \/ /\ kind = "publication"
          /\ checkout' = [commit |-> origin["main"], state |-> "clean"]
          /\ stage' = Nothing /\ manifests' = Nothing /\ assets' = Nothing
       \/ kind = "dry-run" /\ UNCHANGED <<checkout, stage, manifests, assets>>
    /\ \E next \in {"install", "check"} :
          /\ kind = "publication" => next = "install"
          /\ job' = [NoJob EXCEPT !.step = next, !.kind = kind, !.commit = checkout'.commit]
    /\ UNCHANGED <<installed, origin, tags, releases, accepted, moves>>

\* uv sync: the metadata of the tree as it is now.
Install ==
    /\ job.step = "install"
    /\ installed' = VersionOf[checkout.commit]
    /\ Go(TRUE, IF job.kind = "publication" THEN "fetch" ELSE "check")
    /\ UNCHANGED <<checkout, origin, tags, stage, manifests, assets, releases, accepted, jobs, moves>>

\* The three branches and the tags as they are at this moment.
Fetch ==
    /\ job.step = "fetch"
    /\ job' = [job EXCEPT !.step = "check", !.fetched = origin, !.known = tags]
    /\ UNCHANGED <<checkout, installed, origin, tags, stage, manifests, assets, releases, accepted, jobs, moves>>

Fail ==
    /\ job # NoJob
    /\ job' = NoJob
    /\ UNCHANGED <<checkout, installed, origin, tags, stage, manifests, assets, releases, accepted, jobs, moves>>

Cut(bytes) == [bytes EXCEPT !.state = "cut"]

\* Until the stage is verified files of it may be lost, renamed, cut short or added.
StageChanges ==
    /\ job.step = "verify"
    /\ \/ /\ \E f \in DOMAIN stage :
                stage' \in {Without(stage, f), With(Without(stage, f), "stray", stage[f]),
                           [stage EXCEPT ![f] = Cut(stage[f])], With(stage, "stray", stage[f])}
          /\ UNCHANGED manifests
       \/ /\ \E f \in DOMAIN manifests : manifests' = Without(manifests, f)
          /\ UNCHANGED stage

Move ==
    /\ jobs + moves < Budget /\ moves' = moves + 1
    /\ \/ /\ job.step \in {"bytes", "manifests"} => EditsDuringBuild
          /\ checkout' \in [commit : Commits, state : TreeStates] \ {checkout}
          /\ UNCHANGED <<origin, tags, stage, manifests>>
       \/ /\ \E b \in Branches, c \in Commits :
                c # origin[b] /\ origin[b] \in Ancestry(c) /\ origin' = [origin EXCEPT ![b] = c]
          /\ UNCHANGED <<checkout, tags, stage, manifests>>
       \/ /\ \E v \in Versions, c \in Commits : tags[v] = 0 /\ tags' = [tags EXCEPT ![v] = c]
          /\ UNCHANGED <<checkout, origin, stage, manifests>>
       \/ StageChanges /\ UNCHANGED <<checkout, origin, tags>>
    /\ UNCHANGED <<installed, job, assets, releases, accepted, jobs>>

-----------------------------------------------------------------------------
\* dry_run, which builds publications too.

\* collect_version_sources: the manifest, the console's, and the installed metadata.
VersionSources ==
    {VersionOf[checkout.commit], ConsoleOf[checkout.commit]} \cup ({installed} \ {0})

VersionsAgree == VersionSources = {VersionOf[checkout.commit]}

\* The tree states one version, serves the pinned contract and is clean, and the stage
\* is new.
Check ==
    /\ job.step = "check"
    /\ LET ok == /\ VersionsAgree /\ checkout.commit \in Pinned /\ checkout.state = "clean"
                 /\ stage = Nothing /\ manifests = Nothing
       IN  job' = IF ok THEN [job EXCEPT !.step = "bytes", !.commit = checkout.commit] ELSE NoJob
    /\ UNCHANGED <<checkout, installed, origin, tags, stage, manifests, assets, releases, accepted, jobs, moves>>

\* What a build makes of the tree as it is now, at a moment of the clock.
Built(file, moment) ==
    [file |-> file, commit |-> checkout.commit, state |-> checkout.state, stamp |-> moment]

\* Mutant: the archive keeps the moments of its generated members.
KeptStamp(bytes) == bytes

\* _normalise_sdist.
Normalised(bytes) == [bytes EXCEPT !.stamp = 0]

\* The wheel's stamps come from the environment; without a Node toolchain there is no
\* console; a tool that fails leaves what is already there.
Bytes ==
    /\ job.step = "bytes"
    /\ \E moment \in {1, 2}, files \in SUBSET {"wheel", "sdist", "console"} :
          /\ stage' = [f \in files |-> IF f = "sdist" THEN Normalised(Built(f, moment)) ELSE Built(f, 0)]
          /\ \/ {"wheel", "sdist"} \subseteq files /\ Go(TRUE, "manifests")
             \/ Go(FALSE, "idle")
    /\ UNCHANGED <<checkout, installed, origin, tags, manifests, assets, releases, accepted, jobs, moves>>

\* Mutant: the bill of materials is left out of what the manifests bind.
SubjectsWithoutSbom(staged) == Without(staged, "sbom")

\* build_inventory, after the bill of materials is written.
Subjects(staged) == staged

\* The descriptor, the inventory and build_provenance over the same subjects.
Manifests(staged) ==
    [descriptor |-> [commit |-> job.commit, version |-> VersionOf[job.commit], kind |-> job.kind,
                     subjects |-> Subjects(staged)],
     inventory |-> Subjects(staged),
     provenance |-> [commit |-> job.commit, builder |-> job.kind, lockfile |-> Built("lock", 0),
                     subjects |-> Subjects(staged)]]

WriteManifests ==
    /\ job.step = "manifests"
    /\ stage' = With(stage, "sbom", Built("sbom", 0))
    /\ manifests' = Manifests(stage')
    /\ Go(TRUE, "verify")
    /\ UNCHANGED <<checkout, installed, origin, tags, assets, releases, accepted, jobs, moves>>

-----------------------------------------------------------------------------
\* verify

\* compare_inventories: by path, then content.
Differences(expected, observed) ==
    {f \in DOMAIN expected \cup DOMAIN observed :
        f \in DOMAIN expected /\ f \in DOMAIN observed => expected[f] # observed[f]}

\* ReleaseDescriptor: the kinds every release has.
DescriptorIsValid(d) == {"wheel", "sdist"} \subseteq DOMAIN d.subjects

\* verify_provenance; the recorded lockfile is not among what it compares.
StatementBinds(statement, staged, commit, builder) ==
    /\ statement.builder = builder /\ statement.commit = commit
    /\ \A f \in DOMAIN staged : f \in DOMAIN statement.subjects /\ statement.subjects[f] = staged[f]
    /\ DOMAIN statement.subjects \subseteq DOMAIN staged

StageVerifies ==
    /\ DOMAIN manifests = ManifestNames
    /\ DescriptorIsValid(manifests.descriptor)
    /\ manifests.descriptor.commit = checkout.commit
    /\ VersionsAgree /\ manifests.descriptor.version = VersionOf[checkout.commit]
    /\ Differences(manifests.inventory, stage) = {}
    /\ manifests.descriptor.subjects = stage
    /\ StatementBinds(manifests.provenance, stage, checkout.commit, manifests.descriptor.kind)

\* After a dry run the stage may be offered for publication all the same.
Verify ==
    /\ job.step = "verify"
    /\ \/ Go(StageVerifies, "gate")
       \/ job.kind = "dry-run" /\ StageVerifies /\ Go(FALSE, "idle")
    /\ accepted' = IF StageVerifies
                   THEN accepted \cup {[commit |-> checkout.commit, stage |-> stage]} ELSE accepted
    /\ UNCHANGED <<checkout, installed, origin, tags, stage, manifests, assets, releases, jobs, moves>>

-----------------------------------------------------------------------------
\* publication_gate

\* Mutant: anything that verifies may be published.
AnyKind(descriptor) == TRUE

KindIsPublication(descriptor) == descriptor.kind = "publication"

\* The promotions are merges of main's ancestry, by the branches as last fetched.
Promoted(refs) ==
    /\ refs["dev"] \in Ancestry(refs["prod"]) /\ refs["prod"] \in Ancestry(refs["main"])
    /\ \A b \in {"prod", "main"} : Cardinality(Parents[refs[b]]) >= 2

\* By what was last fetched, tags included.  That the checkout is on main is not kept: a
\* publication is dispatched there, and whoever leaves it leaves the commit.
Permitted ==
    LET d == manifests.descriptor
        published == job.kind = "publication"
        refs == IF published THEN job.fetched ELSE origin
        known == IF published THEN job.known ELSE tags
    IN  /\ StageVerifies
        /\ Promoted(refs)
        /\ KindIsPublication(d)
        /\ checkout = [commit |-> job.commit, state |-> "clean"]
        /\ refs["main"] = job.commit /\ d.commit = job.commit
        /\ known[d.version] = 0

Gate ==
    /\ job.step = "gate"
    /\ Go(Permitted, "push")
    /\ UNCHANGED <<checkout, installed, origin, tags, stage, manifests, assets, releases, accepted, jobs, moves>>

-----------------------------------------------------------------------------
\* The workflow after the gate.

\* pack_stage and the copies beside the archive.
Packed == [archive |-> stage, files |-> Without(stage, "console"), manifests |-> manifests]

\* A signed tag for the version, unless the remote has one now; nor does a push replace one.
PushTag ==
    /\ job.step = "push"
    /\ LET v == VersionOf[checkout.commit]
       IN  IF tags[v] = 0 /\ checkout.commit = job.commit
           THEN /\ tags' = [tags EXCEPT ![v] = job.commit] /\ assets' = Packed /\ Go(TRUE, "draft")
           ELSE Go(FALSE, "idle") /\ UNCHANGED <<tags, assets>>
    /\ UNCHANGED <<checkout, installed, origin, stage, manifests, releases, accepted, jobs, moves>>

\* What arrives of an upload: all of it, one file less or one cut short.
Arriving(prepared) ==
    {prepared}
    \cup {[prepared EXCEPT !.files = Without(@, f)] : f \in DOMAIN prepared.files}
    \cup {[prepared EXCEPT !.archive = With(@, f, Cut(@[f]))] : f \in DOMAIN prepared.archive}

Draft ==
    /\ job.step = "draft"
    /\ \E arrived \in Arriving(assets) :
          releases' = [releases EXCEPT ![VersionOf[job.commit]] =
                          [state |-> "draft", commit |-> job.commit, files |-> arrived]]
    /\ Go(TRUE, "reverify")
    /\ UNCHANGED <<checkout, installed, origin, tags, stage, manifests, assets, accepted, jobs, moves>>

\* Mutant: the archive is not opened, the files are not compared.
Unread(remote) == remote.manifests = assets.manifests

\* verify_downloads over the flat files, verify_archive over the stage.
DownloadsVerify(remote) ==
    /\ Differences(assets.files, remote.files) = {} /\ remote.manifests = assets.manifests
    /\ Differences(stage, remote.archive) = {}

Reverify ==
    /\ job.step = "reverify"
    /\ LET v == VersionOf[job.commit]
       IN  releases' = IF tags[v] = job.commit /\ DownloadsVerify(releases[v].files)
                       THEN [releases EXCEPT ![v].state = "published"] ELSE releases
    /\ job' = NoJob
    /\ UNCHANGED <<checkout, installed, origin, tags, stage, manifests, assets, accepted, jobs, moves>>

Next ==
    \/ \E kind \in Kinds : Dispatch(kind)
    \/ Install \/ Fetch \/ Fail \/ Move
    \/ Check \/ Bytes \/ WriteManifests \/ Verify \/ Gate
    \/ PushTag \/ Draft \/ Reverify

Spec == Init /\ [][Next]_releaseVars

-----------------------------------------------------------------------------
\* What the verifier accepts under a commit is what a clean tree of that commit gives:
\* two accepted stages of it hold the same bytes file by file, whatever was edited,
\* checked out, lost or renamed between the steps.
AcceptedIsReproducible ==
    \A a \in accepted : \A f \in DOMAIN a.stage :
        a.stage[f] = [file |-> f, commit |-> a.commit, state |-> "clean", stamp |-> 0]

\* A published release is whole: every subject of its descriptor is in the downloaded
\* archive with the attested bytes, it was built for publication, of the commit its tag
\* names, under the version that commit states, and that commit is a promotion's merge;
\* whatever failed, moved or arrived in part on the way.
PublishedIsWhole ==
    \A v \in Versions : releases[v].state = "published" =>
        LET r == releases[v] d == r.files.manifests.descriptor
        IN  /\ tags[v] = r.commit /\ VersionOf[r.commit] = v
            /\ d.kind = "publication" /\ d.commit = r.commit
            /\ r.files.archive = d.subjects /\ r.files.manifests.provenance.subjects = d.subjects
            /\ {"wheel", "sdist", "sbom"} \subseteq DOMAIN r.files.files
            /\ \A f \in DOMAIN r.files.files : r.files.files[f] = d.subjects[f]
            /\ Cardinality(Parents[r.commit]) >= 2
            /\ [commit |-> r.commit, stage |-> r.files.archive] \in accepted

ReleaseHolds == AcceptedIsReproducible /\ PublishedIsWhole

\* A published version keeps its tag and its bytes: no later job replaces them.
PublishedIsFinal ==
    \A v \in Versions : releases[v].state = "published" =>
        releases'[v] = releases[v] /\ tags'[v] = tags[v]

\* A published commit went through both promotions, each a merge of its own.
PromotedTwice ==
    \A v \in Versions : releases[v].state = "published" =>
        \E p \in Ancestry(releases[v].commit) \ {releases[v].commit} : Cardinality(Parents[p]) >= 2

\* The recorded lockfile is the commit's.
LockfileIsBound ==
    \A v \in Versions : releases[v].state = "published" =>
        releases[v].files.manifests.provenance.lockfile
            = [file |-> "lock", commit |-> releases[v].commit, state |-> "clean", stamp |-> 0]

\* A version whose tag was pushed can still be released.
NoVersionIsBurnt == \A v \in Versions : job = NoJob /\ tags[v] # 0 => releases[v].state = "published"
=============================================================================
