------------------------- MODULE ContainerEvidence -------------------------
(***************************************************************************)
(* The evidence about the service's image                                   *)
(* (scripts/verify_service_container.py): two clean builds are compared, a  *)
(* container is exercised, archives are scanned, and a last command ties    *)
(* the documents of the earlier ones together.  Every command finds its     *)
(* inputs by name: a tag, a path.  In between somebody may move a tag,      *)
(* change the checkout or save another archive.                             *)
(***************************************************************************)
EXTENDS Naturals, FiniteSets

CONSTANTS
    Revisions, Wanted,  \* source revisions, and the one the evidence is asked for
    Contents, Clean,    \* file trees a build may have, and the one of a clean checkout
    Findings,           \* [Contents -> what scanners find in them]
    MaxMoves            \* bound: times something is moved between two steps

Kinds == {"vulnerability", "critical", "secret", "misconfiguration", "suppressed",
          "license", "unknownLicense", "unlicensed"}

VARIABLES
    checkout,   \* revision and content of the working tree
    tags,       \* [tag -> image]
    metadata,   \* [tag -> image its build recorded]
    archive,    \* the image saved for the scanners
    step,       \* how far the workflow is
    seen,       \* what the comparison of the two builds has read so far
    documents,  \* the scanners' and the benchmark's reports
    summaries,  \* what the three commands published
    moves

evidenceVars == <<checkout, tags, metadata, archive, step, seen, documents, summaries, moves>>

Images == [revision : Revisions, content : Contents, stamp : {1, 2}]
None == [revision |-> 0, content |-> "none", stamp |-> 0]
Tags == {"A", "B", "running"}
Reports == {"sbom", "repository", "image", "licenses", "benchmark", "probe"}
Steps == <<"buildA", "buildB", "benchmark", "inspectA", "exportA", "inspectB", "exportB", "compare",
           "run", "runtime", "save", "sbom", "repository", "image", "licenses", "scans">>
Done == 17

TypeOK ==
    /\ checkout \in [revision : Revisions, content : Contents]
    /\ tags \in [Tags -> Images \cup {None}] /\ metadata \in [{"A", "B"} -> Images \cup {None}]
    /\ archive \in Images \cup {None}
    /\ step \in 0..Done
    /\ DOMAIN documents \subseteq Reports /\ DOMAIN summaries \subseteq {"container", "runtime", "scans"}
    /\ moves \in 0..MaxMoves

Init ==
    /\ checkout = [revision |-> Wanted, content |-> Clean]
    /\ tags = [t \in Tags |-> None] /\ metadata = [t \in {"A", "B"} |-> None]
    /\ archive = None /\ step = 1
    /\ seen = [t \in {"A", "B"} |-> [config |-> None, files |-> "none"]]
    /\ documents = [d \in {} |-> None] /\ summaries = [s \in {} |-> None]
    /\ moves = 0

At(name) == step \in DOMAIN Steps /\ Steps[step] = name
Put(f, k, v) == [x \in DOMAIN f \cup {k} |-> IF x = k THEN v ELSE f[x]]

\* A command that refuses ends the job: nothing of it is published.
Go(ok) == step' = IF ok THEN step + 1 ELSE 0

-----------------------------------------------------------------------------
\* The workflow's own steps.

\* The label is the wanted revision, whatever is checked out; time stamps may differ.
Build(t) ==
    /\ At(IF t = "A" THEN "buildA" ELSE "buildB")
    /\ \E s \in {1, 2} :
          LET image == [revision |-> Wanted, content |-> checkout.content, stamp |-> s]
          IN  tags' = [tags EXCEPT ![t] = image] /\ metadata' = [metadata EXCEPT ![t] = image]
    /\ Go(TRUE)
    /\ UNCHANGED <<checkout, archive, seen, documents, summaries, moves>>

\* The container of the default profile, from the first image; its probes' report.
Run ==
    /\ At("run")
    /\ tags' = [tags EXCEPT !["running"] = tags["A"]]
    /\ \E passed \in BOOLEAN : documents' = Put(documents, "probe", passed)
    /\ Go(TRUE)
    /\ UNCHANGED <<checkout, metadata, archive, seen, summaries, moves>>

Save ==
    /\ At("save")
    /\ archive' = tags["A"]
    /\ Go(TRUE)
    /\ UNCHANGED <<checkout, tags, metadata, seen, documents, summaries, moves>>

\* The bill of materials carries the name and the manifest digest it is told.
Report(d) ==
    /\ At(d)
    /\ documents' = Put(documents, d,
          CASE d = "sbom" -> [of |-> summaries["container"].image, packages |-> archive.content]
            [] d = "repository" -> [of |-> checkout.revision, found |-> Findings[checkout.content] \ {"license", "unlicensed"}]
            [] d = "benchmark" -> [of |-> checkout, found |-> {}]
            [] d = "image" -> [of |-> archive, found |-> Findings[archive.content] \ {"license", "unlicensed", "unknownLicense"}]
            [] d = "licenses" -> [of |-> archive, found |-> Findings[archive.content] \cap {"license", "unlicensed", "unknownLicense"}])
    /\ Go(TRUE)
    /\ UNCHANGED <<checkout, tags, metadata, archive, seen, summaries, moves>>

\* Between two steps: another build takes a tag over, with or without its metadata; the
\* working tree is edited or another revision is checked out; the archive is saved again.
Move ==
    /\ moves < MaxMoves /\ step \in DOMAIN Steps
    /\ moves' = moves + 1
    /\ \/ \E t \in Tags, i \in Images :
            /\ tags[t] \notin {None, i} /\ tags' = [tags EXCEPT ![t] = i]
            /\ \/ UNCHANGED metadata
               \/ t # "running" /\ metadata' = [metadata EXCEPT ![t] = i]
            /\ UNCHANGED <<checkout, archive>>
       \/ /\ checkout' \in [revision : Revisions, content : Contents] \ {checkout}
          /\ UNCHANGED <<tags, metadata, archive>>
       \/ /\ archive # None /\ archive' \in Images \ {archive}
          /\ UNCHANGED <<checkout, tags, metadata>>
    /\ UNCHANGED <<step, seen, documents, summaries>>

-----------------------------------------------------------------------------
\* container: the two builds are inspected and exported, by tag each time.

\* _normalized_config and _verify_history: the label names the revision.
Inspect(t) ==
    /\ At(IF t = "A" THEN "inspectA" ELSE "inspectB")
    /\ seen' = [seen EXCEPT ![t].config = tags[t]]
    /\ Go(tags[t].revision = Wanted)
    /\ UNCHANGED <<checkout, tags, metadata, archive, documents, summaries, moves>>

\* Neither secrets nor files beyond the service's own are in it.
IsAllowed(content) == "secret" \notin Findings[content]

\* _scan_exported_filesystem: what the image holds now, if it is allowed there.
Export(t) ==
    /\ At(IF t = "A" THEN "exportA" ELSE "exportB")
    /\ seen' = [seen EXCEPT ![t].files = tags[t].content]
    /\ Go(IsAllowed(tags[t].content))
    /\ UNCHANGED <<checkout, tags, metadata, archive, documents, summaries, moves>>

\* Mutant: compares what was exported, not what the builds recorded.
FilesAgree == seen["A"].files = seen["B"].files

\* verify_provenance_document and the comparisons after it.
BuildsAgree ==
    /\ seen["A"].files = seen["B"].files
    /\ metadata["A"] = metadata["B"]
    /\ \A t \in {"A", "B"} : metadata[t].revision = Wanted /\ metadata[t] = seen[t].config

Compare ==
    /\ At("compare")
    /\ Go(BuildsAgree)
    /\ summaries' = IF BuildsAgree
                    THEN Put(summaries, "container", [revision |-> Wanted, image |-> metadata["A"], files |-> seen["A"].files])
                    ELSE summaries
    /\ UNCHANGED <<checkout, tags, metadata, archive, seen, documents, moves>>

-----------------------------------------------------------------------------
\* runtime: the running container's configuration, probes and logs.

\* The probes and the saturation run answered as they should.
ProbeHolds == documents["probe"]

\* The container that runs is configured as the profile says and shows no secret.
ContainerHolds == "secret" \notin Findings[tags["running"].content]

RuntimeHolds == ProbeHolds /\ ContainerHolds

VerifyRuntime ==
    /\ At("runtime")
    /\ Go(RuntimeHolds)
    /\ summaries' = IF RuntimeHolds THEN Put(summaries, "runtime", [of |-> tags["running"]]) ELSE summaries
    /\ UNCHANGED <<checkout, tags, metadata, archive, seen, documents, moves>>

-----------------------------------------------------------------------------
\* scans: the documents are tied together.

\* _verify_repository_source.
CheckoutIsWanted == checkout = [revision |-> Wanted, content |-> Clean]

\* verify_trivy_document: nothing of these kinds in any report.
Blocking == {"critical", "secret", "misconfiguration", "unknownLicense", "suppressed"}

\* Mutant: a report of whatever was scanned.
FromAnyImage(d, image) == documents[d].of \in Images

\* _verify_trivy_metadata: the report's image is the verified one.
OfTheImage(d, image) == documents[d].of = image

\* Each scanner reports its own kinds, and the license scan reports some.
ScannersKeepTheirKinds ==
    /\ "license" \notin documents["image"].found
    /\ "license" \in documents["licenses"].found /\ "vulnerability" \notin documents["licenses"].found

\* verify_spdx_document: a package without a license decision must have one in the
\* license scan.
PackagesAreLicensed ==
    "unlicensed" \in Findings[documents["sbom"].packages] => "unlicensed" \notin documents["licenses"].found

ScansHold ==
    LET image == summaries["container"].image
    IN  /\ CheckoutIsWanted
        /\ summaries["container"].revision = Wanted
        /\ documents["sbom"].of = image /\ PackagesAreLicensed
        /\ documents["repository"].of = Wanted
        /\ OfTheImage("image", image) /\ OfTheImage("licenses", image)
        /\ \A d \in {"repository", "image", "licenses"} : documents[d].found \cap Blocking = {}
        /\ ScannersKeepTheirKinds

VerifyScans ==
    /\ At("scans")
    /\ Go(ScansHold)
    /\ summaries' = IF ScansHold THEN Put(summaries, "scans", [image |-> summaries["container"].image]) ELSE summaries
    /\ UNCHANGED <<checkout, tags, metadata, archive, seen, documents, moves>>

\* The job ends with its last step or the first that fails.
Next ==
    \/ \E t \in {"A", "B"} : Build(t) \/ Inspect(t) \/ Export(t)
    \/ Run \/ Save \/ Move \/ Compare \/ VerifyRuntime \/ VerifyScans
    \/ \E d \in Reports \ {"probe"} : Report(d)

Spec == Init /\ [][Next]_evidenceVars

-----------------------------------------------------------------------------
\* What the last command accepts is about one image of the wanted revision: the files
\* that were compared are that image's files although they were read by tag in two
\* steps, both scans are of it, and nothing blocking is in it; a tag, a checkout or an
\* archive moved once, anywhere, does not change this.
EvidenceIsOfOneImage ==
    "scans" \in DOMAIN summaries =>
        LET image == summaries["scans"].image
        IN  /\ image.revision = Wanted
            /\ summaries["container"].files = image.content
            /\ documents["image"].of = image /\ documents["licenses"].of = image
            /\ Findings[image.content] \cap (Blocking \ {"unknownLicense"}) = {}

\* The container that was exercised is the image that was verified.
RuntimeIsOfTheImage ==
    "scans" \in DOMAIN summaries => summaries["runtime"].of = summaries["scans"].image
=============================================================================
