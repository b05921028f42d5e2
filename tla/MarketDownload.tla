--------------------------- MODULE MarketDownload --------------------------
(***************************************************************************)
(* NasdaqDataLinkClient.fetch: one request, its cache directory (lock file, *)
(* staging pages, immutable snapshots, the latest.json pointer) and the     *)
(* client processes that download it, each with a budget of its own.  Any   *)
(* process may be killed between two steps; its lock file then stays.       *)
(*                                                                          *)
(* A page is what the provider answered: a generation of its data, or data  *)
(* that does not parse ("malformed") or is refused when normalised          *)
(* ("unfit").  A snapshot is named by its pages.                            *)
(***************************************************************************)
EXTENDS Integers, FiniteSets

CONSTANTS
    Clients,     \* processes, each a client of its own
    NumPages,    \* pages (or tickers) of a complete response
    Generations, \* what a good page may hold
    MaxRetries,  \* config.max_retries
    MaxRequests, \* config.max_requests
    Modes,       \* config.cache_mode of the clients
    MaxFaults,   \* bound: answers that are not a good page
    MaxKills     \* bound: kills

VARIABLES
    lock,      \* .fetch.lock: "free", its owner, or "orphan" when that was killed
    staging,   \* the staging directory's pages, or none when it does not exist
    snapshots, \* "absent", "bare" (no manifest) or "whole", by pages
    latest,    \* the snapshot latest.json names
    client,    \* each process: where it is, its page, retries, requests and snapshot
    served,    \* the pages of the panel each process returned last
    mishaps    \* faults and kills so far

vars == <<lock, staging, snapshots, latest, client, served, mishaps>>

Pages == 1..NumPages
PageContents == Generations \cup {"malformed", "unfit"}
Names == [Pages -> PageContents]
NoName == [p \in Pages |-> "none"]
NoStaging == [exists |-> FALSE, page |-> NoName]
Idle == [pc |-> "idle", page |-> 1, retry |-> 0, used |-> 0, name |-> NoName]

TypeOK ==
    /\ lock \in Clients \cup {"free", "orphan"}
    /\ staging \in [exists : BOOLEAN, page : [Pages -> PageContents \cup {"none"}]]
    /\ snapshots \in [Names -> {"absent", "bare", "whole"}]
    /\ latest \in Names \cup {NoName}
    /\ client \in [Clients -> [pc : {"idle", "entering", "locked", "requesting", "gathered", "renamed", "manifested"},
                               page : 1..(NumPages + 1), retry : 0..MaxRetries, used : 0..MaxRequests,
                               name : Names \cup {NoName}]]
    /\ served \in [Clients -> Names \cup {NoName}]
    /\ mishaps \in [faults : 0..MaxFaults, kills : 0..MaxKills]

Init ==
    /\ lock = "free" /\ staging = NoStaging /\ latest = NoName
    /\ snapshots = [n \in Names |-> "absent"]
    /\ client = [c \in Clients |-> Idle] /\ served = [c \in Clients |-> NoName]
    /\ mishaps = [faults |-> 0, kills |-> 0]

At(c, pc) == client[c].pc = pc
Goto(c, pc) == client' = [client EXCEPT ![c].pc = pc]
Fault == mishaps.faults < MaxFaults /\ mishaps' = [mishaps EXCEPT !.faults = @ + 1]

\* Mutant: what was staged is taken as it is.
FitAlways(name) == TRUE

\* _normalise and _validate_panel_scope: columns, finite positive prices in
\* bounds, no duplicate row, nothing outside the requested tickers and dates.
Fit(name) == \A p \in Pages : name[p] # "unfit"

\* An error raised under the lock: the lock is released, the staging stays.
Raise(c) == client' = [client EXCEPT ![c] = Idle] /\ lock' = IF lock = c THEN "free" ELSE lock

-----------------------------------------------------------------------------
\* _load_latest: pointer, manifest, page hashes, schema and row count agree.
Loadable == latest # NoName /\ snapshots[latest] = "whole" /\ Fit(latest)

\* A pointer to what does not verify raises; no pointer goes on to the network.
LoadLatest(c) ==
    /\ At(c, "idle") /\ Modes \ {"network"} # {} /\ latest # NoName
    /\ served' = [served EXCEPT ![c] = IF Loadable THEN latest ELSE NoName]
    /\ UNCHANGED <<lock, staging, snapshots, latest, client, mishaps>>

\* The staging directory is made before the lock is taken.
EnsureStaging(c) ==
    /\ At(c, "idle")
    /\ \/ "network" \in Modes
       \/ "prefer_cache" \in Modes /\ latest = NoName
    /\ staging' = [staging EXCEPT !.exists = TRUE]
    /\ client' = [client EXCEPT ![c] = [Idle EXCEPT !.pc = "entering"]]
    /\ UNCHANGED <<lock, snapshots, latest, served, mishaps>>

\* Mutant: the lock file is opened whether or not it exists.
TakeLockAnyway(c) ==
    /\ At(c, "entering")
    /\ lock' = c /\ Goto(c, "locked")
    /\ UNCHANGED <<staging, snapshots, latest, served, mishaps>>

\* O_CREAT | O_EXCL: an existing lock file, whoever left it, refuses the fetch.
TakeLock(c) ==
    /\ At(c, "entering")
    /\ IF lock = "free" THEN lock' = c /\ Goto(c, "locked") ELSE Raise(c)
    /\ UNCHANGED <<staging, snapshots, latest, served, mishaps>>

-----------------------------------------------------------------------------
\* A staged page is read, not requested; one that does not parse raises.
ReadPage(c) ==
    LET p == client[c].page IN
    /\ At(c, "locked") /\ p <= NumPages /\ staging.page[p] # "none"
    /\ IF staging.page[p] = "malformed" THEN Raise(c)
       ELSE client' = [client EXCEPT ![c].page = p + 1] /\ UNCHANGED lock
    /\ UNCHANGED <<staging, snapshots, latest, served, mishaps>>

\* Mutant: only the first try of a page is charged.
SpendFirst(c) == IF client[c].retry = 0 THEN client[c].used + 1 ELSE client[c].used

\* RequestBudget.before_request: every try of every page is charged.
Spend(c) == client[c].used + 1

Exhausted(c) == client[c].used >= MaxRequests

Request(c) ==
    LET p == client[c].page IN
    /\ At(c, "locked") /\ p <= NumPages /\ staging.page[p] = "none"
    /\ IF Exhausted(c) THEN Raise(c)
       ELSE client' = [client EXCEPT ![c].pc = "requesting", ![c].used = Spend(c)] /\ UNCHANGED lock
    /\ UNCHANGED <<staging, snapshots, latest, served, mishaps>>

\* The JSON object is written to its page file first and parsed afterwards.
StorePage(c) ==
    LET p == client[c].page IN
    /\ At(c, "requesting")
    /\ \E content \in PageContents :
        /\ IF content \in Generations THEN UNCHANGED mishaps ELSE Fault
        /\ IF staging.exists
           THEN /\ staging' = [staging EXCEPT !.page[p] = content]
                /\ IF content = "malformed" THEN Raise(c)
                   ELSE /\ client' = [client EXCEPT ![c].pc = "locked", ![c].page = p + 1, ![c].retry = 0]
                        /\ UNCHANGED lock
           ELSE UNCHANGED staging /\ Raise(c)
    /\ UNCHANGED <<snapshots, latest, served>>

\* A transient status waits and tries again, MaxRetries times.
RetryPage(c) ==
    /\ At(c, "requesting") /\ Fault /\ client[c].retry < MaxRetries
    /\ client' = [client EXCEPT ![c].pc = "locked", ![c].retry = @ + 1]
    /\ UNCHANGED <<lock, staging, snapshots, latest, served>>

\* A terminal status, a lost connection, malformed JSON, or no retry left.
RequestFails(c) ==
    /\ At(c, "requesting") /\ Fault
    /\ Raise(c)
    /\ UNCHANGED <<staging, snapshots, latest, served>>

\* The last page has no cursor: the pages' hashes name the snapshot.
Gather(c) ==
    /\ At(c, "locked") /\ client[c].page = NumPages + 1
    /\ client' = [client EXCEPT ![c].pc = "gathered", ![c].name = staging.page]
    /\ UNCHANGED <<lock, staging, snapshots, latest, served, mishaps>>

-----------------------------------------------------------------------------
\* A snapshot of these pages exists: drop the staging and keep that one, which
\* must have a manifest.
KeepExisting(c) ==
    /\ At(c, "gathered") /\ snapshots[client[c].name] # "absent"
    /\ staging' = NoStaging
    /\ IF snapshots[client[c].name] = "bare" THEN Raise(c) ELSE Goto(c, "manifested") /\ UNCHANGED lock
    /\ UNCHANGED <<snapshots, latest, served, mishaps>>

Promote(c) ==
    /\ At(c, "gathered") /\ snapshots[client[c].name] = "absent"
    /\ staging.exists
    /\ snapshots' = [snapshots EXCEPT ![client[c].name] = "bare"]
    /\ staging' = NoStaging
    /\ Goto(c, "renamed")
    /\ UNCHANGED <<lock, latest, served, mishaps>>

\* Only now is the data normalised; what is refused leaves a bare snapshot.
WriteManifest(c) ==
    /\ At(c, "renamed")
    /\ IF Fit(client[c].name)
       THEN /\ snapshots' = [snapshots EXCEPT ![client[c].name] = "whole"]
            /\ Goto(c, "manifested") /\ UNCHANGED lock
       ELSE Raise(c) /\ UNCHANGED snapshots
    /\ UNCHANGED <<staging, latest, served, mishaps>>

PointLatest(c) ==
    /\ At(c, "manifested")
    /\ latest' = client[c].name
    /\ served' = [served EXCEPT ![c] = client[c].name]
    /\ Raise(c)
    /\ UNCHANGED <<staging, snapshots, mishaps>>

Kill(c) ==
    /\ ~At(c, "idle") /\ mishaps.kills < MaxKills
    /\ mishaps' = [mishaps EXCEPT !.kills = @ + 1]
    /\ client' = [client EXCEPT ![c] = Idle]
    /\ lock' = IF lock = c THEN "orphan" ELSE lock
    /\ UNCHANGED <<staging, snapshots, latest, served>>

\* Nothing in the code removes an orphan lock: somebody does it by hand.
RemoveOrphan ==
    /\ lock = "orphan" /\ lock' = "free"
    /\ UNCHANGED <<staging, snapshots, latest, client, served, mishaps>>

Fetch(c) ==
    \/ EnsureStaging(c) \/ TakeLock(c) \/ ReadPage(c) \/ Request(c) \/ StorePage(c)
    \/ Gather(c) \/ KeepExisting(c) \/ Promote(c) \/ WriteManifest(c) \/ PointLatest(c)

Step(c) == Fetch(c) \/ LoadLatest(c) \/ RetryPage(c) \/ RequestFails(c) \/ Kill(c)
Next == RemoveOrphan \/ \E c \in Clients : Step(c)

Spec == Init /\ [][Next]_vars
FairSpec == Spec /\ \A c \in Clients : WF_vars(Fetch(c))

-----------------------------------------------------------------------------
\* The pointer always names a snapshot with its manifest and usable data, so a
\* cached request can be replayed without the network, whoever was killed when
\* ("Partial or corrupt snapshots never masquerade as valid data").
CacheIsReplayable ==
    /\ latest # NoName => Loadable
    /\ \A n \in Names : snapshots[n] = "whole" => Fit(n)

\* What a fetch returned is a complete response whose every page is usable.
ServedIsComplete == \A c \in Clients : served[c] # NoName =>
    snapshots[served[c]] = "whole" /\ \A p \in Pages : served[c][p] \in Generations

\* Between the lock and its release nobody else touches the request.
OneDownloader ==
    \A c, d \in Clients : client[c].pc \notin {"idle", "entering"} /\ client[d].pc \notin {"idle", "entering"} => c = d

\* No client sends more requests than its cap, retries included: the tries of
\* the current page and the pages it downloaded before never exceed it.
BudgetIsKept == \A c \in Clients :
    client[c].retry + (IF At(c, "requesting") THEN 1 ELSE 0) <= client[c].used /\ client[c].used <= MaxRequests

DownloadsAreSound == CacheIsReplayable /\ ServedIsComplete /\ OneDownloader /\ BudgetIsKept

\* A fetch repeated for ever against a provider that has recovered is served.
\* It is not: a page that did not parse stays staged, a refused snapshot stays
\* without a manifest, a killed client's lock stays.
AFetchIsServedInTheEnd == <>(\E c \in Clients : served[c] # NoName)
=============================================================================
