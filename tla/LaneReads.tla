----------------------------- MODULE LaneReads ------------------------------
(***************************************************************************)
(* quant_platform.governance.read_ports: what a request is told of a lane   *)
(* whose events are appended meanwhile (GovernanceLane).  A request has one *)
(* read-only connection in autocommit, so each of its SELECTs sees its own  *)
(* state of the database.  Lanes are listed by identity, a page a request.  *)
(***************************************************************************)
EXTENDS GovernanceLane, FiniteSets

CONSTANTS
    Ceiling,      \* MAX_CHAIN_ROWS_VERIFIED
    Projected,    \* MAX_EVENTS_PROJECTED
    Identities,   \* of lanes, in their order
    LanePageSize,
    MaxAltered    \* bound: rows somebody changes behind the store's back

VARIABLES
    asked,       \* what this behaviour is about: one lane, or their listing
    altered,     \* events whose stored row is no longer what was appended
    request,     \* get_lane: what was read, statement by statement (doubtful: altered at its start)
    lanes,       \* sl_governance_lanes
    pager        \* list_lanes, page after page: cursor, lanes seen, lanes there at the start

readsVars == <<asked, altered, request, lanes, pager>>
laneReadsVars == <<vars, readsVars>>

Counts == [assignments : 0..MaxEvents, all : 0..MaxEvents]
NoRequest == [done |-> <<>>, head |-> Unassigned, counts |-> [assignments |-> 0, all |-> 0],
              doubtful |-> {}, verified |-> FALSE, rows |-> 0, shown |-> {}]
NotPaging == [cursor |-> 0, seen |-> <<>>, expected |-> {}, ended |-> TRUE]

ReadsTypeOK ==
    /\ asked \in {"lane", "listing"}
    /\ altered \subseteq 1..Len(events) /\ Cardinality(altered) <= MaxAltered
    /\ request.done \in {<<>>} \cup UNION {[1..n -> {"head", "counts", "chain", "events"}] : n \in 1..4}
    /\ request.head \in LaneHead /\ request.counts \in Counts
    /\ request.doubtful \subseteq altered /\ request.verified \in BOOLEAN /\ request.rows \in 0..MaxEvents
    /\ request.shown \subseteq 1..MaxEvents
    /\ lanes \subseteq Identities
    /\ pager.cursor \in Identities \cup {0} /\ pager.seen \in Seq(Identities)
    /\ pager.expected \subseteq Identities /\ pager.ended \in BOOLEAN

Asked(what) ==
    /\ asked = what
    /\ altered = {} /\ request = NoRequest /\ lanes = {} /\ pager = NotPaging

NotAsked == Asked("lane")

ReadsInit == Init /\ \E what \in {"lane", "listing"} : Asked(what)

-----------------------------------------------------------------------------
\* One lane: _summarize_lane, _verify_chain_readonly, get_lane

\* Somebody edits a row of the file; its digests stay as they were.
Alter(i) ==
    /\ Cardinality(altered) < MaxAltered
    /\ altered' = altered \cup {i}
    /\ UNCHANGED <<vars, asked, request, lanes, pager>>

\* Mutant: the events are counted before the head is read.
CountsFirst == <<"counts", "head", "chain", "events">>

Statements == <<"head", "counts", "chain", "events">>

Following == Statements[Len(request.done) + 1]

Due(statement) == Len(request.done) < 4 /\ Following = statement

Executed(statement) == Append(request.done, statement)

ReadTheHead ==
    /\ Due("head")
    /\ request' = [request EXCEPT !.done = Executed("head"), !.head = head,
                      !.doubtful = IF request.done = <<>> THEN altered ELSE @]

ReadCounts ==
    /\ Due("counts")
    /\ request' = [request EXCEPT !.done = Executed("counts"),
                      !.counts = [assignments |-> Cardinality(Assignments(events)), all |-> Len(events)]]

\* Mutant: the rows under the ceiling speak for the chain.
PrefixReproduces == ~\E i \in altered : i <= Ceiling

\* Rows are read up to one beyond the ceiling; an altered one does not reproduce.
ChainReproduces == Len(events) <= Ceiling /\ altered = {}

ReadChain ==
    /\ Due("chain")
    /\ request' = [request EXCEPT !.done = Executed("chain"), !.verified = ChainReproduces,
                      !.rows = Len(events)]

\* The newest events, oldest first.
Newest == {i \in 1..Len(events) : i + Projected > Len(events)}

ReadEvents ==
    /\ Due("events")
    /\ request' = [request EXCEPT !.done = Executed("events"), !.shown = Newest]

Answer ==
    /\ Len(request.done) = 4
    /\ request' = NoRequest

GetLane ==
    /\ ReadTheHead \/ ReadCounts \/ ReadChain \/ ReadEvents \/ Answer
    /\ UNCHANGED <<vars, asked, altered, lanes, pager>>

-----------------------------------------------------------------------------
\* All lanes: register_lane, list_lanes

RegisterLane(id) ==
    /\ id \notin lanes
    /\ lanes' = lanes \cup {id}
    /\ UNCHANGED <<vars, asked, altered, request, pager>>

StartPaging ==
    /\ pager = NotPaging
    /\ pager' = [NotPaging EXCEPT !.expected = lanes, !.ended = FALSE]
    /\ UNCHANGED <<vars, asked, altered, request, lanes>>

\* Mutant: the cursor's own lane comes again.
FromCursor == {id \in lanes : id >= pager.cursor}

AfterCursor == {id \in lanes : id > pager.cursor}

\* LIMIT page_size + 1: one more row tells whether there is more.
ReadPage ==
    /\ ~pager.ended
    /\ LET rank(id) == Cardinality({other \in AfterCursor : other <= id})
           size == IF Cardinality(AfterCursor) < LanePageSize THEN Cardinality(AfterCursor) ELSE LanePageSize
           page == [n \in 1..size |-> CHOOSE id \in AfterCursor : rank(id) = n]
       IN  pager' = [pager EXCEPT !.seen = @ \o page,
                        !.ended = Cardinality(AfterCursor) <= LanePageSize,
                        !.cursor = IF size = 0 THEN @ ELSE page[size]]
    /\ UNCHANGED <<vars, asked, altered, request, lanes>>

Leave ==
    /\ pager.ended /\ pager # NotPaging
    /\ pager' = NotPaging
    /\ UNCHANGED <<vars, asked, altered, request, lanes>>

ListLanes == StartPaging \/ ReadPage \/ Leave

\* The lane's writers go on meanwhile; a rebuild reads and changes nothing.
ReadsNext ==
    \/ /\ asked = "lane"
       /\ (Write /\ UNCHANGED readsVars) \/ GetLane \/ \E i \in 1..Len(events) : Alter(i)
    \/ asked = "listing" /\ (ListLanes \/ \E id \in Identities : RegisterLane(id))

ReadsSpec == ReadsInit /\ [][ReadsNext]_laneReadsVars

-----------------------------------------------------------------------------
Read(statement) == \E n \in DOMAIN request.done : request.done[n] = statement

\* A summary put together while the lane moves never shows a head its events do not
\* account for: every assignment behind the head is counted (unless the lane was written
\* around its head), every counted event was verified or reported, and the events shown
\* come up to what was counted (read_ports.py, _summarize_lane and get_lane).
SummaryIsAccounted ==
    /\ ~around /\ Read("head") /\ Read("counts") => request.head.generation <= request.counts.assignments
    /\ Read("counts") /\ Read("chain") => request.counts.all <= request.rows
    /\ Read("counts") /\ Read("events") /\ request.counts.all > 0 =>
           \E i \in request.shown : i >= request.counts.all

\* A chain reported verified had no altered row when the request began, and was read
\* to its end ("reported as unverified rather than verified on a prefix").
VerifiedIsWhole ==
    request.verified => request.doubtful = {} /\ request.counts.all <= Ceiling

\* Pages list every lane that was there at the start, none twice, in order.
LanesAreListed ==
    /\ \A m, n \in 1..Len(pager.seen) : m < n => pager.seen[m] < pager.seen[n]
    /\ pager.ended => pager.expected \subseteq {pager.seen[n] : n \in 1..Len(pager.seen)}

LaneReadsHold == SummaryIsAccounted /\ VerifiedIsWhole /\ LanesAreListed

\* A summary is of one state of the lane.
SummaryIsASnapshot ==
    Read("head") /\ Read("counts") => request.head.generation = request.counts.assignments
=============================================================================
