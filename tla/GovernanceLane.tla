--------------------------- MODULE GovernanceLane ---------------------------
(***************************************************************************)
(* One governance lane in quant_platform.governance.store: the append-only  *)
(* event chain and the head projected from it.  Every writer opens BEGIN    *)
(* IMMEDIATE before it reads, so a write is one step; rebuild_head reads    *)
(* the events and the head on separate connections, so it is two.  The lane *)
(* is registered from the start (register_lane changes nothing afterwards). *)
(* append_event takes every kind of event from its caller and leaves the    *)
(* head alone, and one set of keys serves all operations: `around` says     *)
(* whether history and head were written around each other that way.        *)
(***************************************************************************)
EXTENDS Naturals, Sequences

CONSTANTS
    Revisions,      \* model revisions that may become champion
    Details,        \* what a freeze or a monitoring record says
    IdempotencyKeys,
    RecordKinds,    \* kinds of events append_event is called with
    MaxEvents,      \* bound: length of the chain
    NoKey, NoRevision, NoTrigger

VARIABLES
    events,   \* sl_governance_events of the lane
    head,     \* its row in sl_governance_lane_head
    approved, \* approvals people hold, with the head each was granted against
    reader,   \* a rebuild_head between its two reads: length of the chain it saw
    alarm,    \* whether a rebuild_head has raised ChainIntegrityError
    around    \* history: append_event recorded a move of the head that did not happen, or
              \* the head was moved for an event of another kind, found under the key

vars == <<events, head, approved, reader, alarm, around>>

Keys == IdempotencyKeys \cup {NoKey}
NotReading == MaxEvents + 1

\* An approval names the generation and the champion it was granted against; `at` is
\* the length of the chain when it was granted.
Approval == [revision : Revisions, generation : 0..MaxEvents,
             champion : Revisions \cup {NoRevision}, at : 0..MaxEvents]

\* A request stands for every other kind that carries the content of an assignment, a
\* monitoring record for every other kind that carries that of a freeze.
Event ==
    [kind : {"approval"}, key : {NoKey}]
    \cup [kind : {"assignment", "request"}, key : Keys, by : Approval]
    \cup [kind : {"freeze", "monitoring"}, key : Keys, detail : Details]

LaneHead == [state : {"unassigned", "active", "frozen"}, champion : Revisions \cup {NoRevision},
         generation : 0..MaxEvents, trigger : Details \cup {NoTrigger}, sequence : 0..MaxEvents]

\* The CHECK constraints of the head table are part of its type.
TypeOK ==
    /\ events \in Seq(Event) /\ Len(events) <= MaxEvents
    /\ head \in LaneHead
    /\ head.state = "unassigned" <=> head.champion = NoRevision
    /\ head.state = "frozen" <=> head.trigger # NoTrigger
    /\ head.sequence <= Len(events)
    /\ approved \subseteq Approval
    /\ reader \in 0..NotReading /\ alarm \in BOOLEAN /\ around \in BOOLEAN

Unassigned == [state |-> "unassigned", champion |-> NoRevision, generation |-> 0,
               trigger |-> NoTrigger, sequence |-> 0]

Init ==
    /\ events = <<>> /\ head = Unassigned /\ approved = {}
    /\ reader = NotReading /\ alarm = FALSE /\ around = FALSE

-----------------------------------------------------------------------------
\* _append_locked

Holds(key) == {i \in 1..Len(events) : key # NoKey /\ events[i].key = key}
FreshKey(key) == Holds(key) = {}

\* The stored payload is compared, the stored kind is not.
SameFreeze(e, detail) == e.kind \in {"freeze", "monitoring"} /\ e.detail = detail

SameAssignment(e, a) ==
    /\ e.kind \in {"assignment", "request"}
    /\ e.by.revision = a.revision /\ e.by.generation = a.generation /\ e.by.champion = a.champion

HasRoom == Len(events) < MaxEvents

-----------------------------------------------------------------------------
\* A person approves a decision and the approval is recorded.
Approve(revision) ==
    /\ HasRoom
    /\ approved' = approved \cup {[revision |-> revision, generation |-> head.generation,
                                   champion |-> head.champion, at |-> Len(events)]}
    /\ events' = Append(events, [kind |-> "approval", key |-> NoKey])
    /\ UNCHANGED <<head, reader, alarm, around>>

\* What append_event is given: any of its kinds, here with the content of an approved
\* assignment or of a freeze.
Recordable ==
    [kind : RecordKinds \cap {"assignment", "request"}, key : Keys, by : approved]
    \cup [kind : RecordKinds \cap {"freeze", "monitoring"}, key : Keys, detail : Details]

\* append_event; a replayed key resolves to the stored event and changes nothing.
Record(e) ==
    /\ HasRoom /\ FreshKey(e.key)
    /\ events' = Append(events, e)
    /\ around' = (around \/ e.kind \in {"assignment", "freeze"})
    /\ UNCHANGED <<head, approved, reader, alarm>>

\* Mutant: only the champion is compared.
ChampionUnmoved(a) == head.champion = a.champion

\* The compare-and-swap of apply_assignment.
Unmoved(a) == head.generation = a.generation /\ head.champion = a.champion

\* Mutant: the freeze trigger is left in place.
AssignedKeepingTrigger(a, sequence) ==
    [head EXCEPT !.state = "active", !.champion = a.revision, !.sequence = sequence,
                 !.generation = a.generation + 1]

\* Mutant: the generation is not advanced.
AssignedSameGeneration(a, sequence) ==
    [head EXCEPT !.state = "active", !.champion = a.revision, !.trigger = NoTrigger,
                 !.sequence = sequence]

Assigned(a, sequence) ==
    [head EXCEPT !.state = "active", !.champion = a.revision, !.trigger = NoTrigger,
                 !.sequence = sequence, !.generation = a.generation + 1]

\* The trigger sl_governance_lane_head_forward_only.
Forward(sequence) == sequence >= head.sequence

\* apply_assignment: every lane state may become active.  The event is appended, or
\* found under the key and taken for this assignment.
ApplyAssignment(a, key) ==
    /\ Unmoved(a)
    /\ \/ /\ HasRoom /\ FreshKey(key)
          /\ events' = Append(events, [kind |-> "assignment", key |-> key, by |-> a])
          /\ head' = Assigned(a, Len(events) + 1)
          /\ UNCHANGED around
       \/ /\ \E i \in Holds(key) : /\ SameAssignment(events[i], a) /\ Forward(i)
                                   /\ head' = Assigned(a, i)
                                   /\ around' = (around \/ events[i].kind # "assignment")
          /\ UNCHANGED events
    /\ UNCHANGED <<approved, reader, alarm>>

Frozen(detail, sequence) ==
    [head EXCEPT !.state = "frozen", !.trigger = detail, !.sequence = sequence]

\* freeze: the event is appended, or found under the key and taken for this freeze.
Freeze(detail, key) ==
    /\ head.state = "active"
    /\ \/ /\ HasRoom /\ FreshKey(key)
          /\ events' = Append(events, [kind |-> "freeze", key |-> key, detail |-> detail])
          /\ head' = Frozen(detail, Len(events) + 1)
          /\ UNCHANGED around
       \/ /\ \E i \in Holds(key) : /\ SameFreeze(events[i], detail) /\ Forward(i)
                                   /\ head' = Frozen(detail, i)
                                   /\ around' = (around \/ events[i].kind # "freeze")
          /\ UNCHANGED events
    /\ UNCHANGED <<approved, reader, alarm>>

-----------------------------------------------------------------------------
\* rebuild_head and replay_head

Assignments(chain) == {i \in 1..Len(chain) : chain[i].kind = "assignment"}
FreezesAfter(chain, i) == {j \in (i + 1)..Len(chain) : chain[j].kind = "freeze"}
Latest(S) == CHOOSE i \in S : \A j \in S : j <= i

\* The head without its sequence, which rebuild_head does not compare.
Rebuilt(chain) ==
    IF Assignments(chain) = {}
    THEN [state |-> "unassigned", champion |-> NoRevision, generation |-> 0, trigger |-> NoTrigger]
    ELSE LET last == Latest(Assignments(chain))
             later == FreezesAfter(chain, last)
         IN  [state |-> IF later = {} THEN "active" ELSE "frozen",
              champion |-> chain[last].by.revision,
              generation |-> chain[last].by.generation + 1,
              trigger |-> IF later = {} THEN NoTrigger ELSE chain[Latest(later)].detail]

Agrees(chain) ==
    Rebuilt(chain) = [state |-> head.state, champion |-> head.champion,
                      generation |-> head.generation, trigger |-> head.trigger]

LoadEvents ==
    /\ reader = NotReading
    /\ reader' = Len(events)
    /\ UNCHANGED <<events, head, approved, alarm, around>>

ReadHead ==
    /\ reader # NotReading
    /\ alarm' = (alarm \/ ~Agrees(SubSeq(events, 1, reader)))
    /\ reader' = NotReading
    /\ UNCHANGED <<events, head, approved, around>>

Write ==
    \/ \E revision \in Revisions : Approve(revision)
    \/ \E e \in Recordable : Record(e)
    \/ \E a \in approved, key \in Keys : ApplyAssignment(a, key)
    \/ \E detail \in Details, key \in Keys : Freeze(detail, key)

Next == Write \/ LoadEvents \/ ReadHead

Spec == Init /\ [][Next]_vars

-----------------------------------------------------------------------------
\* A head that moved without its event, or an event without its head update, is the
\* split record the chain is said to make impossible (store.py, _append_locked): the
\* stored head is the one its events produce, and rebuild_head finds no difference.
NoSplitRecord == Agrees(events)

\* As long as nothing was written around the head, it is exactly what its events produce,
\* after every sequence of assignments, freezes, records and replayed keys.
HeadReplays == ~around => Agrees(events)

\* So long, the assignments form one line of champions: each was approved against the
\* champion and the generation the one before it produced, so of competing approvals
\* one wins.
ChampionsFollow ==
    ~around =>
        \A i \in Assignments(events) :
            LET before == {j \in Assignments(events) : j < i}
                by == events[i].by
            IN  IF before = {}
                THEN by.generation = 0 /\ by.champion = NoRevision
                ELSE LET previous == events[Latest(before)].by
                     IN  by.generation = previous.generation + 1 /\ by.champion = previous.revision

\* A frozen lane stays frozen until somebody assigns a champion: only an assignment
\* clears the freeze, it always moves the generation on, and it has its own event
\* unless it was written around.
FreezeHolds ==
    [][(head.state = "frozen" /\ head' # head) =>
            /\ head'.generation = head.generation + 1
            /\ Len(events') = Len(events) + 1 \/ around']_vars

\* A frozen lane returns to active only through a newly approved assignment, one that
\* was approved after the freeze (docs/adr/0005).
OnlyNewApprovalsUnfreeze ==
    \A j \in Assignments(events) :
        \A i \in 1..(j - 1) :
            (events[i].kind = "freeze" /\ ~\E k \in Assignments(events) : i < k /\ k < j)
                => events[j].by.at >= i

\* rebuild_head raises only if the recorded history disagrees with itself.
NoFalseAlarm == alarm => ~Agrees(events)
=============================================================================
