----------------------------- MODULE LaneProofs -----------------------------
(***************************************************************************)
(* What holds of the governance lanes, of what is read of them and of the  *)
(* registry while both move on, and what the stores decide once and for    *)
(* all, for every number of models, events, lanes, jobs and page sizes.    *)
(***************************************************************************)
EXTENDS StoresProofs

-----------------------------------------------------------------------------
\* The governance lanes (GovernanceLane).  The lane of the part "lane" and the one the
\* part "queries" reads differ in their models, details and bound, and are proved of
\* together: R, D and M are either's.

ApprovalOf(R, M) == [revision : R, generation : 0..M, champion : R \cup {NoRevision}, at : 0..M]

EventOf(R, D, M) ==
    [kind : {"approval"}, key : {NoKey}]
    \cup [kind : {"assignment", "request"}, key : Lane!Keys, by : ApprovalOf(R, M)]
    \cup [kind : {"freeze", "monitoring"}, key : Lane!Keys, detail : D]

HeadOf(R, D, M) == [state : {"unassigned", "active", "frozen"}, champion : R \cup {NoRevision},
                    generation : 0..M, trigger : D \cup {NoTrigger}, sequence : 0..M]

LaneTyped(R, D, M) ==
    /\ events \in Seq(EventOf(R, D, M)) /\ Len(events) <= M
    /\ head \in HeadOf(R, D, M)
    /\ head.state = "unassigned" <=> head.champion = NoRevision
    /\ head.state = "frozen" <=> head.trigger # NoTrigger
    /\ head.sequence <= Len(events)
    /\ approved \subseteq ApprovalOf(R, M)

\* The event the head was last moved by, or was said to be: of a freeze, or approved in
\* the generation before the head's.
FollowsItsEvent ==
    head.sequence > 0 => \/ events[head.sequence].kind \in {"freeze", "monitoring"}
                         \/ events[head.sequence].by.generation + 1 = head.generation

\* What holds whatever was written around the head: the generation is behind the event.
LaneOrdered(R, D, M) == LaneTyped(R, D, M) /\ head.generation <= head.sequence /\ FollowsItsEvent

\* As long as nothing was: no assignment is newer than the event the head was last moved
\* by, which is the newest one while the lane is active, and the generation counts them.
LaneInv(R, D, M) ==
    /\ LaneOrdered(R, D, M) /\ ~around
    /\ Lane!HeadReplays /\ Lane!ChampionsFollow
    /\ \A i \in Lane!Assignments(events) : i <= head.sequence
    /\ head.state = "active" => head.sequence = Lane!Latest(Lane!Assignments(events))
    /\ head.generation = Cardinality(Lane!Assignments(events))

LEMMA LatestIs ==
    ASSUME NEW S \in SUBSET Nat, NEW m \in S, \A j \in S : j <= m
    PROVE  Lane!Latest(S) = m
  <1>1. ASSUME NEW i \in S, \A j \in S : j <= i PROVE i = m
    <2>1. i <= m /\ m <= i /\ i \in Nat /\ m \in Nat
      BY <1>1
    <2> QED
      BY <2>1
  <1>2. \E i \in S : \A j \in S : j <= i
    OBVIOUS
  <1> QED
    BY <1>1, <1>2 DEF Lane!Latest

\* There is a latest element of any set of indices that has one at all.
LEMMA LatestExists ==
    ASSUME NEW n \in Nat, NEW S \in SUBSET (1..n), S # {}
    PROVE  Lane!Latest(S) \in S /\ \A j \in S : j <= Lane!Latest(S)
  <1>1. S \in SUBSET (0..n)
    OBVIOUS
  <1>2. PICK m \in S : \A j \in S : m >= j
    BY <1>1, Greatest
  <1>3. \A j \in S : j <= m
    BY <1>2
  <1> QED
    BY <1>3, LatestIs

\* What an appended event changes of a chain, and what not.
Appending(chain, e, new) ==
    /\ Len(new) = Len(chain) + 1 /\ Len(chain) \in Nat /\ new[Len(chain) + 1] = e
    /\ \A i \in 1..Len(chain) : new[i] = chain[i]
    /\ Lane!Assignments(chain) \subseteq 1..Len(chain)
    /\ e.kind = "assignment" => Lane!Assignments(new) = Lane!Assignments(chain) \cup {Len(chain) + 1}
    /\ e.kind # "assignment" => Lane!Assignments(new) = Lane!Assignments(chain)
    /\ \A i \in 1..Len(chain) :
          /\ e.kind = "freeze" => Lane!FreezesAfter(new, i) = Lane!FreezesAfter(chain, i) \cup {Len(chain) + 1}
          /\ e.kind # "freeze" => Lane!FreezesAfter(new, i) = Lane!FreezesAfter(chain, i)

LEMMA Appended ==
    ASSUME NEW E, NEW chain \in Seq(E), NEW e \in E, NEW new, new = Append(chain, e)
    PROVE  new \in Seq(E) /\ Appending(chain, e, new)
  <1>1. /\ new \in Seq(E) /\ Len(new) = Len(chain) + 1 /\ Len(chain) \in Nat /\ new[Len(chain) + 1] = e
        /\ \A i \in 1..Len(chain) : new[i] = chain[i]
    BY AppendProperties
  <1> DEFINE n == Len(chain)
  <1>2. 1..(n + 1) = (1..n) \cup {n + 1} /\ \A i \in 1..n : (i + 1)..(n + 1) = ((i + 1)..n) \cup {n + 1}
    BY <1>1
  <1>3. Lane!Assignments(chain) \subseteq 1..n
    BY DEF Lane!Assignments
  <1> HIDE DEF n
  <1>4. /\ e.kind = "assignment" => Lane!Assignments(new) = Lane!Assignments(chain) \cup {n + 1}
        /\ e.kind # "assignment" => Lane!Assignments(new) = Lane!Assignments(chain)
    BY <1>1, <1>2 DEF Lane!Assignments, n
  <1>5. ASSUME NEW i \in 1..n
        PROVE  /\ e.kind = "freeze" => Lane!FreezesAfter(new, i) = Lane!FreezesAfter(chain, i) \cup {n + 1}
               /\ e.kind # "freeze" => Lane!FreezesAfter(new, i) = Lane!FreezesAfter(chain, i)
    <2>1. (i + 1)..n \subseteq 1..n
      BY <1>1 DEF n
    <2> QED
      BY <1>1, <1>2, <2>1 DEF Lane!FreezesAfter, n
  <1> QED
    BY <1>1, <1>3, <1>4, <1>5 DEF n, Appending

\* What is rebuilt from a chain, event by event.
LEMMA RebuiltSame ==
    ASSUME NEW E, NEW chain \in Seq(E), NEW e \in E, e.kind \notin {"assignment", "freeze"}, NEW new, new = Append(chain, e)
    PROVE  /\ Lane!Rebuilt(new) = Lane!Rebuilt(chain)
           /\ Lane!Assignments(new) = Lane!Assignments(chain)
  <1>0. Appending(chain, e, new)
    BY Appended
  <1> DEFINE A == Lane!Assignments(chain)
             last == Lane!Latest(A)
             F == Lane!FreezesAfter(chain, last)
  <1>1. /\ Len(chain) \in Nat /\ A \subseteq 1..Len(chain) /\ Lane!Assignments(new) = A
        /\ \A i \in 1..Len(chain) : new[i] = chain[i] /\ Lane!FreezesAfter(new, i) = Lane!FreezesAfter(chain, i)
    BY <1>0 DEF Appending
  <1>2. CASE A = {}
    BY <1>1, <1>2 DEF Lane!Rebuilt
  <1>3. CASE A # {}
    <2>1. last \in 1..Len(chain)
      BY <1>1, <1>3, LatestExists
    <2>2. F \subseteq 1..Len(chain)
      BY <1>1, <2>1 DEF Lane!FreezesAfter
    <2>3. new[last] = chain[last] /\ Lane!FreezesAfter(new, last) = F
      BY <1>1, <2>1
    <2>4. F # {} => new[Lane!Latest(F)] = chain[Lane!Latest(F)]
      BY <1>1, <2>2, LatestExists
    <2> HIDE DEF F, last, A
    <2> QED
      BY <1>1, <1>3, <2>3, <2>4 DEF Lane!Rebuilt, F, last, A
  <1> QED
    BY <1>1, <1>2, <1>3

LEMMA RebuiltFrozen ==
    ASSUME NEW E, NEW chain \in Seq(E), NEW e \in E, e.kind = "freeze", NEW new, new = Append(chain, e),
           Lane!Assignments(chain) # {}
    PROVE  /\ Lane!Rebuilt(new) = [state |-> "frozen", champion |-> Lane!Rebuilt(chain).champion,
                                   generation |-> Lane!Rebuilt(chain).generation, trigger |-> e.detail]
           /\ Lane!Assignments(new) = Lane!Assignments(chain)
  <1>0. Appending(chain, e, new)
    BY Appended
  <1> DEFINE A == Lane!Assignments(chain)
             n == Len(chain)
             last == Lane!Latest(A)
             F == Lane!FreezesAfter(new, last)
  <1>1. /\ n \in Nat /\ A \subseteq 1..n /\ Lane!Assignments(new) = A /\ new[n + 1] = e
        /\ \A i \in 1..n : new[i] = chain[i] /\ Lane!FreezesAfter(new, i) = Lane!FreezesAfter(chain, i) \cup {n + 1}
    BY <1>0 DEF Appending
  <1>2. last \in 1..n
    BY <1>1, LatestExists
  <1>3. new[last] = chain[last] /\ F = Lane!FreezesAfter(chain, last) \cup {n + 1}
    BY <1>1, <1>2
  <1>4. Lane!FreezesAfter(chain, last) \subseteq 1..n
    BY <1>1, <1>2 DEF Lane!FreezesAfter
  <1>5. Lane!Latest(F) = n + 1
    <2>1. F \in SUBSET Nat /\ n + 1 \in F /\ \A j \in F : j <= n + 1
      BY <1>1, <1>3, <1>4
    <2> HIDE DEF F, n
    <2> QED
      BY <2>1, LatestIs
  <1>6. /\ Lane!Rebuilt(chain).champion = chain[last].by.revision
        /\ Lane!Rebuilt(chain).generation = chain[last].by.generation + 1
    BY DEF Lane!Rebuilt
  <1>7. F # {}
    BY <1>3
  <1> HIDE DEF F, last, A, n
  <1>8. Lane!Rebuilt(new) = [state |-> "frozen", champion |-> new[last].by.revision,
                             generation |-> new[last].by.generation + 1, trigger |-> new[Lane!Latest(F)].detail]
    BY <1>1, <1>7 DEF Lane!Rebuilt, F, last, A
  <1> QED
    BY <1>1, <1>3, <1>5, <1>6, <1>8 DEF A

LEMMA RebuiltAssigned ==
    ASSUME NEW E, NEW chain \in Seq(E), NEW e \in E, e.kind = "assignment", NEW new, new = Append(chain, e)
    PROVE  Lane!Rebuilt(new) = [state |-> "active", champion |-> e.by.revision,
                                generation |-> e.by.generation + 1, trigger |-> NoTrigger]
  <1>0. Appending(chain, e, new)
    BY Appended
  <1> DEFINE B == Lane!Assignments(new)
             n == Len(chain)
  <1>1. /\ n \in Nat /\ Lane!Assignments(chain) \subseteq 1..n /\ new[n + 1] = e /\ Len(new) = n + 1
        /\ B = Lane!Assignments(chain) \cup {n + 1}
    BY <1>0 DEF Appending
  <1>2. Lane!Latest(B) = n + 1
    <2>1. B \in SUBSET Nat /\ n + 1 \in B /\ \A j \in B : j <= n + 1
      BY <1>1
    <2> HIDE DEF B, n
    <2> QED
      BY <2>1, LatestIs
  <1>3. Lane!FreezesAfter(new, n + 1) = {}
    BY <1>1 DEF Lane!FreezesAfter
  <1>4. B # {}
    BY <1>1
  <1> HIDE DEF B, n
  <1> QED
    BY <1>1, <1>2, <1>3, <1>4 DEF Lane!Rebuilt, B, n

-----------------------------------------------------------------------------
\* The steps of a lane, whichever.

LaneChoices(R, D, M) == M \in Nat /\ NoRevision \notin R /\ NoTrigger \notin D

LEMMA CountTo ==
    ASSUME NEW n \in Nat
    PROVE  IsFiniteSet(1..n) /\ Cardinality(1..n) = n
  BY FS_Interval

LEMMA OrderedTypes ==
    ASSUME NEW R, NEW D, NEW M, LaneChoices(R, D, M), LaneOrdered(R, D, M)
    PROVE  /\ events \in Seq(EventOf(R, D, M)) /\ Len(events) \in Nat /\ M \in Nat /\ Len(events) <= M
           /\ head \in HeadOf(R, D, M) /\ head.generation \in Nat /\ head.sequence \in Nat
           /\ head.generation <= head.sequence /\ head.sequence <= Len(events)
           /\ approved \subseteq ApprovalOf(R, M)
  <1>1. /\ events \in Seq(EventOf(R, D, M)) /\ Len(events) <= M /\ Len(events) \in Nat /\ M \in Nat
        /\ head \in HeadOf(R, D, M) /\ approved \subseteq ApprovalOf(R, M)
        /\ head.generation <= head.sequence /\ head.sequence <= Len(events)
    BY LenProperties DEF LaneOrdered, LaneTyped, LaneChoices
  <1>2. head.generation \in 0..M /\ head.sequence \in 0..M
    BY ONLY <1>1 DEF HeadOf
  <1> QED
    BY ONLY <1>1, <1>2

\* An event is appended, whoever appends it, or is found or not needed: the head stays, or is
\* frozen with a freeze, or what passes for one, that is not older than its last event.
LEMMA EventTypes ==
    ASSUME NEW R, NEW D, NEW M, LaneChoices(R, D, M), LaneOrdered(R, D, M),
           \/ UNCHANGED events
           \/ Len(events) < M /\ \E e \in EventOf(R, D, M) : events' = Append(events, e),
           \/ UNCHANGED head
           \/ /\ head.state = "active"
              /\ \E detail \in D, i \in 1..Len(events') :
                    /\ events'[i].kind \in {"freeze", "monitoring"} /\ head.sequence <= i
                    /\ head' = [head EXCEPT !.state = "frozen", !.trigger = detail, !.sequence = i],
           approved' \subseteq ApprovalOf(R, M)
    PROVE  LaneOrdered(R, D, M)'
  <1>1. /\ events \in Seq(EventOf(R, D, M)) /\ Len(events) \in Nat /\ M \in Nat /\ Len(events) <= M
        /\ head \in HeadOf(R, D, M) /\ head.sequence <= Len(events) /\ head.sequence \in Nat
        /\ head.generation \in Nat /\ head.generation <= head.sequence
    BY OrderedTypes
  <1>2. /\ events' \in Seq(EventOf(R, D, M)) /\ Len(events') \in Nat /\ Len(events') <= M /\ Len(events) <= Len(events')
        /\ \A i \in 1..Len(events) : events'[i] = events[i]
    <2>1. ASSUME events' = events
          PROVE  /\ events' \in Seq(EventOf(R, D, M)) /\ Len(events') \in Nat /\ Len(events') <= M
                 /\ Len(events) <= Len(events') /\ \A i \in 1..Len(events) : events'[i] = events[i]
      BY ONLY <1>1, <2>1
    <2>2. ASSUME Len(events) < M, NEW e \in EventOf(R, D, M), events' = Append(events, e)
          PROVE  /\ events' \in Seq(EventOf(R, D, M)) /\ Len(events') \in Nat /\ Len(events') <= M
                 /\ Len(events) <= Len(events') /\ \A i \in 1..Len(events) : events'[i] = events[i]
      <3>1. events' \in Seq(EventOf(R, D, M)) /\ Appending(events, e, events')
        BY <1>1, <2>2, Appended
      <3>2. Len(events') = Len(events) + 1 /\ \A i \in 1..Len(events) : events'[i] = events[i]
        BY <3>1 DEF Appending
      <3> QED
        BY ONLY <1>1, <2>2, <3>1, <3>2
    <2> QED
      BY <2>1, <2>2
  <1>3. /\ head' \in HeadOf(R, D, M) /\ head'.sequence <= Len(events')
        /\ head'.state = "unassigned" <=> head'.champion = NoRevision
        /\ head'.state = "frozen" <=> head'.trigger # NoTrigger
        /\ head'.generation <= head'.sequence /\ FollowsItsEvent'
    <2>1. CASE UNCHANGED head
      <3>1. FollowsItsEvent'
        BY <1>1, <1>2, <2>1 DEF LaneOrdered, FollowsItsEvent
      <3> QED
        BY <1>1, <1>2, <2>1, <3>1 DEF LaneOrdered, LaneTyped, HeadOf
    <2>2. ASSUME head.state = "active", NEW detail \in D, NEW i \in 1..Len(events'),
                 events'[i].kind \in {"freeze", "monitoring"}, head.sequence <= i,
                 head' = [head EXCEPT !.state = "frozen", !.trigger = detail, !.sequence = i]
          PROVE  /\ head' \in HeadOf(R, D, M) /\ head'.sequence <= Len(events')
                 /\ head'.state = "unassigned" <=> head'.champion = NoRevision
                 /\ head'.state = "frozen" <=> head'.trigger # NoTrigger
                 /\ head'.generation <= head'.sequence /\ FollowsItsEvent'
      <3>1. i \in 0..M /\ i <= Len(events') /\ head.generation <= i
        BY ONLY <1>1, <1>2, <2>2, i \in 1..Len(events')
      <3>2. detail # NoTrigger /\ head.champion # NoRevision
        BY <2>2 DEF LaneOrdered, LaneTyped, LaneChoices
      <3>3. /\ head'.state = "frozen" /\ head'.trigger = detail /\ head'.sequence = i
            /\ head'.champion = head.champion /\ head'.generation = head.generation
            /\ head' \in HeadOf(R, D, M)
        BY <1>1, <2>2, <3>1 DEF HeadOf
      <3>4. FollowsItsEvent'
        BY <2>2, <3>3 DEF FollowsItsEvent
      <3> QED
        BY <3>1, <3>2, <3>3, <3>4
    <2> QED
      BY <2>1, <2>2
  <1> QED
    BY <1>2, <1>3 DEF LaneOrdered, LaneTyped

\* An assignment moves the head to an event that is newer than its last one, and was
\* approved in the head's generation.
LEMMA AssignedAt ==
    ASSUME NEW R, NEW D, NEW M, LaneChoices(R, D, M), LaneOrdered(R, D, M),
           NEW a \in ApprovalOf(R, M), Lane!Unmoved(a), approved' = approved,
           events' \in Seq(EventOf(R, D, M)), Len(events') <= M,
           NEW i \in 1..Len(events'), head.sequence < i, events'[i].by.generation = a.generation,
           head' = Lane!Assigned(a, i)
    PROVE  /\ LaneOrdered(R, D, M)' /\ head'.generation = head.generation + 1
           /\ head'.state = "active" /\ head'.trigger = NoTrigger /\ head'.sequence = i
           /\ head'.champion = a.revision
  <1>1. /\ M \in Nat /\ head \in HeadOf(R, D, M) /\ head.generation \in Nat /\ head.sequence \in Nat
        /\ head.generation <= head.sequence /\ approved \subseteq ApprovalOf(R, M)
    BY OrderedTypes
  <1>2. a.revision \in R /\ a.revision # NoRevision /\ a.generation = head.generation
    BY DEF ApprovalOf, LaneChoices, Lane!Unmoved
  <1>3. i \in 0..M /\ a.generation + 1 \in 0..M /\ a.generation + 1 <= i /\ Len(events') \in Nat
    <2>1. Len(events') \in Nat
      BY LenProperties
    <2> QED
      BY ONLY <1>1, <1>2, <2>1, Len(events') <= M, i \in 1..Len(events'), head.sequence < i
  <1>4. head' = [state |-> "active", champion |-> a.revision, generation |-> a.generation + 1,
                 trigger |-> NoTrigger, sequence |-> i]
    BY <1>1 DEF Lane!Assigned, HeadOf
  <1>5. /\ head' \in HeadOf(R, D, M) /\ head'.state = "active" /\ head'.trigger = NoTrigger
        /\ head'.sequence = i /\ head'.champion = a.revision
        /\ head'.generation = a.generation + 1
    BY <1>2, <1>3, <1>4 DEF HeadOf
  <1>6. FollowsItsEvent'
    BY <1>5 DEF FollowsItsEvent
  <1>7. LaneTyped(R, D, M)'
    BY <1>1, <1>2, <1>3, <1>5 DEF LaneTyped
  <1> QED
    BY <1>2, <1>3, <1>5, <1>6, <1>7 DEF LaneOrdered

\* The event of the assignment is appended ...
LEMMA AssignmentTypes ==
    ASSUME NEW R, NEW D, NEW M, LaneChoices(R, D, M), LaneOrdered(R, D, M), Len(events) < M,
           NEW a \in ApprovalOf(R, M), NEW key \in Lane!Keys, Lane!Unmoved(a),
           events' = Append(events, [kind |-> "assignment", key |-> key, by |-> a]),
           head' = Lane!Assigned(a, Len(events) + 1), approved' = approved
    PROVE  /\ LaneOrdered(R, D, M)' /\ head'.generation = head.generation + 1 /\ Len(events') = Len(events) + 1
           /\ head'.state = "active" /\ head'.trigger = NoTrigger /\ head'.sequence = Len(events) + 1
           /\ head'.champion = a.revision
  <1> DEFINE e == [kind |-> "assignment", key |-> key, by |-> a]
  <1>1. e \in EventOf(R, D, M) /\ e.by = a /\ events' = Append(events, e)
    BY DEF EventOf
  <1> HIDE DEF e
  <1>2. /\ events \in Seq(EventOf(R, D, M)) /\ Len(events) \in Nat /\ M \in Nat
        /\ head.sequence \in Nat /\ head.sequence <= Len(events)
    BY OrderedTypes
  <1>3. events' \in Seq(EventOf(R, D, M)) /\ Appending(events, e, events')
    BY <1>1, <1>2, Appended
  <1>4. Len(events') = Len(events) + 1 /\ events'[Len(events) + 1] = e
    BY <1>3 DEF Appending
  <1>5. /\ Len(events) + 1 \in 1..Len(events') /\ head.sequence < Len(events) + 1 /\ Len(events') <= M
        /\ events'[Len(events) + 1].by.generation = a.generation
    BY <1>1, <1>2, <1>4
  <1> QED
    BY <1>3, <1>4, <1>5, AssignedAt

\* ... or was there under the key: it is newer than the head's last event, which was
\* approved in an earlier generation.
LEMMA FoundIsNewer ==
    ASSUME NEW R, NEW D, NEW M, LaneChoices(R, D, M), LaneOrdered(R, D, M),
           NEW a \in ApprovalOf(R, M), NEW key, Lane!Unmoved(a),
           NEW i \in Lane!Holds(key), Lane!SameAssignment(events[i], a), Lane!Forward(i)
    PROVE  /\ i \in 1..Len(events) /\ head.sequence < i /\ events[i].by.generation = a.generation
  <1>1. /\ i \in 1..Len(events) /\ events[i].by.generation = a.generation
        /\ events[i].kind \notin {"freeze", "monitoring"} /\ i >= head.sequence
        /\ a.generation = head.generation
    BY DEF Lane!Holds, Lane!SameAssignment, Lane!Forward, Lane!Unmoved
  <1>2. head.sequence \in Nat /\ head.generation \in Nat
    BY OrderedTypes
  <1>3. head.sequence # i
    BY <1>1, <1>2 DEF LaneOrdered, FollowsItsEvent
  <1> QED
    BY <1>1, <1>2, <1>3

LEMMA FoundTypes ==
    ASSUME NEW R, NEW D, NEW M, LaneChoices(R, D, M), LaneOrdered(R, D, M),
           NEW a \in ApprovalOf(R, M), NEW key, Lane!Unmoved(a),
           NEW i \in Lane!Holds(key), Lane!SameAssignment(events[i], a), Lane!Forward(i),
           events' = events, head' = Lane!Assigned(a, i), approved' = approved
    PROVE  LaneOrdered(R, D, M)' /\ head'.generation = head.generation + 1
  <1>1. i \in 1..Len(events') /\ head.sequence < i /\ events'[i].by.generation = a.generation
    BY FoundIsNewer
  <1>2. events' \in Seq(EventOf(R, D, M)) /\ Len(events') <= M
    BY OrderedTypes
  <1> QED
    BY <1>1, <1>2, AssignedAt

LEMMA LineKept ==
    ASSUME NEW E, events \in Seq(E), NEW e \in E, e.kind # "assignment", events' = Append(events, e),
           ~around, Lane!ChampionsFollow
    PROVE  Lane!ChampionsFollow'
  <1>1. Appending(events, e, events')
    BY Appended
  <1>2. Lane!Assignments(events') = Lane!Assignments(events) /\ Lane!Assignments(events) \subseteq 1..Len(events)
        /\ \A i \in Lane!Assignments(events) : events'[i] = events[i]
    BY <1>1 DEF Appending
  <1> SUFFICES ASSUME NEW i \in Lane!Assignments(events), NEW before, before = {j \in Lane!Assignments(events) : j < i}
               PROVE  IF before = {}
                      THEN events'[i].by.generation = 0 /\ events'[i].by.champion = NoRevision
                      ELSE /\ events'[i].by.generation = events'[Lane!Latest(before)].by.generation + 1
                           /\ events'[i].by.champion = events'[Lane!Latest(before)].by.revision
    BY <1>2, ZenonT(40) DEF Lane!ChampionsFollow
  <1>3. IF before = {}
        THEN events[i].by.generation = 0 /\ events[i].by.champion = NoRevision
        ELSE /\ events[i].by.generation = events[Lane!Latest(before)].by.generation + 1
             /\ events[i].by.champion = events[Lane!Latest(before)].by.revision
    BY DEF Lane!ChampionsFollow
  <1>4. before # {} => Lane!Latest(before) \in before
    <2>1. before \in SUBSET (1..Len(events)) /\ Len(events) \in Nat
      BY <1>1, <1>2 DEF Appending
    <2> QED
      BY <2>1, LatestExists
  <1> QED
    BY <1>2, <1>3, <1>4

LEMMA LineExtended ==
    ASSUME NEW E, events \in Seq(E), NEW e \in E, e.kind = "assignment", events' = Append(events, e),
           ~around, Lane!ChampionsFollow, Lane!HeadReplays,
           e.by.generation = head.generation, e.by.champion = head.champion
    PROVE  Lane!ChampionsFollow'
  <1> DEFINE A == Lane!Assignments(events)
             n == Len(events)
  <1>1. Appending(events, e, events')
    BY Appended
  <1>2. /\ n \in Nat /\ A \subseteq 1..n /\ Lane!Assignments(events') = A \cup {n + 1}
        /\ events'[n + 1] = e /\ \A i \in A : events'[i] = events[i]
    BY <1>1 DEF Appending
  <1> SUFFICES ASSUME NEW i \in A \cup {n + 1}, NEW before, before = {j \in A \cup {n + 1} : j < i}
               PROVE  IF before = {}
                      THEN events'[i].by.generation = 0 /\ events'[i].by.champion = NoRevision
                      ELSE /\ events'[i].by.generation = events'[Lane!Latest(before)].by.generation + 1
                           /\ events'[i].by.champion = events'[Lane!Latest(before)].by.revision
    BY <1>2, ZenonT(40) DEF Lane!ChampionsFollow
  <1>3. before \subseteq A /\ before = {j \in A : j < i}
    BY <1>2
  <1>4. before # {} => Lane!Latest(before) \in before
    BY <1>2, <1>3, LatestExists
  <1>5. CASE i \in A
    <2>1. IF before = {}
          THEN events[i].by.generation = 0 /\ events[i].by.champion = NoRevision
          ELSE /\ events[i].by.generation = events[Lane!Latest(before)].by.generation + 1
               /\ events[i].by.champion = events[Lane!Latest(before)].by.revision
      BY <1>3, <1>5 DEF Lane!ChampionsFollow
    <2> QED
      BY <1>2, <1>3, <1>4, <1>5, <2>1
  <1>6. CASE i = n + 1
    <2>1. before = A
      BY <1>2, <1>3, <1>6
    <2>2. IF A = {}
          THEN head.generation = 0 /\ head.champion = NoRevision
          ELSE /\ head.generation = events[Lane!Latest(A)].by.generation + 1
               /\ head.champion = events[Lane!Latest(A)].by.revision
      BY DEF Lane!HeadReplays, Lane!Agrees, Lane!Rebuilt
    <2> QED
      BY <1>2, <1>3, <1>4, <1>6, <2>1, <2>2
  <1> QED
    BY <1>5, <1>6

\* An event that is neither an assignment nor a freeze leaves the head as it was.
LEMMA EventKeeps ==
    ASSUME NEW R, NEW D, NEW M, LaneChoices(R, D, M), LaneInv(R, D, M), Len(events) < M,
           NEW e \in EventOf(R, D, M), e.kind \notin {"assignment", "freeze"},
           events' = Append(events, e), head' = head, approved' \subseteq ApprovalOf(R, M), ~around'
    PROVE  LaneInv(R, D, M)'
  <1>1. LaneOrdered(R, D, M) /\ events \in Seq(EventOf(R, D, M))
    BY OrderedTypes DEF LaneInv
  <1>4. LaneOrdered(R, D, M)'
    BY <1>1, EventTypes
  <1>5. /\ Lane!Rebuilt(events') = Lane!Rebuilt(events)
        /\ Lane!Assignments(events') = Lane!Assignments(events)
    BY <1>1, RebuiltSame
  <1>6. Lane!ChampionsFollow'
    <2>1. Lane!ChampionsFollow /\ ~around
      BY DEF LaneInv
    <2> QED
      BY <1>1, <2>1, LineKept
  <1>7. Lane!HeadReplays'
    BY <1>5 DEF LaneInv, Lane!HeadReplays, Lane!Agrees
  <1> QED
    BY <1>4, <1>5, <1>6, <1>7 DEF LaneInv

\* An active lane has an assignment, and nobody froze it since.
LEMMA ActiveIsAssigned ==
    ASSUME NEW R, NEW D, NEW M, LaneInv(R, D, M), head.state = "active"
    PROVE  /\ Lane!Assignments(events) # {}
           /\ \A i \in 1..Len(events) : events[i].kind = "freeze" => i < head.sequence
  <1> DEFINE A == Lane!Assignments(events)
             last == Lane!Latest(A)
             F == Lane!FreezesAfter(events, last)
  <1>1. /\ head.state = Lane!Rebuilt(events).state /\ head.sequence = last
        /\ events \in Seq(EventOf(R, D, M))
    BY DEF LaneInv, LaneOrdered, LaneTyped, Lane!HeadReplays, Lane!Agrees
  <1>2. A # {}
    BY <1>1 DEF Lane!Rebuilt
  <1>3. Len(events) \in Nat /\ A \subseteq 1..Len(events)
    BY <1>1, LenProperties DEF Lane!Assignments
  <1>4. last \in A
    BY <1>2, <1>3, LatestExists
  <1>5. F = {}
    <2> HIDE DEF F, last
    <2>1. A # {} => Lane!Rebuilt(events).state = IF F = {} THEN "active" ELSE "frozen"
      BY DEF Lane!Rebuilt, F, last
    <2> QED
      BY <1>1, <1>2, <2>1
  <1>6. ASSUME NEW i \in 1..Len(events), events[i].kind = "freeze" PROVE i < head.sequence
    <2>1. i # last
      BY <1>4, <1>6 DEF Lane!Assignments
    <2>2. i \notin (last + 1)..Len(events)
      BY <1>5, <1>6 DEF Lane!FreezesAfter
    <2>3. last \in Nat /\ i \in Nat /\ i <= Len(events)
      BY <1>3, <1>4
    <2> HIDE DEF last
    <2> QED
      BY <1>1, <1>3, <2>1, <2>2, <2>3 DEF last
  <1> QED
    BY <1>2, <1>6

LEMMA FreezeKeeps ==
    ASSUME NEW R, NEW D, NEW M, LaneChoices(R, D, M), LaneInv(R, D, M), Len(events) < M, head.state = "active",
           NEW e \in EventOf(R, D, M), e.kind = "freeze",
           events' = Append(events, e), approved' = approved, around' = around,
           head' = [head EXCEPT !.state = "frozen", !.trigger = e.detail, !.sequence = Len(events) + 1]
    PROVE  LaneInv(R, D, M)'
  <1>1. /\ events \in Seq(EventOf(R, D, M)) /\ M \in Nat /\ head \in HeadOf(R, D, M)
        /\ LaneOrdered(R, D, M) /\ Len(events) \in Nat /\ head.sequence \in Nat /\ head.sequence <= Len(events)
        /\ approved \subseteq ApprovalOf(R, M)
    BY OrderedTypes DEF LaneInv
  <1>2. Appending(events, e, events')
    BY <1>1, Appended
  <1>3. e.detail \in D
    BY DEF EventOf
  <1>4. /\ Len(events) + 1 \in 1..Len(events') /\ head.sequence <= Len(events) + 1
        /\ events'[Len(events) + 1].kind \in {"freeze", "monitoring"}
    BY <1>1, <1>2 DEF Appending
  <1>5. /\ head'.state = "frozen" /\ head'.trigger = e.detail
        /\ head'.sequence = Len(events) + 1 /\ head'.champion = head.champion /\ head'.generation = head.generation
    BY <1>1 DEF HeadOf
  <1>6. LaneOrdered(R, D, M)'
    BY <1>1, <1>3, <1>4, EventTypes
  <1>7. /\ Lane!Rebuilt(events') = [state |-> "frozen", champion |-> Lane!Rebuilt(events).champion,
                                    generation |-> Lane!Rebuilt(events).generation, trigger |-> e.detail]
        /\ Lane!Assignments(events') = Lane!Assignments(events)
    BY <1>1, ActiveIsAssigned, RebuiltFrozen
  <1>8. Lane!ChampionsFollow'
    <2>1. Lane!ChampionsFollow /\ ~around
      BY DEF LaneInv
    <2> QED
      BY <1>1, <2>1, LineKept
  <1>9. Lane!HeadReplays'
    BY <1>5, <1>7 DEF LaneInv, Lane!HeadReplays, Lane!Agrees
  <1>10. \A i \in Lane!Assignments(events') : i <= head'.sequence
    BY <1>1, <1>2, <1>5, <1>7 DEF Appending
  <1> QED
    BY <1>5, <1>6, <1>7, <1>8, <1>9, <1>10 DEF LaneInv

LEMMA AssignmentKeeps ==
    ASSUME NEW R, NEW D, NEW M, LaneChoices(R, D, M), LaneInv(R, D, M), Len(events) < M,
           NEW a \in ApprovalOf(R, M), NEW key \in Lane!Keys, Lane!Unmoved(a),
           NEW e, e = [kind |-> "assignment", key |-> key, by |-> a], events' = Append(events, e),
           head' = Lane!Assigned(a, Len(events) + 1), approved' = approved, around' = around
    PROVE  LaneInv(R, D, M)'
  <1> DEFINE A == Lane!Assignments(events)
             n == Len(events)
  <1>1. e \in EventOf(R, D, M) /\ e.kind = "assignment" /\ e.by = a
    BY DEF EventOf
  <1>2. /\ events \in Seq(EventOf(R, D, M)) /\ LaneOrdered(R, D, M) /\ n \in Nat
        /\ ~around /\ head.generation = Cardinality(A) /\ Lane!ChampionsFollow /\ Lane!HeadReplays
    BY OrderedTypes DEF LaneInv
  <1>3. /\ LaneOrdered(R, D, M)' /\ head'.generation = head.generation + 1
        /\ head'.state = "active" /\ head'.trigger = NoTrigger /\ head'.sequence = n + 1
        /\ head'.champion = a.revision
    BY <1>2, AssignmentTypes
  <1>4. Appending(events, e, events')
    BY <1>1, <1>2, Appended
  <1>5. Lane!Assignments(events') = A \cup {n + 1} /\ A \in SUBSET (1..n)
    BY <1>1, <1>4 DEF Appending
  <1> HIDE DEF A, n
  <1>5a. \A j \in A : j \in Nat /\ j <= n
    BY <1>2, <1>5
  <1>6. \A j \in Lane!Assignments(events') : j \in Nat /\ j <= n + 1
    <2> TAKE j \in Lane!Assignments(events')
    <2>1. j \in A \/ j = n + 1
      BY <1>5
    <2> QED
      BY <1>2, <1>5a, <2>1
  <1>7. Lane!Latest(Lane!Assignments(events')) = n + 1
    <2>1. Lane!Assignments(events') \in SUBSET Nat /\ n + 1 \in Lane!Assignments(events')
      BY <1>5, <1>6
    <2> QED
      BY <1>6, <2>1, LatestIs
  <1>8. Cardinality(Lane!Assignments(events')) = Cardinality(A) + 1
    <2>1. IsFiniteSet(A)
      <3>1. IsFiniteSet(1..n)
        BY <1>2, CountTo
      <3> QED
        BY <1>5, <3>1, FS_Subset
    <2>2. n + 1 \notin A
      BY <1>2, <1>5a
    <2> QED
      BY <1>5, <2>1, <2>2, FS_AddElement
  <1>9. Lane!Rebuilt(events') = [state |-> "active", champion |-> a.revision,
                                 generation |-> a.generation + 1, trigger |-> NoTrigger]
    <2>1. Lane!Rebuilt(events') = [state |-> "active", champion |-> e.by.revision,
                                   generation |-> e.by.generation + 1, trigger |-> NoTrigger]
      BY ONLY <1>1, <1>2, events' = Append(events, e), RebuiltAssigned
    <2> QED
      BY ONLY <1>1, <2>1
  <1>10. a.generation = head.generation /\ a.champion = head.champion
    BY DEF Lane!Unmoved
  <1>11. Lane!ChampionsFollow'
    BY <1>1, <1>2, <1>10, LineExtended
  <1>12. Lane!HeadReplays'
    BY <1>3, <1>9, <1>10 DEF Lane!HeadReplays, Lane!Agrees
  <1> QED
    BY <1>2, <1>3, <1>6, <1>7, <1>8, <1>11, <1>12 DEF LaneInv, A

\* A lane, whichever: what always holds, and what holds as long as nothing was written
\* around its head.
LaneSound(R, D, M) == LaneOrdered(R, D, M) /\ (~around => LaneInv(R, D, M))

LEMMA LaneStarts ==
    ASSUME NEW R, NEW D, NEW M, LaneChoices(R, D, M),
           events = <<>>, head = Lane!Unassigned, approved = {}, around = FALSE
    PROVE  LaneSound(R, D, M) /\ LaneInv(R, D, M)
  <1>2. Len(events) = 0 /\ events \in Seq(EventOf(R, D, M)) /\ 0 \in 0..M
    BY DEF LaneChoices
  <1>3. Lane!Assignments(events) = {}
    BY <1>2 DEF Lane!Assignments
  <1>4. LaneTyped(R, D, M) /\ head.generation = 0 /\ head.sequence = 0 /\ head.state = "unassigned"
    BY <1>2 DEF LaneTyped, LaneChoices, HeadOf, Lane!Unassigned
  <1>5. Cardinality({}) = 0
    BY FS_EmptySet
  <1>6. LaneOrdered(R, D, M)
    BY <1>4 DEF LaneOrdered, FollowsItsEvent
  <1> QED
    BY <1>3, <1>4, <1>5, <1>6
    DEF LaneSound, LaneInv, Lane!HeadReplays, Lane!Agrees, Lane!Rebuilt, Lane!ChampionsFollow, Lane!Unassigned

LEMMA LaneStays ==
    ASSUME NEW R, NEW D, NEW M, LaneSound(R, D, M), UNCHANGED <<events, head, approved, around>>
    PROVE  LaneSound(R, D, M)'
  BY DEF LaneSound, LaneInv, LaneOrdered, LaneTyped, FollowsItsEvent, Lane!HeadReplays, Lane!Agrees, Lane!ChampionsFollow

\* A freeze found under its key is a freeze of long ago: it is no reason to freeze an
\* active lane again, unless something was written around the head.
LEMMA NoSecondFreeze ==
    ASSUME NEW R, NEW D, NEW M, LaneChoices(R, D, M), LaneInv(R, D, M), head.state = "active",
           NEW key, NEW i \in Lane!Holds(key), events[i].kind = "freeze", Lane!Forward(i)
    PROVE  FALSE
  <1>1. i \in 1..Len(events) /\ i >= head.sequence
    BY DEF Lane!Holds, Lane!Forward
  <1>2. head.sequence \in Nat
    BY OrderedTypes DEF LaneInv
  <1>3. i < head.sequence
    BY <1>1, ActiveIsAssigned
  <1> QED
    BY <1>1, <1>2, <1>3

\* Nor is an assignment found under its key one to come.
LEMMA NoSecondAssignment ==
    ASSUME NEW R, NEW D, NEW M, LaneChoices(R, D, M), LaneInv(R, D, M),
           NEW a \in ApprovalOf(R, M), NEW key, Lane!Unmoved(a),
           NEW i \in Lane!Holds(key), Lane!SameAssignment(events[i], a), Lane!Forward(i),
           events[i].kind = "assignment"
    PROVE  FALSE
  <1>1. i \in 1..Len(events) /\ head.sequence < i /\ head.sequence \in Nat
    BY FoundIsNewer, OrderedTypes DEF LaneInv
  <1>2. i <= head.sequence
    BY <1>1 DEF LaneInv, Lane!Assignments
  <1> QED
    BY <1>1, <1>2

LEMMA ApproveKeeps ==
    ASSUME NEW R, NEW D, NEW M, LaneChoices(R, D, M), LaneSound(R, D, M), Len(events) < M, NEW revision \in R,
           approved' = approved \cup {[revision |-> revision, generation |-> head.generation,
                                       champion |-> head.champion, at |-> Len(events)]},
           events' = Append(events, [kind |-> "approval", key |-> NoKey]), UNCHANGED <<head, around>>
    PROVE  LaneSound(R, D, M)'
  <1> DEFINE e == [kind |-> "approval", key |-> NoKey]
             a == [revision |-> revision, generation |-> head.generation, champion |-> head.champion, at |-> Len(events)]
  <1>1. e \in EventOf(R, D, M) /\ e.kind \notin {"assignment", "freeze"} /\ events' = Append(events, e)
    BY DEF EventOf
  <1>2. LaneOrdered(R, D, M)
    BY DEF LaneSound
  <1>3. /\ Len(events) \in Nat /\ M \in Nat /\ Len(events) <= M /\ head \in HeadOf(R, D, M)
        /\ approved \subseteq ApprovalOf(R, M)
    BY <1>2, OrderedTypes
  <1>4. approved' \subseteq ApprovalOf(R, M)
    <2>1. a \in ApprovalOf(R, M)
      BY <1>3 DEF HeadOf, ApprovalOf
    <2> QED
      BY <1>3, <2>1
  <1> HIDE DEF e, a
  <1>5. LaneOrdered(R, D, M)'
    BY <1>1, <1>2, <1>4, EventTypes
  <1>6. ~around' => LaneInv(R, D, M)'
    BY <1>1, <1>4, EventKeeps DEF LaneSound
  <1> QED
    BY <1>5, <1>6 DEF LaneSound

\* append_event, of every kind: what it leaves behind is ordered, and whole if it recorded
\* no move of the head.
LEMMA RecordKeeps ==
    ASSUME NEW R, NEW D, NEW M, LaneChoices(R, D, M), LaneSound(R, D, M), Len(events) < M,
           NEW e \in EventOf(R, D, M), events' = Append(events, e), UNCHANGED <<head, approved>>,
           around' = (around \/ e.kind \in {"assignment", "freeze"})
    PROVE  LaneSound(R, D, M)'
  <1>1. LaneOrdered(R, D, M) /\ approved' \subseteq ApprovalOf(R, M)
    BY OrderedTypes DEF LaneSound
  <1>2. LaneOrdered(R, D, M)'
    BY <1>1, EventTypes
  <1>3. ASSUME ~around' PROVE LaneInv(R, D, M)'
    <2>1. ~around /\ e.kind \notin {"assignment", "freeze"}
      BY <1>3
    <2>2. LaneInv(R, D, M)
      BY <2>1 DEF LaneSound
    <2> QED
      BY <1>1, <1>3, <2>1, <2>2, EventKeeps
  <1> QED
    BY <1>2, <1>3 DEF LaneSound

\* What append_event is given, of the kinds in K, is an event of the lane.
RecordableOf(D, K) ==
    [kind : K \cap {"assignment", "request"}, key : Lane!Keys, by : approved]
    \cup [kind : K \cap {"freeze", "monitoring"}, key : Lane!Keys, detail : D]

LEMMA RecordedIsEvent ==
    ASSUME NEW R, NEW D, NEW M, NEW K, LaneTyped(R, D, M), NEW e \in RecordableOf(D, K)
    PROVE  e \in EventOf(R, D, M)
  BY DEF RecordableOf, EventOf, LaneTyped

LEMMA AssignKeeps ==
    ASSUME NEW R, NEW D, NEW M, LaneChoices(R, D, M), LaneSound(R, D, M), Len(events) < M,
           NEW a \in approved, NEW key \in Lane!Keys, Lane!Unmoved(a),
           events' = Append(events, [kind |-> "assignment", key |-> key, by |-> a]),
           head' = Lane!Assigned(a, Len(events) + 1), UNCHANGED <<approved, around>>
    PROVE  LaneSound(R, D, M)'
  <1>1. LaneOrdered(R, D, M) /\ a \in ApprovalOf(R, M)
    BY OrderedTypes DEF LaneSound
  <1>2. LaneOrdered(R, D, M)'
    BY <1>1, AssignmentTypes
  <1>3. ~around' => LaneInv(R, D, M)'
    BY <1>1, AssignmentKeeps DEF LaneSound
  <1> QED
    BY <1>2, <1>3 DEF LaneSound

LEMMA FoundKeeps ==
    ASSUME NEW R, NEW D, NEW M, LaneChoices(R, D, M), LaneSound(R, D, M),
           NEW a \in approved, NEW key, Lane!Unmoved(a),
           NEW i \in Lane!Holds(key), Lane!SameAssignment(events[i], a), Lane!Forward(i),
           head' = Lane!Assigned(a, i), UNCHANGED <<events, approved>>,
           around' = (around \/ events[i].kind # "assignment")
    PROVE  LaneSound(R, D, M)' /\ around'
  <1>1. LaneOrdered(R, D, M) /\ a \in ApprovalOf(R, M)
    BY OrderedTypes DEF LaneSound
  <1>2. LaneOrdered(R, D, M)'
    BY <1>1, FoundTypes
  <1>3. around'
    BY <1>1, NoSecondAssignment DEF LaneSound
  <1> QED
    BY <1>2, <1>3 DEF LaneSound

LEMMA NewFreezeKeeps ==
    ASSUME NEW R, NEW D, NEW M, LaneChoices(R, D, M), LaneSound(R, D, M), Len(events) < M, head.state = "active",
           NEW detail \in D, NEW key \in Lane!Keys,
           events' = Append(events, [kind |-> "freeze", key |-> key, detail |-> detail]),
           head' = Lane!Frozen(detail, Len(events) + 1), UNCHANGED <<approved, around>>
    PROVE  LaneSound(R, D, M)'
  <1> DEFINE e == [kind |-> "freeze", key |-> key, detail |-> detail]
  <1>1. e \in EventOf(R, D, M) /\ e.kind = "freeze" /\ e.detail = detail /\ events' = Append(events, e)
    BY DEF EventOf
  <1> HIDE DEF e
  <1>2. head' = [head EXCEPT !.state = "frozen", !.trigger = e.detail, !.sequence = Len(events) + 1]
    BY <1>1 DEF Lane!Frozen
  <1>3. /\ LaneOrdered(R, D, M) /\ approved' \subseteq ApprovalOf(R, M) /\ events \in Seq(EventOf(R, D, M))
        /\ head.sequence \in Nat /\ head.sequence <= Len(events) /\ Len(events) \in Nat
    BY OrderedTypes DEF LaneSound
  <1>4. Appending(events, e, events')
    BY <1>1, <1>3, Appended
  <1>5. /\ Len(events) + 1 \in 1..Len(events') /\ head.sequence <= Len(events) + 1
        /\ events'[Len(events) + 1].kind \in {"freeze", "monitoring"}
    BY <1>1, <1>3, <1>4 DEF Appending
  <1>6. LaneOrdered(R, D, M)'
    BY <1>1, <1>2, <1>3, <1>5, EventTypes
  <1>7. ~around' => LaneInv(R, D, M)'
    BY <1>1, <1>2, FreezeKeeps DEF LaneSound
  <1> QED
    BY <1>6, <1>7 DEF LaneSound

LEMMA FoundFreezeKeeps ==
    ASSUME NEW R, NEW D, NEW M, LaneChoices(R, D, M), LaneSound(R, D, M), head.state = "active",
           NEW detail \in D, NEW key, NEW i \in Lane!Holds(key),
           Lane!SameFreeze(events[i], detail), Lane!Forward(i),
           head' = Lane!Frozen(detail, i), UNCHANGED <<events, approved>>,
           around' = (around \/ events[i].kind # "freeze")
    PROVE  LaneSound(R, D, M)'
  <1>1. LaneOrdered(R, D, M) /\ approved' \subseteq ApprovalOf(R, M) /\ head.sequence \in Nat
    BY OrderedTypes DEF LaneSound
  <1>2. /\ i \in 1..Len(events') /\ head.sequence <= i /\ events'[i].kind \in {"freeze", "monitoring"}
        /\ head' = [head EXCEPT !.state = "frozen", !.trigger = detail, !.sequence = i]
    BY <1>1 DEF Lane!Holds, Lane!Forward, Lane!SameFreeze, Lane!Frozen
  <1>3. LaneOrdered(R, D, M)'
    BY <1>1, <1>2, EventTypes
  <1>4. around'
    BY NoSecondFreeze DEF LaneSound
  <1> QED
    BY <1>3, <1>4 DEF LaneSound

\* What a step does to a lane: nothing, or what one of its writers does.
LaneStep(R, D, M, K) ==
    \/ UNCHANGED <<events, head, approved, around>>
    \/ /\ Len(events) < M /\ UNCHANGED <<head, around>>
       /\ events' = Append(events, [kind |-> "approval", key |-> NoKey])
       /\ \E revision \in R :
             approved' = approved \cup {[revision |-> revision, generation |-> head.generation,
                                         champion |-> head.champion, at |-> Len(events)]}
    \/ /\ Len(events) < M /\ UNCHANGED <<head, approved>>
       /\ \E e \in RecordableOf(D, K) : /\ events' = Append(events, e)
                                        /\ around' = (around \/ e.kind \in {"assignment", "freeze"})
    \/ /\ UNCHANGED approved
       /\ \E a \in approved, key \in Lane!Keys :
             /\ Lane!Unmoved(a)
             /\ \/ /\ Len(events) < M /\ UNCHANGED around
                   /\ events' = Append(events, [kind |-> "assignment", key |-> key, by |-> a])
                   /\ head' = Lane!Assigned(a, Len(events) + 1)
                \/ /\ UNCHANGED events
                   /\ \E i \in Lane!Holds(key) :
                         /\ Lane!SameAssignment(events[i], a) /\ Lane!Forward(i)
                         /\ head' = Lane!Assigned(a, i)
                         /\ around' = (around \/ events[i].kind # "assignment")
    \/ /\ UNCHANGED approved /\ head.state = "active"
       /\ \E detail \in D, key \in Lane!Keys :
             \/ /\ Len(events) < M /\ UNCHANGED around
                /\ events' = Append(events, [kind |-> "freeze", key |-> key, detail |-> detail])
                /\ head' = Lane!Frozen(detail, Len(events) + 1)
             \/ /\ UNCHANGED events
                /\ \E i \in Lane!Holds(key) :
                      /\ Lane!SameFreeze(events[i], detail) /\ Lane!Forward(i)
                      /\ head' = Lane!Frozen(detail, i)
                      /\ around' = (around \/ events[i].kind # "freeze")

LEMMA LaneIsStep == [Lane!Next]_laneVars => LaneStep(Revisions, Details, MaxEvents, RecordKinds)
  <1> DEFINE Step == LaneStep(Revisions, Details, MaxEvents, RecordKinds)
  <1>1. ASSUME NEW revision \in Revisions, Lane!Approve(revision) PROVE Step
    BY <1>1 DEF Lane!Approve, Lane!HasRoom, LaneStep
  <1>2. ASSUME NEW e \in Lane!Recordable, Lane!Record(e) PROVE Step
    BY <1>2 DEF Lane!Recordable, RecordableOf, Lane!Record, Lane!HasRoom, LaneStep
  <1>3. ASSUME NEW a \in approved, NEW key \in Lane!Keys, Lane!ApplyAssignment(a, key) PROVE Step
    BY <1>3 DEF Lane!ApplyAssignment, Lane!HasRoom, LaneStep
  <1>4. ASSUME NEW detail \in Details, NEW key \in Lane!Keys, Lane!Freeze(detail, key) PROVE Step
    BY <1>4 DEF Lane!Freeze, Lane!HasRoom, LaneStep
  <1>5. ASSUME UNCHANGED <<events, head, approved, around>> PROVE Step
    BY <1>5 DEF LaneStep
  <1> QED
    BY <1>1, <1>2, <1>3, <1>4, <1>5 DEF Lane!Next, Lane!Write, Lane!LoadEvents, Lane!ReadHead, laneVars

LEMMA WriteIsStep == Queries!Write => LaneStep(ReadRevisions, ReadDetails, MaxReadEvents, ReadKinds)
  <1> DEFINE Step == LaneStep(ReadRevisions, ReadDetails, MaxReadEvents, ReadKinds)
  <1>1. ASSUME NEW revision \in ReadRevisions, Queries!Approve(revision) PROVE Step
    BY <1>1 DEF Queries!Approve, Queries!HasRoom, LaneStep
  <1>2. ASSUME NEW e \in Queries!Recordable, Queries!Record(e) PROVE Step
    BY <1>2 DEF Queries!Recordable, RecordableOf, Queries!Keys, Lane!Keys, Queries!Record, Queries!HasRoom, LaneStep
  <1>3. ASSUME NEW a \in approved, NEW key \in Queries!Keys, Queries!ApplyAssignment(a, key) PROVE Step
    <2>1. /\ UNCHANGED approved /\ Lane!Unmoved(a) /\ key \in Lane!Keys
          /\ \/ /\ Len(events) < MaxReadEvents /\ UNCHANGED around
                /\ events' = Append(events, [kind |-> "assignment", key |-> key, by |-> a])
                /\ head' = Lane!Assigned(a, Len(events) + 1)
             \/ /\ UNCHANGED events
                /\ \E i \in Lane!Holds(key) :
                      /\ Lane!SameAssignment(events[i], a) /\ Lane!Forward(i)
                      /\ head' = Lane!Assigned(a, i)
                      /\ around' = (around \/ events[i].kind # "assignment")
      BY <1>3 DEF Queries!ApplyAssignment, Queries!HasRoom, Queries!Keys, Lane!Keys, Queries!Unmoved, Lane!Unmoved,
                  Queries!Assigned, Lane!Assigned, Queries!Holds, Lane!Holds, Queries!SameAssignment,
                  Lane!SameAssignment, Queries!Forward, Lane!Forward
    <2> QED
      BY <2>1 DEF LaneStep
  <1>4. ASSUME NEW detail \in ReadDetails, NEW key \in Queries!Keys, Queries!Freeze(detail, key) PROVE Step
    <2>1. /\ UNCHANGED approved /\ head.state = "active" /\ key \in Lane!Keys
          /\ \/ /\ Len(events) < MaxReadEvents /\ UNCHANGED around
                /\ events' = Append(events, [kind |-> "freeze", key |-> key, detail |-> detail])
                /\ head' = Lane!Frozen(detail, Len(events) + 1)
             \/ /\ UNCHANGED events
                /\ \E i \in Lane!Holds(key) :
                      /\ Lane!SameFreeze(events[i], detail) /\ Lane!Forward(i)
                      /\ head' = Lane!Frozen(detail, i)
                      /\ around' = (around \/ events[i].kind # "freeze")
      BY <1>4 DEF Queries!Freeze, Queries!HasRoom, Queries!Keys, Lane!Keys, Queries!Frozen, Lane!Frozen,
                  Queries!Holds, Lane!Holds, Queries!SameFreeze, Lane!SameFreeze, Queries!Forward, Lane!Forward
    <2> QED
      BY <2>1 DEF LaneStep
  <1> QED
    BY <1>1, <1>2, <1>3, <1>4 DEF Queries!Write

\* Nothing is taken back, and a freeze is cleared by an assignment alone.
Forth == head'.generation >= head.generation /\ Len(events') >= Len(events) /\ (around => around')

Thaws == (head.state = "frozen" /\ head' # head) =>
            /\ head'.generation = head.generation + 1
            /\ Len(events') = Len(events) + 1 \/ around'

LEMMA StepKeeps ==
    ASSUME NEW R, NEW D, NEW M, NEW K, LaneChoices(R, D, M), LaneSound(R, D, M), LaneStep(R, D, M, K)
    PROVE  LaneSound(R, D, M)' /\ Forth /\ Thaws
  <1>0. /\ LaneTyped(R, D, M) /\ events \in Seq(EventOf(R, D, M)) /\ Len(events) \in Nat
        /\ head \in HeadOf(R, D, M) /\ head.generation \in Nat
    BY OrderedTypes DEF LaneSound, LaneOrdered
  <1>1. ASSUME NEW e, events' = Append(events, e) PROVE Len(events') = Len(events) + 1
    BY <1>0, <1>1
  <1>2. ASSUME NEW a, NEW sequence, Lane!Unmoved(a), head' = Lane!Assigned(a, sequence)
        PROVE  head'.generation = head.generation + 1
    BY <1>0, <1>2 DEF Lane!Assigned, Lane!Unmoved, HeadOf
  <1>3. ASSUME NEW detail, NEW sequence, head' = Lane!Frozen(detail, sequence)
        PROVE  head'.generation = head.generation
    BY <1>0, <1>3 DEF Lane!Frozen, HeadOf
  <1>4. CASE UNCHANGED <<events, head, approved, around>>
    <2>1. LaneSound(R, D, M)'
      BY <1>4, LaneStays
    <2> QED
      BY <1>0, <1>4, <2>1 DEF Forth, Thaws
  <1>5. ASSUME Len(events) < M, UNCHANGED <<head, around>>,
               events' = Append(events, [kind |-> "approval", key |-> NoKey]), NEW revision \in R,
               approved' = approved \cup {[revision |-> revision, generation |-> head.generation,
                                           champion |-> head.champion, at |-> Len(events)]}
        PROVE  LaneSound(R, D, M)' /\ Forth /\ Thaws
    <2>1. LaneSound(R, D, M)'
      BY <1>5, ApproveKeeps
    <2>2. Len(events') = Len(events) + 1
      BY <1>1, <1>5
    <2> QED
      BY <1>0, <1>5, <2>1, <2>2 DEF Forth, Thaws
  <1>6. ASSUME Len(events) < M, UNCHANGED <<head, approved>>, NEW e \in RecordableOf(D, K),
               events' = Append(events, e), around' = (around \/ e.kind \in {"assignment", "freeze"})
        PROVE  LaneSound(R, D, M)' /\ Forth /\ Thaws
    <2>1. LaneSound(R, D, M)'
      BY <1>0, <1>6, RecordedIsEvent, RecordKeeps
    <2>2. Len(events') = Len(events) + 1 /\ (around => around')
      BY <1>1, <1>6
    <2> QED
      BY <1>0, <1>6, <2>1, <2>2 DEF Forth, Thaws
  <1>7. ASSUME UNCHANGED <<approved, around>>, NEW a \in approved, NEW key \in Lane!Keys, Lane!Unmoved(a), Len(events) < M,
               events' = Append(events, [kind |-> "assignment", key |-> key, by |-> a]),
               head' = Lane!Assigned(a, Len(events) + 1)
        PROVE  LaneSound(R, D, M)' /\ Forth /\ Thaws
    <2>1. LaneSound(R, D, M)'
      BY <1>7, AssignKeeps
    <2>2. head'.generation = head.generation + 1 /\ Len(events') = Len(events) + 1
      BY <1>1, <1>2, <1>7
    <2> QED
      BY <1>0, <1>7, <2>1, <2>2 DEF Forth, Thaws
  <1>8. ASSUME UNCHANGED <<approved, events>>, NEW a \in approved, NEW key \in Lane!Keys, Lane!Unmoved(a),
               NEW i \in Lane!Holds(key), Lane!SameAssignment(events[i], a), Lane!Forward(i),
               head' = Lane!Assigned(a, i), around' = (around \/ events[i].kind # "assignment")
        PROVE  LaneSound(R, D, M)' /\ Forth /\ Thaws
    <2>1. LaneSound(R, D, M)' /\ around'
      BY <1>8, FoundKeeps
    <2>2. head'.generation = head.generation + 1 /\ Len(events') = Len(events)
      BY <1>2, <1>8
    <2> QED
      BY <1>0, <2>1, <2>2 DEF Forth, Thaws
  <1>9. ASSUME UNCHANGED <<approved, around>>, head.state = "active", NEW detail \in D, NEW key \in Lane!Keys,
               Len(events) < M, events' = Append(events, [kind |-> "freeze", key |-> key, detail |-> detail]),
               head' = Lane!Frozen(detail, Len(events) + 1)
        PROVE  LaneSound(R, D, M)' /\ Forth /\ Thaws
    <2>1. LaneSound(R, D, M)'
      BY <1>9, NewFreezeKeeps
    <2>2. head'.generation = head.generation /\ Len(events') = Len(events) + 1
      BY <1>1, <1>3, <1>9
    <2> QED
      BY <1>0, <1>9, <2>1, <2>2 DEF Forth, Thaws
  <1>10. ASSUME UNCHANGED <<approved, events>>, head.state = "active", NEW detail \in D, NEW key \in Lane!Keys,
                NEW i \in Lane!Holds(key), Lane!SameFreeze(events[i], detail), Lane!Forward(i),
                head' = Lane!Frozen(detail, i), around' = (around \/ events[i].kind # "freeze")
         PROVE  LaneSound(R, D, M)' /\ Forth /\ Thaws
    <2>1. LaneSound(R, D, M)'
      BY <1>10, FoundFreezeKeeps
    <2>2. head'.generation = head.generation /\ Len(events') = Len(events) /\ (around => around')
      BY <1>3, <1>10
    <2> QED
      BY <1>0, <1>10, <2>1, <2>2 DEF Forth, Thaws
  <1> QED
    BY <1>4, <1>5, <1>6, <1>7, <1>8, <1>9, <1>10 DEF LaneStep

\* The lane of the part "lane", and the one the part "queries" reads.
TheLane == LaneSound(Revisions, Details, MaxEvents)

TheReadLane == LaneSound(ReadRevisions, ReadDetails, MaxReadEvents)

LEMMA LaneInitially == Lane!Init => TheLane
  <1> SUFFICES ASSUME Lane!Init PROVE TheLane
    OBVIOUS
  <1>1. LaneChoices(Revisions, Details, MaxEvents)
    BY LaneAssumption DEF LaneChoices
  <1>2. events = <<>> /\ head = Lane!Unassigned /\ approved = {} /\ around = FALSE
    BY DEF Lane!Init
  <1> QED
    BY <1>1, <1>2, LaneStarts DEF TheLane

LEMMA LaneNext == TheLane /\ [Lane!Next]_laneVars => TheLane' /\ Thaws
  <1>1. LaneChoices(Revisions, Details, MaxEvents)
    BY LaneAssumption DEF LaneChoices
  <1> QED
    BY <1>1, LaneIsStep, StepKeeps DEF TheLane

LEMMA ReadLaneWrites ==
    ASSUME TheReadLane, Queries!Write
    PROVE  TheReadLane' /\ Forth /\ Thaws
  <1>1. LaneChoices(ReadRevisions, ReadDetails, MaxReadEvents)
    BY LaneReadsAssumption DEF LaneChoices
  <1> QED
    BY <1>1, WriteIsStep, StepKeeps DEF TheReadLane

\* The numbers of a lane that is read.
LEMMA ReadLaneTypes ==
    ASSUME TheReadLane
    PROVE  /\ head \in HeadOf(ReadRevisions, ReadDetails, MaxReadEvents) /\ head.generation \in Nat
           /\ Len(events) \in Nat /\ MaxReadEvents \in Nat /\ Len(events) <= MaxReadEvents
           /\ Cardinality(Lane!Assignments(events)) \in Nat
           /\ Cardinality(Lane!Assignments(events)) <= Len(events)
           /\ ~around => head.generation = Cardinality(Lane!Assignments(events))
  <1>1. LaneChoices(ReadRevisions, ReadDetails, MaxReadEvents)
    BY LaneReadsAssumption DEF LaneChoices
  <1>2. /\ head \in HeadOf(ReadRevisions, ReadDetails, MaxReadEvents) /\ head.generation \in Nat
        /\ Len(events) \in Nat /\ MaxReadEvents \in Nat /\ Len(events) <= MaxReadEvents
    BY <1>1, OrderedTypes DEF TheReadLane, LaneSound
  <1> DEFINE A == Lane!Assignments(events)
             n == Len(events)
  <1>3. A \in SUBSET (1..n)
    BY DEF Lane!Assignments
  <1>4. ~around => head.generation = Cardinality(A)
    BY DEF TheReadLane, LaneSound, LaneInv
  <1> HIDE DEF A, n
  <1>5. Cardinality(A) \in Nat /\ Cardinality(A) <= n
    <2>1. n \in Nat
      BY <1>2 DEF n
    <2>2. IsFiniteSet(1..n) /\ Cardinality(1..n) = n
      BY <2>1, CountTo
    <2> QED
      BY <1>3, <2>2, FS_Subset, FS_CardinalityType
  <1> QED
    BY <1>2, <1>4, <1>5 DEF A, n

-----------------------------------------------------------------------------
\* Pages of the lanes (LaneReads).

PagerRecord == [cursor : Nat, seen : Seq(Nat), expected : SUBSET Nat, ended : BOOLEAN]

Increasing(s) == \A m, n \in 1..Len(s) : m < n => s[m] < s[n]

\* A page that follows on what was seen up to a cursor, and is all up to the next.
Follows(seen, cursor, page, last) ==
    /\ seen \in Seq(Nat) /\ page \in Seq(Nat) /\ cursor \in Nat /\ last \in Nat
    /\ \A n \in 1..Len(seen) : seen[n] <= cursor
    /\ \A n \in 1..Len(page) : cursor < page[n] /\ page[n] <= last
    /\ Increasing(seen) /\ Increasing(page) /\ cursor <= last

Together(all, seen, page, last) ==
    /\ \A n \in 1..Len(all) : all[n] <= last
    /\ Increasing(all)
    /\ \A n \in 1..Len(seen) : \E k \in 1..Len(all) : all[k] = seen[n]
    /\ \A n \in 1..Len(page) : \E k \in 1..Len(all) : all[k] = page[n]

LEMMA PageExtends ==
    ASSUME NEW seen, NEW page, NEW cursor, NEW last, Follows(seen, cursor, page, last)
    PROVE  Together(seen \o page, seen, page, last)
  <1> DEFINE a == Len(seen)
             b == Len(page)
             all == seen \o page
  <1>0. seen \in Seq(Nat) /\ page \in Seq(Nat) /\ cursor \in Nat /\ last \in Nat /\ cursor <= last
    BY DEF Follows
  <1>1. a \in Nat /\ b \in Nat /\ Len(all) = a + b
    BY <1>0, LenProperties, ConcatProperties
  <1>2. \A n \in 1..(a + b) : all[n] = IF n <= a THEN seen[n] ELSE page[n - a]
    BY <1>0, ConcatProperties
  <1>3. /\ \A n \in 1..a : seen[n] \in Nat /\ seen[n] <= cursor
        /\ \A n \in 1..b : page[n] \in Nat /\ cursor < page[n] /\ page[n] <= last
    BY <1>0, LenProperties DEF Follows
  <1>4. \A m, n \in 1..a : m < n => seen[m] < seen[n]
    BY DEF Increasing, Follows
  <1>5. \A m, n \in 1..b : m < n => page[m] < page[n]
    BY DEF Increasing, Follows
  <1> HIDE DEF a, b, all, Together
  <1>6. ASSUME NEW n \in 1..(a + b) PROVE (n \in 1..a /\ all[n] = seen[n]) \/ (n - a \in 1..b /\ all[n] = page[n - a])
    BY <1>1, <1>2
  <1>7. ASSUME NEW n \in 1..(a + b) PROVE all[n] <= last
    <2>1. CASE n \in 1..a /\ all[n] = seen[n]
      BY <1>0, <1>3, <2>1
    <2>2. CASE n - a \in 1..b /\ all[n] = page[n - a]
      BY <1>0, <1>3, <2>2
    <2> QED
      BY <1>6, <2>1, <2>2
  <1>8. ASSUME NEW m \in 1..(a + b), NEW n \in 1..(a + b), m < n PROVE all[m] < all[n]
    <2>1. CASE n \in 1..a /\ all[n] = seen[n]
      <3>1. m \in 1..a /\ all[m] = seen[m]
        BY <1>1, <1>2, <1>8, <2>1
      <3> QED
        BY <1>4, <1>8, <2>1, <3>1
    <2>2. CASE n - a \in 1..b /\ all[n] = page[n - a]
      <3>1. CASE m \in 1..a /\ all[m] = seen[m]
        BY <1>0, <1>3, <2>2, <3>1
      <3>2. CASE m - a \in 1..b /\ all[m] = page[m - a]
        <4>1. m - a < n - a
          BY <1>1, <1>8
        <4> QED
          BY <1>5, <2>2, <3>2, <4>1
      <3> QED
        BY <1>6, <3>1, <3>2
    <2> QED
      BY <1>6, <2>1, <2>2
  <1>9. ASSUME NEW n \in 1..a PROVE n \in 1..(a + b) /\ all[n] = seen[n]
    BY <1>1, <1>2
  <1>10. ASSUME NEW n \in 1..b PROVE a + n \in 1..(a + b) /\ all[a + n] = page[n]
    <2>1. a + n \in 1..(a + b) /\ ~(a + n <= a) /\ (a + n) - a = n
      BY <1>1
    <2> QED
      BY <1>2, <2>1
  <1>11. Increasing(all)
    BY <1>1, <1>8 DEF Increasing
  <1> QED
    BY <1>1, <1>7, <1>9, <1>10, <1>11 DEF a, b, all, Together

\* The first elements of a set, in their order.
FirstOf(S, size) == [n \in 1..size |-> Nth(S, n)]

LEMMA FirstOnes ==
    ASSUME NEW S \in SUBSET Nat, IsFiniteSet(S), NEW size \in 0..Cardinality(S)
    PROVE  /\ FirstOf(S, size) \in Seq(Nat) /\ Len(FirstOf(S, size)) = size /\ size \in Nat
           /\ \A n \in 1..size : FirstOf(S, size)[n] \in S
           /\ Increasing(FirstOf(S, size))
           /\ \A id \in S : \/ \E n \in 1..size : FirstOf(S, size)[n] = id
                            \/ /\ size < Cardinality(S)
                               /\ \A n \in 1..size : FirstOf(S, size)[n] < id
  <1> DEFINE page == FirstOf(S, size)
  <1>1. Cardinality(S) \in Nat /\ size \in Nat
    BY FS_CardinalityType
  <1>2. \A n \in 1..size : n \in 1..Cardinality(S)
    BY <1>1
  <1>3. \A n \in 1..size : page[n] = Nth(S, n) /\ Nth(S, n) \in S
    BY <1>2, NthHasItsRank DEF FirstOf
  <1>4. page \in [1..size -> Nat]
    BY <1>3 DEF FirstOf
  <1>5. page \in Seq(Nat) /\ Len(page) = size
    BY <1>1, <1>4, LenProperties
  <1>6. \A m, n \in 1..size : m < n => page[m] < page[n]
    BY <1>2, <1>3, NthGrows
  <1>7. ASSUME NEW id \in S, ~\E n \in 1..size : page[n] = id
        PROVE  size < Cardinality(S) /\ \A n \in 1..size : page[n] < id
    <2> DEFINE r == Cardinality(UpTo(S, id))
    <2>1. r \in 1..Cardinality(S) /\ Nth(S, r) = id
      BY RankTells
    <2> HIDE DEF r
    <2>2. r \notin 1..size
      BY <1>3, <1>7, <2>1
    <2>3. size < r /\ r <= Cardinality(S) /\ r \in Nat
      BY <1>1, <2>1, <2>2
    <2>4. ASSUME NEW n \in 1..size PROVE page[n] < id
      <3>1. n < r
        BY <1>1, <2>3
      <3>2. Nth(S, n) < Nth(S, r)
        BY <1>2, <2>1, <3>1, NthGrows
      <3> QED
        BY <1>3, <2>1, <3>2
    <2> QED
      BY <1>1, <2>3, <2>4
  <1> QED
    BY <1>1, <1>3, <1>5, <1>6, <1>7 DEF Increasing

\* Every lane that is awaited was seen, or comes behind the cursor.
PagerHolds(g, ids) ==
    /\ g \in PagerRecord /\ g.expected \subseteq ids
    /\ \A n \in 1..Len(g.seen) : g.seen[n] <= g.cursor
    /\ Increasing(g.seen)
    /\ \A id \in g.expected : (g.ended \/ id <= g.cursor) => \E n \in 1..Len(g.seen) : g.seen[n] = id

\* A page: the first ones of those behind the cursor, S.
LEMMA PageTurned ==
    ASSUME NEW g, NEW ids, PagerHolds(g, ids), ids \subseteq Nat, IsFiniteSet(ids),
           NEW S, S = {id \in ids : id > g.cursor}, NEW size \in 0..Cardinality(S),
           NEW new \in PagerRecord,
           new.seen = g.seen \o FirstOf(S, size), new.expected = g.expected,
           new.cursor = IF size = 0 THEN g.cursor ELSE FirstOf(S, size)[size],
           new.ended => size = Cardinality(S)
    PROVE  PagerHolds(new, ids)
  <1> DEFINE page == FirstOf(S, size)
  <1>1. S \in SUBSET Nat /\ IsFiniteSet(S)
    <2>1. S \in SUBSET ids /\ S \in SUBSET Nat
      OBVIOUS
    <2> QED
      BY <2>1, FS_Subset
  <1>2. /\ page \in Seq(Nat) /\ Len(page) = size /\ size \in Nat
        /\ \A n \in 1..size : page[n] \in S
        /\ Increasing(page)
    BY <1>1, FirstOnes
  <1>3. \A id \in S : \/ \E n \in 1..size : page[n] = id
                      \/ size < Cardinality(S) /\ \A n \in 1..size : page[n] < id
    BY <1>1, FirstOnes
  <1>4. /\ g.seen \in Seq(Nat) /\ g.cursor \in Nat /\ Increasing(g.seen)
        /\ \A n \in 1..Len(g.seen) : g.seen[n] <= g.cursor
    BY DEF PagerHolds, PagerRecord
  <1> HIDE DEF page
  <1>5. \A n \in 1..size : page[n] \in Nat /\ page[n] > g.cursor
    BY <1>1, <1>2
  <1>6. /\ new.cursor \in Nat /\ g.cursor <= new.cursor
        /\ size = 0 => new.cursor = g.cursor
        /\ size # 0 => size \in 1..size /\ new.cursor = page[size]
    <2>1. size # 0 => size \in 1..size
      BY <1>2
    <2> QED
      BY <1>4, <1>5, <2>1 DEF page
  <1>7. \A n \in 1..size : page[n] <= new.cursor
    <2> SUFFICES ASSUME NEW n \in 1..size PROVE page[n] <= new.cursor
      OBVIOUS
    <2>1. new.cursor = page[size] /\ size \in 1..size /\ (n = size \/ n < size)
      BY <1>2, <1>6
    <2>2. n < size => page[n] < page[size]
      BY <1>2, <2>1 DEF Increasing
    <2> QED
      BY <1>5, <2>1, <2>2
  <1>8. /\ \A n \in 1..Len(new.seen) : new.seen[n] <= new.cursor
        /\ Increasing(new.seen)
        /\ \A n \in 1..Len(g.seen) : \E k \in 1..Len(new.seen) : new.seen[k] = g.seen[n]
        /\ \A n \in 1..size : \E k \in 1..Len(new.seen) : new.seen[k] = page[n]
    <2>1. new.seen = g.seen \o page
      BY DEF page
    <2>2. Follows(g.seen, g.cursor, page, new.cursor)
      BY <1>2, <1>4, <1>5, <1>6, <1>7 DEF Follows
    <2> QED
      <3>1. Together(g.seen \o page, g.seen, page, new.cursor)
        BY <2>2, PageExtends
      <3>2. Together(new.seen, g.seen, page, new.cursor)
        BY <2>1, <3>1
      <3> QED
        BY <1>2, <3>2 DEF Together
  <1>9. ASSUME NEW id \in new.expected, new.ended \/ id <= new.cursor
        PROVE  \E k \in 1..Len(new.seen) : new.seen[k] = id
    <2>1. id \in ids /\ id \in Nat
      BY DEF PagerHolds
    <2>2. CASE id <= g.cursor
      <3>1. PICK n \in 1..Len(g.seen) : g.seen[n] = id
        BY <2>2 DEF PagerHolds
      <3> QED
        BY <1>8, <3>1
    <2>3. CASE id > g.cursor
      <3>1. id \in S
        BY <2>1, <2>3
      <3>2. CASE \E n \in 1..size : page[n] = id
        BY <1>8, <3>2
      <3>3. ASSUME size < Cardinality(S), \A n \in 1..size : page[n] < id PROVE FALSE
        <4>1. ~new.ended
          <5>1. Cardinality(S) \in Nat
            BY <1>1, FS_CardinalityType
          <5> QED
            BY <1>2, <3>3, <5>1
        <4>2. id <= new.cursor
          BY <1>9, <4>1
        <4>3. size # 0
          BY <1>4, <1>6, <2>1, <2>3, <4>2
        <4>4. page[size] < id /\ new.cursor = page[size]
          BY <1>6, <3>3, <4>3
        <4> QED
          BY <1>6, <2>1, <4>2, <4>4
      <3> QED
        BY <1>3, <3>1, <3>2, <3>3
    <2>4. id <= g.cursor \/ id > g.cursor
      BY <1>4, <2>1
    <2> QED
      BY <2>2, <2>3, <2>4
  <1> QED
    BY <1>8, <1>9 DEF PagerHolds

-----------------------------------------------------------------------------
\* A request for one lane (LaneReads), while the lane moves.

Progress == {<<>>, <<"head">>, <<"head", "counts">>, <<"head", "counts", "chain">>,
             <<"head", "counts", "chain", "events">>}

RequestRecord == [done : Progress, head : HeadOf(ReadRevisions, ReadDetails, MaxReadEvents),
                  counts : [assignments : Nat, all : Nat], doubtful : SUBSET Nat, verified : BOOLEAN,
                  rows : Nat, shown : SUBSET Nat]

\* What was read so far, of a lane with this generation and this many events by now; whether
\* something was written around its head by now, too.
RequestHolds(q, split, generation, length, changed) ==
    /\ q \in RequestRecord /\ q.doubtful \subseteq changed
    /\ Len(q.done) >= 1 => q.head.generation <= generation
    /\ Len(q.done) >= 2 => q.counts.all <= length /\ (~split => q.head.generation <= q.counts.assignments)
    /\ Len(q.done) >= 3 => q.counts.all <= q.rows
    /\ Len(q.done) >= 4 /\ q.counts.all > 0 => \E i \in q.shown : i >= q.counts.all
    /\ q.verified => Len(q.done) >= 3 /\ q.doubtful = {} /\ q.counts.all <= Ceiling

LEMMA ProgressIs ==
    ASSUME NEW d \in Progress
    PROVE  /\ Len(d) \in 0..4
           /\ Len(d) < 4 /\ Queries!Statements[Len(d) + 1] = "head" => d = <<>>
           /\ Len(d) < 4 /\ Queries!Statements[Len(d) + 1] = "counts" => d = <<"head">>
           /\ Len(d) < 4 /\ Queries!Statements[Len(d) + 1] = "chain" => d = <<"head", "counts">>
           /\ Len(d) < 4 /\ Queries!Statements[Len(d) + 1] = "events" => d = <<"head", "counts", "chain">>
           /\ \A n \in DOMAIN d : /\ d[n] = "head" => Len(d) >= 1
                                  /\ d[n] = "counts" => Len(d) >= 2
                                  /\ d[n] = "chain" => Len(d) >= 3
                                  /\ d[n] = "events" => Len(d) >= 4
  <1>1. CASE d = <<>>
    BY <1>1 DEF Queries!Statements
  <1>2. CASE d = <<"head">>
    BY <1>2 DEF Queries!Statements
  <1>3. CASE d = <<"head", "counts">>
    BY <1>3 DEF Queries!Statements
  <1>4. CASE d = <<"head", "counts", "chain">>
    BY <1>4 DEF Queries!Statements
  <1>5. CASE d = <<"head", "counts", "chain", "events">>
    BY <1>5 DEF Queries!Statements
  <1> QED
    BY <1>1, <1>2, <1>3, <1>4, <1>5 DEF Progress

LEMMA RequestPromise ==
    ASSUME NEW generation, NEW length, NEW changed, RequestHolds(request, around, generation, length, changed)
    PROVE  Queries!SummaryIsAccounted /\ Queries!VerifiedIsWhole
  <1>1. request.done \in Progress
    BY DEF RequestHolds, RequestRecord
  <1>2. /\ Queries!Read("head") => Len(request.done) >= 1
        /\ Queries!Read("counts") => Len(request.done) >= 2
        /\ Queries!Read("chain") => Len(request.done) >= 3
        /\ Queries!Read("events") => Len(request.done) >= 4
    BY <1>1, ProgressIs DEF Queries!Read
  <1> QED
    BY <1>2 DEF Queries!SummaryIsAccounted, Queries!VerifiedIsWhole, RequestHolds

\* The lane moves on: nothing that was read speaks of more than there is.
LEMMA RequestKeeps ==
    ASSUME NEW q, NEW split, NEW generation \in Nat, NEW length \in Nat, NEW changed,
           RequestHolds(q, split, generation, length, changed), NEW parted, split => parted,
           NEW later \in Nat, generation <= later, NEW longer \in Nat, length <= longer, NEW more, changed \subseteq more
    PROVE  RequestHolds(q, parted, later, longer, more)
  <1>1. q \in RequestRecord /\ q.head.generation \in Nat /\ q.counts.all \in Nat
    BY DEF RequestHolds, RequestRecord, HeadOf
  <1>2. Len(q.done) >= 1 => q.head.generation <= later
    BY <1>1 DEF RequestHolds
  <1>3. Len(q.done) >= 2 => q.counts.all <= longer /\ (~parted => q.head.generation <= q.counts.assignments)
    BY <1>1 DEF RequestHolds
  <1>4. q.doubtful \subseteq more
    BY DEF RequestHolds
  <1> QED
    BY <1>2, <1>3, <1>4 DEF RequestHolds

LEMMA LongerByOne ==
    ASSUME NEW S, NEW s \in Seq(S), NEW e \in S, NEW t \in Seq(S), Len(t) = Len(s) + 1,
           \A i \in 1..Len(s) : t[i] = s[i], t[Len(s) + 1] = e
    PROVE  Append(s, e) = t
  <1>1. /\ Append(s, e) \in Seq(S) /\ Len(Append(s, e)) = Len(t) /\ Len(s) \in Nat
        /\ \A i \in 1..Len(s) : Append(s, e)[i] = t[i]
        /\ Append(s, e)[Len(s) + 1] = t[Len(s) + 1]
    BY AppendProperties, LenProperties
  <1>2. \A i \in 1..Len(t) : Append(s, e)[i] = t[i]
    <2> SUFFICES ASSUME NEW i \in 1..Len(t) PROVE Append(s, e)[i] = t[i]
      OBVIOUS
    <2>1. i \in 1..Len(s) \/ i = Len(s) + 1
      BY <1>1
    <2> QED
      BY <1>1, <2>1
  <1> QED
    BY <1>1, <1>2, SeqEqual

LEMMA NextStatement ==
    /\ Append(<<"head">>, "counts") = <<"head", "counts">>
    /\ Append(<<"head", "counts">>, "chain") = <<"head", "counts", "chain">>
    /\ Append(<<"head", "counts", "chain">>, "events") = <<"head", "counts", "chain", "events">>
  <1> DEFINE S == {"head", "counts", "chain", "events"}
  <1>1. /\ <<"head">> \in Seq(S) /\ <<"head", "counts">> \in Seq(S) /\ <<"head", "counts", "chain">> \in Seq(S)
        /\ <<"head", "counts", "chain", "events">> \in Seq(S)
        /\ "counts" \in S /\ "chain" \in S /\ "events" \in S
    OBVIOUS
  <1> HIDE DEF S
  <1>2. Append(<<"head">>, "counts") = <<"head", "counts">>
    <2>1. /\ Len(<<"head", "counts">>) = Len(<<"head">>) + 1 /\ <<"head", "counts">>[Len(<<"head">>) + 1] = "counts"
          /\ \A i \in 1..Len(<<"head">>) : <<"head", "counts">>[i] = <<"head">>[i]
      OBVIOUS
    <2> QED
      BY <1>1, <2>1, LongerByOne
  <1>3. Append(<<"head", "counts">>, "chain") = <<"head", "counts", "chain">>
    <2>1. /\ Len(<<"head", "counts", "chain">>) = Len(<<"head", "counts">>) + 1 /\ <<"head", "counts", "chain">>[Len(<<"head", "counts">>) + 1] = "chain"
          /\ \A i \in 1..Len(<<"head", "counts">>) : <<"head", "counts", "chain">>[i] = <<"head", "counts">>[i]
      OBVIOUS
    <2> QED
      BY <1>1, <2>1, LongerByOne
  <1>4. Append(<<"head", "counts", "chain">>, "events") = <<"head", "counts", "chain", "events">>
    <2>1. /\ Len(<<"head", "counts", "chain", "events">>) = Len(<<"head", "counts", "chain">>) + 1 /\ <<"head", "counts", "chain", "events">>[Len(<<"head", "counts", "chain">>) + 1] = "events"
          /\ \A i \in 1..Len(<<"head", "counts", "chain">>) : <<"head", "counts", "chain", "events">>[i] = <<"head", "counts", "chain">>[i]
      OBVIOUS
    <2> QED
      BY <1>1, <2>1, LongerByOne
  <1> QED
    BY <1>2, <1>3, <1>4

\* A statement of the request reads the lane as it is.
LEMMA GetLaneKeeps ==
    ASSUME TheReadLane, altered \in SUBSET (1..Len(events)),
           RequestHolds(request, around, head.generation, Len(events), altered), Queries!GetLane
    PROVE  RequestHolds(request', around, head.generation, Len(events), altered)
  <1> DEFINE q == request
             g == head.generation
             l == Len(events)
  <1>1. /\ q \in RequestRecord /\ q.done \in Progress /\ q.doubtful \subseteq altered
        /\ q.counts.all \in Nat /\ q.head.generation \in Nat
    BY DEF RequestHolds, RequestRecord, HeadOf
  <1>2. /\ head \in HeadOf(ReadRevisions, ReadDetails, MaxReadEvents) /\ g \in Nat /\ l \in Nat
        /\ ~around => g = Cardinality(Lane!Assignments(events))
        /\ Cardinality(Lane!Assignments(events)) \in Nat /\ altered \in SUBSET Nat
    BY ReadLaneTypes
  <1>3. Projected \in Nat \ {0} /\ Ceiling \in Nat
    BY LaneReadsAssumption
  <1>4. RequestHolds(q, around, g, l, altered)
    OBVIOUS
  <1>5. CASE Queries!ReadTheHead
    <2>1. q.done = <<>> /\ Queries!Due("head")
      BY <1>1, <1>5, ProgressIs DEF Queries!ReadTheHead, Queries!Due, Queries!Following
    <2>2. request' = [q EXCEPT !.done = <<"head">>, !.head = head, !.doubtful = altered]
      BY <1>5, <2>1 DEF Queries!ReadTheHead, Queries!Executed, RequestRecord
    <2>3. /\ request'.done = <<"head">> /\ request'.head = head /\ request'.doubtful = altered
          /\ request'.counts = q.counts /\ request'.verified = q.verified
          /\ request' \in RequestRecord
      BY <1>1, <1>2, <2>2 DEF RequestRecord, Progress
    <2>4. ~q.verified
      BY <1>4, <2>1 DEF RequestHolds
    <2> QED
      BY <1>2, <2>3, <2>4 DEF RequestHolds
  <1>6. CASE Queries!ReadCounts
    <2> DEFINE c == [assignments |-> Queries!Cardinality(Queries!Assignments(events)), all |-> Len(events)]
    <2>1. q.done = <<"head">> /\ Queries!Due("counts")
      BY <1>1, <1>6, ProgressIs DEF Queries!ReadCounts, Queries!Due, Queries!Following
    <2>2. (~around => c.assignments = g) /\ c.all = l /\ c \in [assignments : Nat, all : Nat]
      <3>1. Queries!Assignments(events) = Lane!Assignments(events)
        BY DEF Queries!Assignments, Lane!Assignments
      <3>2. Queries!Cardinality(Lane!Assignments(events)) = Cardinality(Lane!Assignments(events))
        BY DEF Queries!Cardinality, Cardinality, Queries!IsFiniteSet, IsFiniteSet
      <3> QED
        BY <1>2, <3>1, <3>2
    <2> HIDE DEF c
    <2>3. request' = [q EXCEPT !.done = <<"head", "counts">>, !.counts = c]
      <3>1. Append(q.done, "counts") = <<"head", "counts">>
        BY <2>1, NextStatement
      <3> QED
        BY <1>6, <3>1 DEF Queries!ReadCounts, Queries!Executed, c
    <2>4. /\ request'.done = <<"head", "counts">> /\ request'.counts = c
          /\ request'.head = q.head /\ request'.doubtful = q.doubtful /\ request'.verified = q.verified
          /\ request' \in RequestRecord
      BY <1>1, <2>2, <2>3 DEF RequestRecord, Progress
    <2>5. q.head.generation <= g /\ ~q.verified
      BY <1>4, <2>1 DEF RequestHolds
    <2> QED
      BY <1>1, <1>2, <2>2, <2>4, <2>5 DEF RequestHolds
  <1>7. CASE Queries!ReadChain
    <2>1. q.done = <<"head", "counts">> /\ Queries!Due("chain")
      BY <1>1, <1>7, ProgressIs DEF Queries!ReadChain, Queries!Due, Queries!Following
    <2> DEFINE v == Queries!ChainReproduces
    <2>2. request' = [q EXCEPT !.done = <<"head", "counts", "chain">>, !.verified = v, !.rows = l]
      <3>1. Append(q.done, "chain") = <<"head", "counts", "chain">>
        BY <2>1, NextStatement
      <3> QED
        BY <1>7, <3>1 DEF Queries!ReadChain, Queries!Executed
    <2>3. v \in BOOLEAN /\ (v => l <= Ceiling /\ altered = {})
      BY DEF Queries!ChainReproduces
    <2> HIDE DEF v
    <2>4. /\ request'.done = <<"head", "counts", "chain">> /\ request'.rows = l /\ request'.verified = v
          /\ request'.head = q.head /\ request'.doubtful = q.doubtful /\ request'.counts = q.counts
          /\ request' \in RequestRecord
      BY <1>1, <1>2, <2>2, <2>3 DEF RequestRecord, Progress
    <2>5. /\ q.head.generation <= g /\ q.counts.all <= l
          /\ ~around => q.head.generation <= q.counts.assignments
      BY <1>4, <2>1 DEF RequestHolds
    <2>6. v => q.doubtful = {} /\ q.counts.all <= Ceiling
      <3>1. v => altered = {} /\ l <= Ceiling
        BY <2>3
      <3> HIDE DEF l, q
      <3>2. altered = {} => q.doubtful = {}
        BY <1>1
      <3>3. l <= Ceiling => q.counts.all <= Ceiling
        BY <1>1, <1>2, <1>3, <2>5
      <3> QED
        BY <3>1, <3>2, <3>3
    <2> QED
      BY <1>1, <2>4, <2>5, <2>6 DEF RequestHolds
  <1>8. CASE Queries!ReadEvents
    <2>1. q.done = <<"head", "counts", "chain">> /\ Queries!Due("events")
      BY <1>1, <1>8, ProgressIs DEF Queries!ReadEvents, Queries!Due, Queries!Following
    <2>2. request' = [q EXCEPT !.done = <<"head", "counts", "chain", "events">>, !.shown = Queries!Newest]
      <3>1. Append(q.done, "events") = <<"head", "counts", "chain", "events">>
        BY <2>1, NextStatement
      <3> QED
        BY <1>8, <3>1 DEF Queries!ReadEvents, Queries!Executed
    <2>3. Queries!Newest \in SUBSET Nat
      BY DEF Queries!Newest
    <2>4. /\ request'.done = <<"head", "counts", "chain", "events">> /\ request'.shown = Queries!Newest
          /\ request'.head = q.head /\ request'.doubtful = q.doubtful /\ request'.counts = q.counts
          /\ request'.rows = q.rows /\ request'.verified = q.verified
          /\ request' \in RequestRecord
      BY <1>1, <2>2, <2>3 DEF RequestRecord, Progress
    <2>5. /\ q.head.generation <= g /\ (~around => q.head.generation <= q.counts.assignments)
          /\ q.counts.all <= l /\ q.counts.all <= q.rows /\ (q.verified => q.doubtful = {} /\ q.counts.all <= Ceiling)
      BY <1>4, <2>1 DEF RequestHolds
    <2>6. q.counts.all > 0 => \E i \in Queries!Newest : i >= q.counts.all
      <3>1. q.counts.all > 0 => l \in Queries!Newest /\ l >= q.counts.all
        BY <1>1, <1>2, <1>3, <2>5 DEF Queries!Newest
      <3> QED
        BY <3>1
    <2> QED
      BY <1>1, <2>4, <2>5, <2>6 DEF RequestHolds
  <1>9. CASE Queries!Answer
    <2>1. request' = Queries!NoRequest
      BY <1>9 DEF Queries!Answer
    <2>2. Queries!NoRequest \in RequestRecord
      <3>1. Queries!Unassigned \in HeadOf(ReadRevisions, ReadDetails, MaxReadEvents)
        BY LaneReadsAssumption DEF Queries!Unassigned, HeadOf
      <3> QED
        BY <3>1 DEF Queries!NoRequest, RequestRecord, Progress
    <2> QED
      BY <2>1, <2>2 DEF RequestHolds, Queries!NoRequest
  <1> QED
    BY <1>5, <1>6, <1>7, <1>8, <1>9 DEF Queries!GetLane

\* What is read, whatever is asked: the lane, a request for it, the pages of the list.
QueryInv ==
    /\ TheReadLane
    /\ altered \in SUBSET (1..Len(events))
    /\ RequestHolds(request, around, head.generation, Len(events), altered)
    /\ lanes \subseteq Identities /\ IsFiniteSet(lanes)
    /\ PagerHolds(pager, lanes)

LEMMA NotPagingHolds == PagerHolds(Queries!NotPaging, {})
  BY DEF PagerHolds, PagerRecord, Queries!NotPaging, Increasing

LEMMA QueryInit == Queries!ReadsInit => QueryInv
  <1> SUFFICES ASSUME Queries!ReadsInit PROVE QueryInv
    OBVIOUS
  <1>1. /\ events = <<>> /\ head = Queries!Unassigned /\ approved = {} /\ around = FALSE
        /\ altered = {} /\ request = Queries!NoRequest /\ lanes = {} /\ pager = Queries!NotPaging
    BY DEF Queries!ReadsInit, Queries!Init, Queries!Asked
  <1>2. LaneChoices(ReadRevisions, ReadDetails, MaxReadEvents)
    BY LaneReadsAssumption DEF LaneChoices
  <1>3. TheReadLane
    BY <1>1, <1>2, LaneStarts DEF TheReadLane, Queries!Unassigned, Lane!Unassigned
  <1>4. Queries!NoRequest \in RequestRecord
    <2>1. Queries!Unassigned \in HeadOf(ReadRevisions, ReadDetails, MaxReadEvents)
      BY LaneReadsAssumption DEF Queries!Unassigned, HeadOf
    <2> QED
      BY <2>1 DEF Queries!NoRequest, RequestRecord, Progress
  <1>5. RequestHolds(request, around, head.generation, Len(events), altered)
    BY <1>1, <1>4 DEF RequestHolds, Queries!NoRequest
  <1> QED
    BY <1>1, <1>3, <1>5, NotPagingHolds, FS_EmptySet DEF QueryInv

LEMMA ReadPageKeeps ==
    ASSUME PagerHolds(pager, lanes), lanes \subseteq Identities, IsFiniteSet(lanes), Queries!ReadPage
    PROVE  PagerHolds(pager', lanes)
  <1> DEFINE S == Queries!AfterCursor
             size == IF Cardinality(S) < LanePageSize THEN Cardinality(S) ELSE LanePageSize
             page == FirstOf(S, size)
  <1>1. S = {id \in lanes : id > pager.cursor}
    BY DEF Queries!AfterCursor
  <1>2. lanes \subseteq Nat /\ LanePageSize \in Nat \ {0}
    BY LaneReadsAssumption
  <1>3. IsFiniteSet(S) /\ S \in SUBSET Nat /\ Cardinality(S) \in Nat
    <2>1. S \in SUBSET lanes
      BY <1>1
    <2> QED
      BY <1>2, <2>1, FS_Subset, FS_CardinalityType
  <1>4. size \in 0..Cardinality(S) /\ (Cardinality(S) <= LanePageSize => size = Cardinality(S))
    <2> HIDE DEF S
    <2> QED
      BY <1>2, <1>3
  <1>5. pager' = [pager EXCEPT !.seen = @ \o page, !.ended = Cardinality(S) <= LanePageSize,
                              !.cursor = IF size = 0 THEN @ ELSE page[size]]
    BY DEF Queries!ReadPage, FirstOf, Nth, UpTo, Queries!Cardinality, Cardinality, Queries!IsFiniteSet, IsFiniteSet
  <1>6. page \in Seq(Nat) /\ Len(page) = size /\ \A n \in 1..size : page[n] \in Nat
    <2> HIDE DEF S, size
    <2> QED
      BY <1>3, <1>4, FirstOnes
  <1> DEFINE c == IF size = 0 THEN pager.cursor ELSE page[size]
             e == Cardinality(S) <= LanePageSize
  <1>7. c \in Nat /\ e \in BOOLEAN /\ pager.seen \o page \in Seq(Nat) /\ pager \in PagerRecord
    <2> HIDE DEF S
    <2>1. pager \in PagerRecord
      BY DEF PagerHolds
    <2>2. size # 0 => size \in 1..size
      BY <1>2, <1>3
    <2> HIDE DEF page, size
    <2>3. pager.seen \o page \in Seq(Nat)
      BY <1>6, <2>1, ConcatProperties DEF PagerRecord
    <2> QED
      BY <1>6, <2>1, <2>2, <2>3 DEF PagerRecord
  <1> HIDE DEF S, size, page
  <1>8. pager' = [pager EXCEPT !.seen = pager.seen \o page, !.ended = e, !.cursor = c]
    BY <1>5
  <1> HIDE DEF c, e
  <1>9. /\ pager' \in PagerRecord /\ pager'.seen = pager.seen \o page /\ pager'.expected = pager.expected
        /\ pager'.ended = e /\ pager'.cursor = c
    BY <1>7, <1>8 DEF PagerRecord
  <1>10. /\ pager'.seen = pager.seen \o FirstOf(S, size)
         /\ pager'.cursor = IF size = 0 THEN pager.cursor ELSE FirstOf(S, size)[size]
         /\ pager'.ended => size = Cardinality(S)
    BY <1>4, <1>9 DEF page, c, e
  <1> QED
    BY <1>1, <1>2, <1>4, <1>9, <1>10, PageTurned

LEMMA QueryNext == QueryInv /\ [Queries!ReadsNext]_<<laneVars, queryVars>> => QueryInv'
  <1> SUFFICES ASSUME QueryInv, [Queries!ReadsNext]_<<laneVars, queryVars>> PROVE QueryInv'
    OBVIOUS
  <1>0. /\ TheReadLane /\ altered \in SUBSET (1..Len(events))
        /\ RequestHolds(request, around, head.generation, Len(events), altered)
        /\ head.generation \in Nat /\ Len(events) \in Nat
    BY ReadLaneTypes DEF QueryInv
  <1>1. ASSUME UNCHANGED <<events, head, approved, around>> PROVE TheReadLane'
    BY <1>0, <1>1, LaneStays DEF TheReadLane
  <1>2. ASSUME UNCHANGED <<laneVars, queryVars>> PROVE QueryInv'
    BY <1>0, <1>1, <1>2 DEF QueryInv, laneVars, queryVars
  <1>3. ASSUME Queries!Write, UNCHANGED queryVars PROVE QueryInv'
    <2>1. TheReadLane' /\ head'.generation >= head.generation /\ Len(events') >= Len(events) /\ (around => around')
      BY <1>0, <1>3, ReadLaneWrites DEF Forth
    <2>2. head'.generation \in Nat /\ Len(events') \in Nat
      BY <2>1, LenProperties DEF TheReadLane, LaneSound, LaneOrdered, LaneTyped, HeadOf
    <2>3. RequestHolds(request, around', head'.generation, Len(events'), altered)
      BY <1>0, <2>1, <2>2, RequestKeeps
    <2>4. altered \in SUBSET (1..Len(events'))
      BY <1>0, <2>1, <2>2
    <2> QED
      BY <1>3, <2>1, <2>3, <2>4 DEF QueryInv, queryVars
  <1>4. ASSUME Queries!GetLane PROVE QueryInv'
    <2>1. UNCHANGED <<laneVars, asked, altered, lanes, pager>>
      BY <1>4 DEF Queries!GetLane, Queries!vars, laneVars
    <2>2. RequestHolds(request', around, head.generation, Len(events), altered)
      BY <1>0, <1>4, GetLaneKeeps
    <2> QED
      BY <1>0, <1>1, <2>1, <2>2 DEF QueryInv, laneVars
  <1>5. ASSUME NEW i \in 1..Len(events), Queries!Alter(i) PROVE QueryInv'
    <2>1. altered' = altered \cup {i} /\ UNCHANGED <<laneVars, asked, request, lanes, pager>>
      BY <1>5 DEF Queries!Alter, Queries!vars, laneVars
    <2>2. RequestHolds(request, around, head.generation, Len(events), altered')
      BY <1>0, <2>1, RequestKeeps
    <2> QED
      BY <1>0, <1>1, <2>1, <2>2 DEF QueryInv, laneVars
  <1>6. ASSUME Queries!ListLanes PROVE QueryInv'
    <2>1. UNCHANGED <<laneVars, asked, altered, request, lanes>>
      BY <1>6 DEF Queries!ListLanes, Queries!StartPaging, Queries!ReadPage, Queries!Leave, Queries!vars, laneVars
    <2>2. CASE Queries!StartPaging
      <3> DEFINE g == [cursor |-> 0, seen |-> <<>>, expected |-> lanes, ended |-> FALSE]
      <3>1. pager' = g
        BY <2>2 DEF Queries!StartPaging, Queries!NotPaging
      <3>2. lanes \subseteq Nat /\ \A id \in lanes : ~(id <= 0)
        BY LaneReadsAssumption DEF QueryInv
      <3>3. PagerHolds(g, lanes)
        BY <3>2 DEF PagerHolds, PagerRecord, Increasing
      <3> QED
        BY <1>0, <1>1, <2>1, <3>1, <3>3 DEF QueryInv, laneVars
    <2>3. CASE Queries!ReadPage
      <3>1. PagerHolds(pager', lanes)
        BY <2>3, ReadPageKeeps DEF QueryInv
      <3> QED
        BY <1>0, <1>1, <2>1, <3>1 DEF QueryInv, laneVars
    <2>4. CASE Queries!Leave
      <3>1. pager' = Queries!NotPaging /\ PagerHolds(Queries!NotPaging, {})
        BY <2>4, NotPagingHolds DEF Queries!Leave
      <3>2. PagerHolds(pager', lanes)
        BY <3>1 DEF PagerHolds
      <3> QED
        BY <1>0, <1>1, <2>1, <3>2 DEF QueryInv, laneVars
    <2> QED
      BY <1>6, <2>2, <2>3, <2>4 DEF Queries!ListLanes
  <1>7. ASSUME NEW id \in Identities, Queries!RegisterLane(id) PROVE QueryInv'
    <2>1. lanes' = lanes \cup {id} /\ UNCHANGED <<laneVars, asked, altered, request, pager>>
      BY <1>7 DEF Queries!RegisterLane, Queries!vars, laneVars
    <2>2. PagerHolds(pager, lanes')
      BY <2>1 DEF QueryInv, PagerHolds
    <2>3. lanes' \subseteq Identities /\ IsFiniteSet(lanes')
      BY <2>1, FS_AddElement DEF QueryInv
    <2> QED
      BY <1>0, <1>1, <2>1, <2>2, <2>3 DEF QueryInv, laneVars
  <1> QED
    BY <1>2, <1>3, <1>4, <1>5, <1>6, <1>7 DEF Queries!ReadsNext, Queries!readsVars, queryVars

LEMMA QueryPromise == QueryInv => Queries!LaneReadsHold
  <1> SUFFICES ASSUME QueryInv PROVE Queries!LaneReadsHold
    OBVIOUS
  <1>1. Queries!SummaryIsAccounted /\ Queries!VerifiedIsWhole
    BY RequestPromise DEF QueryInv
  <1>2. Queries!LanesAreListed
    BY DEF QueryInv, PagerHolds, Increasing, Queries!LanesAreListed
  <1> QED
    BY <1>1, <1>2 DEF Queries!LaneReadsHold

\* Whatever keys are shared and whatever append_event is called with: a lane's head is what
\* its events produce and its champions follow one another until something is written
\* around its head (GovernanceLane, around), no freeze and no assignment found under its
\* key being taken for a new one before; and what is read of a lane that moves is accounted
\* for by its events (store.py, append_event, freeze and apply_assignment).
THEOREM LaneIsAccounted == StoresSpec => []LaneHolds
  <1> DEFINE Inv == (part = "lane" => TheLane) /\ (part = "queries" => QueryInv)
  <1>1. StoresInit => Inv
    BY LaneInitially, QueryInit DEF StoresInit, StoresStart
  <1>2. Inv /\ [StoresNext]_storesVars => Inv'
    <2>1. [StoresNext]_storesVars => /\ part' = part
                                     /\ part = "lane" => [Lane!Next]_laneVars
                                     /\ part = "queries" => [Queries!ReadsNext]_<<laneVars, queryVars>>
      BY DEF StoresNext, storesVars
    <2> QED
      BY <2>1, LaneNext, QueryNext
  <1>3. Inv => LaneHolds
    <2>1. TheLane => Lane!HeadReplays /\ Lane!ChampionsFollow
      BY DEF TheLane, LaneSound, LaneInv, Lane!HeadReplays, Lane!ChampionsFollow
    <2> QED
      BY <2>1, QueryPromise DEF LaneHolds
  <1> QED
    BY <1>1, <1>2, <1>3, PTL DEF StoresSpec

-----------------------------------------------------------------------------
\* What is decided stays (DecisionsAreFinal): a freeze of the lane that is read.
LEMMA QueryThaws ==
    ASSUME TheReadLane, [Queries!ReadsNext]_<<laneVars, queryVars>>
    PROVE  Thaws
  <1>1. CASE Queries!Write
    BY <1>1, ReadLaneWrites
  <1>2. CASE UNCHANGED head
    BY <1>2 DEF Thaws
  <1> QED
    BY <1>1, <1>2 DEF Queries!ReadsNext, Queries!GetLane, Queries!Alter, Queries!ListLanes, Queries!StartPaging,
       Queries!ReadPage, Queries!Leave, Queries!RegisterLane, Queries!vars, laneVars

\* A closed campaign stays closed; the first eligible outcome of a batch gives way to an
\* older revision alone, and whatever revisions callers append, to none that is newer; only
\* an assignment clears a freeze, with an event of its own unless something was written
\* around the head; and a root is written by the one handle that made its directory.
THEOREM DecisionsStay == StoresSpec => DecisionsAreFinal
  <1> DEFINE Inv == /\ part = "shadow" => ShadowInv
                    /\ part = "identity" => IdentityInv
                    /\ part = "lane" => TheLane
                    /\ part = "queries" => QueryInv
  <1>1. StoresInit => Inv
    <2> SUFFICES ASSUME StoresInit PROVE Inv
      OBVIOUS
    <2>1. /\ Shadow!Init /\ Identity!Init
          /\ part = "lane" => Lane!Init
          /\ part = "queries" => Queries!ReadsInit
      BY DEF StoresInit, StoresStart
    <2> QED
      BY <2>1, ShadowInit, IdentityInit, LaneInitially, QueryInit
  <1>2. [StoresNext]_storesVars =>
           /\ part' = part
           /\ part = "shadow" => [Shadow!Next]_shadowVars
           /\ part # "shadow" => UNCHANGED shadowVars
           /\ part = "identity" => Identity!Next \/ UNCHANGED identityVars
           /\ part # "identity" => UNCHANGED identityVars
           /\ part = "lane" => [Lane!Next]_laneVars
           /\ part = "queries" => [Queries!ReadsNext]_<<laneVars, queryVars>>
           /\ part \notin {"lane", "queries"} => UNCHANGED laneVars
    BY DEF StoresNext, storesVars
  <1>3. Inv /\ [StoresNext]_storesVars => Inv'
    <2> SUFFICES ASSUME Inv, [StoresNext]_storesVars PROVE Inv'
      OBVIOUS
    <2>1. /\ part' = "lane" => TheLane'
          /\ part' = "queries" => QueryInv'
      BY <1>2, LaneNext, QueryNext
    <2>2. part' = "shadow" => ShadowInv'
      BY <1>2, ShadowNext
    <2>3. part' = "identity" => IdentityInv'
      <3>1. Identity!Next /\ IdentityInv => IdentityInv'
        BY IdentityNext
      <3>2. UNCHANGED identityVars /\ IdentityInv => IdentityInv'
        BY IdentityTypes, HandlesAlone DEF identityVars
      <3> QED
        BY <1>2, <3>1, <3>2
    <2> QED
      BY <2>1, <2>2, <2>3
  <1>4. Inv /\ [StoresNext]_storesVars => [(state \in Shadow!Terminal => state' = state)]_(Shadow!vars)
    <2>1. UNCHANGED shadowVars => UNCHANGED Shadow!vars
      BY DEF shadowVars, Shadow!vars
    <2> QED
      BY <1>2, <2>1, TerminalStays
  <1>5. Inv /\ [StoresNext]_storesVars =>
          [\A b \in batches : Shadow!FirstEligible(b) # {} =>
              \/ Shadow!FirstEligible(b)' = Shadow!FirstEligible(b)
              \/ \E o \in outcomes' \ outcomes :
                    /\ Shadow!FirstEligible(b)' = {o}
                    /\ \A p \in Shadow!FirstEligible(b) : o.revision < p.revision]_(Shadow!vars)
    <2>1. UNCHANGED shadowVars => UNCHANGED Shadow!vars
      BY DEF shadowVars, Shadow!vars
    <2> QED
      BY <1>2, <2>1, FirstStays
  <1>6. Inv /\ [StoresNext]_storesVars =>
          [(head.state = "frozen" /\ head' # head) =>
              /\ head'.generation = head.generation + 1
              /\ Len(events') = Len(events) + 1 \/ around']_(Lane!vars)
    <2>1. UNCHANGED laneVars => UNCHANGED Lane!vars
      BY DEF laneVars, Lane!vars
    <2>2. QueryInv => TheReadLane
      BY DEF QueryInv
    <2>3. Inv /\ [StoresNext]_storesVars => Thaws \/ UNCHANGED laneVars
      BY <1>2, <2>2, LaneNext, QueryThaws
    <2> QED
      BY <2>1, <2>3 DEF Thaws
  <1>7. Inv /\ [StoresNext]_storesVars =>
          [\A r \in Identity!Roots :
             /\ roots[r].marker = 1 => roots'[r].marker = 1
             /\ roots'[r] # roots[r] =>
                   \E h \in Handles : \E k \in {handle[h], handle'[h]} : k.root = r /\ k.made]_(Identity!vars)
    <2>1. UNCHANGED identityVars => UNCHANGED Identity!vars
      BY DEF identityVars, Identity!vars, Identity!readPorts
    <2> QED
      BY <1>2, <2>1, CreatorAlone DEF RootAlone, Creator
  <1> QED
    BY <1>1, <1>3, <1>4, <1>5, <1>6, <1>7, PTL DEF StoresSpec, DecisionsAreFinal, Shadow!TerminalIsFinal,
       Shadow!FirstEligibleIsStable, Lane!FreezeHolds, Identity!OneCreatorPerRoot

-----------------------------------------------------------------------------
\* The types of a lane and of what is read of it.

\* The lane of the part "lane", and the alarm of its rebuilds.
LaneTypes ==
    /\ TheLane
    /\ reader \in 0..Lane!NotReading /\ alarm \in BOOLEAN /\ around \in BOOLEAN

LEMMA LaneTypesInit == Lane!Init => LaneTypes
  <1> SUFFICES ASSUME Lane!Init PROVE LaneTypes
    OBVIOUS
  <1>1. MaxEvents \in Nat
    BY LaneAssumption
  <1>2. reader = Lane!NotReading /\ alarm = FALSE /\ around = FALSE
    BY DEF Lane!Init
  <1>3. Lane!NotReading \in 0..Lane!NotReading
    BY <1>1 DEF Lane!NotReading
  <1> QED
    BY <1>2, <1>3, LaneInitially DEF LaneTypes

LEMMA LaneTypesNext == LaneTypes /\ [Lane!Next]_laneVars => LaneTypes'
  <1> SUFFICES ASSUME LaneTypes, [Lane!Next]_laneVars PROVE LaneTypes'
    OBVIOUS
  <1>1. TheLane /\ reader \in 0..Lane!NotReading /\ alarm \in BOOLEAN /\ around \in BOOLEAN
    BY DEF LaneTypes
  <1>2. TheLane'
    BY <1>1, LaneNext
  <1>3. around' \in BOOLEAN
    BY <1>1, LaneIsStep DEF LaneStep
  <1>4. reader' \in 0..Lane!NotReading /\ alarm' \in BOOLEAN
    <2>1. Lane!Write \/ UNCHANGED laneVars => UNCHANGED <<reader, alarm>>
      BY DEF Lane!Write, Lane!Approve, Lane!Record, Lane!ApplyAssignment, Lane!Freeze, laneVars
    <2>2. Len(events) \in 0..Lane!NotReading /\ Lane!NotReading \in 0..Lane!NotReading
      <3>1. Len(events) \in Nat /\ MaxEvents \in Nat /\ Len(events) <= MaxEvents
        BY <1>1, LaneAssumption, OrderedTypes DEF LaneChoices, TheLane, LaneSound
      <3> QED
        BY ONLY <3>1 DEF Lane!NotReading
    <2>3. Lane!LoadEvents \/ Lane!ReadHead => reader' \in 0..Lane!NotReading /\ alarm' \in BOOLEAN
      BY <1>1, <2>2 DEF Lane!LoadEvents, Lane!ReadHead
    <2> QED
      BY <1>1, <2>1, <2>3 DEF Lane!Next
  <1> QED
    BY <1>2, <1>3, <1>4 DEF LaneTypes, Lane!NotReading

LEMMA WiderSeq ==
    ASSUME NEW S, NEW T, S \subseteq T, NEW s \in Seq(S)
    PROVE  s \in Seq(T)
  <1>1. Len(s) \in Nat /\ s \in [1..Len(s) -> S]
    BY LenProperties
  <1>2. s \in [1..Len(s) -> T]
    BY <1>1
  <1> QED
    BY <1>1, <1>2, SeqDef

LEMMA LaneTypesPromise == LaneTypes => Lane!TypeOK
  <1> SUFFICES ASSUME LaneTypes PROVE Lane!TypeOK
    OBVIOUS
  <1>1. ApprovalOf(Revisions, MaxEvents) = Lane!Approval /\ HeadOf(Revisions, Details, MaxEvents) = Lane!LaneHead
    BY DEF ApprovalOf, Lane!Approval, HeadOf, Lane!LaneHead
  <1>2. EventOf(Revisions, Details, MaxEvents) \subseteq Lane!Event
    BY <1>1 DEF EventOf, Lane!Event
  <1>3. /\ events \in Seq(EventOf(Revisions, Details, MaxEvents)) /\ Len(events) <= MaxEvents
        /\ head \in HeadOf(Revisions, Details, MaxEvents)
        /\ head.state = "unassigned" <=> head.champion = NoRevision
        /\ head.state = "frozen" <=> head.trigger # NoTrigger
        /\ head.sequence <= Len(events) /\ approved \subseteq ApprovalOf(Revisions, MaxEvents)
        /\ reader \in 0..Lane!NotReading /\ alarm \in BOOLEAN /\ around \in BOOLEAN
    BY DEF LaneTypes, TheLane, LaneSound, LaneOrdered, LaneTyped
  <1>4. events \in Seq(Lane!Event)
    BY <1>2, <1>3, WiderSeq
  <1> QED
    BY <1>1, <1>3, <1>4 DEF Lane!TypeOK

\* What is read of a lane, and the pages of the list.
AnswerRecord ==
    [done : Progress, head : HeadOf(ReadRevisions, ReadDetails, MaxReadEvents),
     counts : [assignments : 0..MaxReadEvents, all : 0..MaxReadEvents],
     doubtful : SUBSET Nat, verified : BOOLEAN, rows : 0..MaxReadEvents, shown : SUBSET (1..MaxReadEvents)]

PageRecord == [cursor : Identities \cup {0}, seen : Seq(Identities), expected : SUBSET Identities, ended : BOOLEAN]

QueryTypes ==
    /\ TheReadLane
    /\ asked \in {"lane", "listing"}
    /\ altered \in SUBSET (1..Len(events)) /\ Cardinality(altered) <= MaxAltered
    /\ request \in AnswerRecord /\ request.doubtful \subseteq altered
    /\ lanes \subseteq Identities /\ IsFiniteSet(lanes)
    /\ pager \in PageRecord

LEMMA NothingAsked == Queries!NoRequest \in AnswerRecord /\ Queries!NotPaging \in PageRecord
  <1>1. MaxReadEvents \in Nat
    BY LaneReadsAssumption
  <1>2. 0 \in 0..MaxReadEvents
    BY <1>1
  <1>3. Queries!Unassigned \in HeadOf(ReadRevisions, ReadDetails, MaxReadEvents)
    BY <1>2 DEF Queries!Unassigned, HeadOf
  <1>4. <<>> \in Seq(Identities)
    OBVIOUS
  <1> QED
    BY <1>2, <1>3, <1>4 DEF Queries!NoRequest, AnswerRecord, Progress, Queries!NotPaging, PageRecord

LEMMA QueryTypesInit == Queries!ReadsInit => QueryTypes
  <1> SUFFICES ASSUME Queries!ReadsInit PROVE QueryTypes
    OBVIOUS
  <1>1. /\ events = <<>> /\ head = Queries!Unassigned /\ approved = {} /\ around = FALSE /\ asked \in {"lane", "listing"}
        /\ altered = {} /\ request = Queries!NoRequest /\ lanes = {} /\ pager = Queries!NotPaging
    BY DEF Queries!ReadsInit, Queries!Init, Queries!Asked
  <1>2. LaneChoices(ReadRevisions, ReadDetails, MaxReadEvents) /\ MaxAltered \in Nat
    BY LaneReadsAssumption DEF LaneChoices
  <1>3. TheReadLane
    BY <1>1, <1>2, LaneStarts DEF TheReadLane, Queries!Unassigned, Lane!Unassigned
  <1>4. IsFiniteSet({}) /\ Cardinality({}) = 0
    BY FS_EmptySet
  <1>5. Queries!NoRequest.doubtful = {}
    BY DEF Queries!NoRequest
  <1> QED
    BY <1>1, <1>2, <1>3, <1>4, <1>5, NothingAsked DEF QueryTypes

\* A statement of the request.
LEMMA GetLaneTypes ==
    ASSUME QueryTypes, Queries!GetLane
    PROVE  request' \in AnswerRecord /\ request'.doubtful \subseteq altered
  <1>1. /\ request \in AnswerRecord /\ request.done \in Progress /\ request.doubtful \subseteq altered
        /\ altered \in SUBSET Nat
    BY DEF QueryTypes, AnswerRecord
  <1>2. /\ head \in HeadOf(ReadRevisions, ReadDetails, MaxReadEvents) /\ Len(events) \in 0..MaxReadEvents
        /\ Cardinality(Lane!Assignments(events)) \in 0..MaxReadEvents /\ Len(events) \in Nat /\ MaxReadEvents \in Nat
    BY ReadLaneTypes DEF QueryTypes
  <1>3. CASE Queries!ReadTheHead
    <2>1. request.done = <<>>
      BY <1>1, <1>3, ProgressIs DEF Queries!ReadTheHead, Queries!Due, Queries!Following
    <2>2. request' = [request EXCEPT !.done = <<"head">>, !.head = head, !.doubtful = altered]
      BY <1>3, <2>1 DEF Queries!ReadTheHead, Queries!Executed
    <2> QED
      BY <1>1, <1>2, <2>2 DEF AnswerRecord, Progress
  <1>4. CASE Queries!ReadCounts
    <2> DEFINE c == [assignments |-> Queries!Cardinality(Queries!Assignments(events)), all |-> Len(events)]
    <2>1. request.done = <<"head">>
      BY <1>1, <1>4, ProgressIs DEF Queries!ReadCounts, Queries!Due, Queries!Following
    <2>2. c \in [assignments : 0..MaxReadEvents, all : 0..MaxReadEvents]
      <3>1. Queries!Assignments(events) = Lane!Assignments(events)
        BY DEF Queries!Assignments, Lane!Assignments
      <3>2. Queries!Cardinality(Lane!Assignments(events)) = Cardinality(Lane!Assignments(events))
        BY DEF Queries!Cardinality, Cardinality, Queries!IsFiniteSet, IsFiniteSet
      <3> QED
        BY <1>2, <3>1, <3>2
    <2> HIDE DEF c
    <2>3. request' = [request EXCEPT !.done = <<"head", "counts">>, !.counts = c]
      <3>1. Append(request.done, "counts") = <<"head", "counts">>
        BY <2>1, NextStatement
      <3> QED
        BY <1>4, <3>1 DEF Queries!ReadCounts, Queries!Executed, c
    <2> QED
      BY <1>1, <2>2, <2>3 DEF AnswerRecord, Progress
  <1>5. CASE Queries!ReadChain
    <2>1. request.done = <<"head", "counts">>
      BY <1>1, <1>5, ProgressIs DEF Queries!ReadChain, Queries!Due, Queries!Following
    <2> DEFINE v == Queries!ChainReproduces
    <2>2. v \in BOOLEAN
      BY DEF Queries!ChainReproduces
    <2>3. request' = [request EXCEPT !.done = <<"head", "counts", "chain">>, !.verified = v, !.rows = Len(events)]
      <3>1. Append(request.done, "chain") = <<"head", "counts", "chain">>
        BY <2>1, NextStatement
      <3> QED
        BY <1>5, <3>1 DEF Queries!ReadChain, Queries!Executed
    <2> HIDE DEF v
    <2> QED
      BY <1>1, <1>2, <2>2, <2>3 DEF AnswerRecord, Progress
  <1>6. CASE Queries!ReadEvents
    <2>1. request.done = <<"head", "counts", "chain">>
      BY <1>1, <1>6, ProgressIs DEF Queries!ReadEvents, Queries!Due, Queries!Following
    <2>2. request' = [request EXCEPT !.done = <<"head", "counts", "chain", "events">>, !.shown = Queries!Newest]
      <3>1. Append(request.done, "events") = <<"head", "counts", "chain", "events">>
        BY <2>1, NextStatement
      <3> QED
        BY <1>6, <3>1 DEF Queries!ReadEvents, Queries!Executed
    <2>3. Queries!Newest \in SUBSET (1..MaxReadEvents)
      BY <1>2 DEF Queries!Newest
    <2> QED
      BY <1>1, <2>2, <2>3 DEF AnswerRecord, Progress
  <1>7. CASE Queries!Answer
    <2>1. request' = Queries!NoRequest /\ Queries!NoRequest.doubtful = {}
      BY <1>7 DEF Queries!Answer, Queries!NoRequest
    <2> QED
      BY <2>1, NothingAsked
  <1> QED
    BY <1>3, <1>4, <1>5, <1>6, <1>7 DEF Queries!GetLane

LEMMA ReadPageTypes ==
    ASSUME QueryTypes, Queries!ReadPage
    PROVE  pager' \in PageRecord
  <1> DEFINE S == Queries!AfterCursor
             size == IF Cardinality(S) < LanePageSize THEN Cardinality(S) ELSE LanePageSize
             page == FirstOf(S, size)
  <1>1. S \in SUBSET lanes /\ lanes \in SUBSET Identities /\ IsFiniteSet(lanes) /\ pager \in PageRecord
    BY DEF Queries!AfterCursor, QueryTypes
  <1>2. Identities \subseteq Nat /\ LanePageSize \in Nat \ {0}
    BY LaneReadsAssumption
  <1>3. IsFiniteSet(S) /\ S \in SUBSET Nat /\ Cardinality(S) \in Nat
    BY <1>1, <1>2, FS_Subset, FS_CardinalityType
  <1>4. pager' = [pager EXCEPT !.seen = pager.seen \o page, !.ended = Cardinality(S) <= LanePageSize,
                              !.cursor = IF size = 0 THEN pager.cursor ELSE page[size]]
    BY DEF Queries!ReadPage, FirstOf, Nth, UpTo, Queries!Cardinality, Cardinality, Queries!IsFiniteSet, IsFiniteSet
  <1> HIDE DEF S
  <1>5. size \in 0..Cardinality(S) /\ size \in Nat
    BY <1>2, <1>3
  <1> HIDE DEF size
  <1>6. page \in Seq(Nat) /\ Len(page) = size /\ \A n \in 1..size : page[n] \in S
    BY <1>3, <1>5, FirstOnes
  <1>7. page = [n \in 1..size |-> Nth(S, n)]
    BY DEF FirstOf
  <1> HIDE DEF page
  <1>8. page \in [1..size -> Identities]
    BY <1>1, <1>6, <1>7
  <1>9. page \in Seq(Identities)
    BY <1>5, <1>8, SeqDef
  <1>10. size # 0 => page[size] \in Identities
    BY <1>5, <1>8
  <1>11. pager.seen \o page \in Seq(Identities)
    BY <1>1, <1>9, ConcatProperties DEF PageRecord
  <1> DEFINE c == IF size = 0 THEN pager.cursor ELSE page[size]
             e == Cardinality(S) <= LanePageSize
  <1>12. c \in Identities \cup {0} /\ e \in BOOLEAN
    BY <1>1, <1>10 DEF PageRecord
  <1>13. pager' = [pager EXCEPT !.seen = pager.seen \o page, !.ended = e, !.cursor = c]
    BY <1>4
  <1> HIDE DEF c, e
  <1> QED
    BY <1>1, <1>11, <1>12, <1>13 DEF PageRecord

LEMMA QueryTypesNext == QueryTypes /\ [Queries!ReadsNext]_<<laneVars, queryVars>> => QueryTypes'
  <1> SUFFICES ASSUME QueryTypes, [Queries!ReadsNext]_<<laneVars, queryVars>> PROVE QueryTypes'
    OBVIOUS
  <1>0. /\ TheReadLane /\ Len(events) \in Nat /\ asked \in {"lane", "listing"} /\ altered \in SUBSET (1..Len(events)) /\ Cardinality(altered) <= MaxAltered
        /\ request \in AnswerRecord /\ request.doubtful \subseteq altered
        /\ lanes \subseteq Identities /\ IsFiniteSet(lanes) /\ pager \in PageRecord
    BY ReadLaneTypes DEF QueryTypes
  <1>1. ASSUME UNCHANGED laneVars PROVE TheReadLane' /\ Len(events') = Len(events)
    BY <1>0, <1>1, LaneStays DEF laneVars, TheReadLane
  <1>2. CASE UNCHANGED <<laneVars, queryVars>>
    BY <1>0, <1>1, <1>2 DEF QueryTypes, queryVars
  <1>3. ASSUME Queries!Write, UNCHANGED queryVars PROVE QueryTypes'
    <2>1. TheReadLane' /\ Len(events) <= Len(events')
      BY <1>0, <1>3, ReadLaneWrites DEF Forth
    <2>2. Len(events) \in Nat /\ Len(events') \in Nat
      BY <1>0, <2>1, LenProperties DEF TheReadLane, LaneSound, LaneOrdered, LaneTyped
    <2>3. altered \in SUBSET (1..Len(events'))
      BY <1>0, <2>1, <2>2
    <2> QED
      BY <1>0, <1>3, <2>1, <2>3 DEF QueryTypes, queryVars
  <1>4. CASE Queries!GetLane
    <2>1. UNCHANGED <<laneVars, asked, altered, lanes, pager>>
      BY <1>4 DEF Queries!GetLane, Queries!vars, laneVars
    <2>2. request' \in AnswerRecord /\ request'.doubtful \subseteq altered
      BY <1>4, GetLaneTypes
    <2> QED
      BY <1>0, <1>1, <2>1, <2>2 DEF QueryTypes
  <1>5. ASSUME NEW i \in 1..Len(events), Queries!Alter(i) PROVE QueryTypes'
    <2>1. altered' = altered \cup {i} /\ UNCHANGED <<laneVars, asked, request, lanes, pager>>
      BY <1>5 DEF Queries!Alter, Queries!vars, laneVars
    <2>2. Cardinality(altered) < MaxAltered
      BY <1>5 DEF Queries!Alter, Queries!Cardinality, Cardinality, Queries!IsFiniteSet, IsFiniteSet
    <2>3. IsFiniteSet(altered)
      <3>1. Len(events) \in Nat
        BY <1>0
      <3>2. IsFiniteSet(1..Len(events))
        BY <3>1, CountTo
      <3> QED
        BY <1>0, <3>2, FS_Subset
    <2>4. Cardinality(altered') <= MaxAltered
      <3>1. Cardinality(altered) \in Nat /\ MaxAltered \in Nat
        BY <2>3, FS_CardinalityType, LaneReadsAssumption
      <3>2. Cardinality(altered \cup {i}) = IF i \in altered THEN Cardinality(altered) ELSE Cardinality(altered) + 1
        BY <2>3, FS_AddElement
      <3>3. Cardinality(altered \cup {i}) <= MaxAltered
        BY <2>2, <3>1, <3>2
      <3> QED
        BY <2>1, <3>3
    <2>5. altered' \in SUBSET (1..Len(events)) /\ request.doubtful \subseteq altered'
      BY <1>0, <2>1
    <2> QED
      BY <1>0, <1>1, <2>1, <2>4, <2>5 DEF QueryTypes
  <1>6. CASE Queries!ListLanes
    <2>1. UNCHANGED <<laneVars, asked, altered, request, lanes>>
      BY <1>6 DEF Queries!ListLanes, Queries!StartPaging, Queries!ReadPage, Queries!Leave, Queries!vars, laneVars
    <2>2. pager' \in PageRecord
      <3>1. CASE Queries!StartPaging
        BY <1>0, <3>1, NothingAsked DEF Queries!StartPaging, PageRecord
      <3>2. CASE Queries!ReadPage
        BY <3>2, ReadPageTypes
      <3>3. CASE Queries!Leave
        BY <3>3, NothingAsked DEF Queries!Leave
      <3> QED
        BY <1>6, <3>1, <3>2, <3>3 DEF Queries!ListLanes
    <2> QED
      BY <1>0, <1>1, <2>1, <2>2 DEF QueryTypes
  <1>7. ASSUME NEW id \in Identities, Queries!RegisterLane(id) PROVE QueryTypes'
    <2>1. lanes' = lanes \cup {id} /\ UNCHANGED <<laneVars, asked, altered, request, pager>>
      BY <1>7 DEF Queries!RegisterLane, Queries!vars, laneVars
    <2>2. lanes' \subseteq Identities /\ IsFiniteSet(lanes')
      BY <1>0, <2>1, FS_AddElement
    <2> QED
      BY <1>0, <1>1, <2>1, <2>2 DEF QueryTypes
  <1> QED
    BY <1>2, <1>3, <1>4, <1>5, <1>6, <1>7 DEF Queries!ReadsNext, Queries!readsVars, queryVars

LEMMA QueryTypesPromise == QueryTypes => Queries!ReadsTypeOK
  <1> SUFFICES ASSUME QueryTypes PROVE Queries!ReadsTypeOK
    OBVIOUS
  <1>1. HeadOf(ReadRevisions, ReadDetails, MaxReadEvents) = Queries!LaneHead
        /\ [assignments : 0..MaxReadEvents, all : 0..MaxReadEvents] = Queries!Counts
    BY DEF HeadOf, Queries!LaneHead, Queries!Counts
  <1>2. /\ request.done \in Progress /\ request.head \in Queries!LaneHead /\ request.counts \in Queries!Counts
        /\ request.verified \in BOOLEAN /\ request.rows \in 0..MaxReadEvents /\ request.shown \subseteq 1..MaxReadEvents
    BY <1>1 DEF QueryTypes, AnswerRecord
  <1> DEFINE W == {"head", "counts", "chain", "events"}
  <1>3. request.done \in {<<>>} \cup UNION {[1..n -> W] : n \in 1..4}
    <2>1. /\ <<"head">> \in [1..1 -> W] /\ <<"head", "counts">> \in [1..2 -> W]
          /\ <<"head", "counts", "chain">> \in [1..3 -> W] /\ <<"head", "counts", "chain", "events">> \in [1..4 -> W]
      OBVIOUS
    <2>2. 1 \in 1..4 /\ 2 \in 1..4 /\ 3 \in 1..4 /\ 4 \in 1..4
      OBVIOUS
    <2>3. ASSUME NEW n \in 1..4, NEW d \in [1..n -> W] PROVE d \in UNION {[1..m -> W] : m \in 1..4}
      OBVIOUS
    <2> HIDE DEF W
    <2> QED
      BY <1>2, <2>1, <2>2, <2>3 DEF Progress
  <1>4. /\ asked \in {"lane", "listing"} /\ altered \subseteq 1..Len(events) /\ Cardinality(altered) <= MaxAltered
        /\ request.doubtful \subseteq altered /\ lanes \subseteq Identities
        /\ pager.cursor \in Identities \cup {0} /\ pager.seen \in Seq(Identities)
        /\ pager.expected \subseteq Identities /\ pager.ended \in BOOLEAN
    BY DEF QueryTypes, PageRecord
  <1>5. Queries!Cardinality(altered) <= MaxAltered
    BY <1>4 DEF Queries!Cardinality, Cardinality, Queries!IsFiniteSet, IsFiniteSet
  <1> QED
    BY <1>2, <1>3, <1>4, <1>5 DEF Queries!ReadsTypeOK

-----------------------------------------------------------------------------
\* Pages of the registry (EvidenceReads): what a listing under way is about.

\* The jobs a filtered listing is about are fixed by its first page: later only those that
\* have not changed since still say so.
JobsListed(F, r) ==
    /\ F \in SUBSET (1..r.snapshot) /\ r.snapshot <= Len(jobs) /\ r.seen <= Len(changes)
    /\ \A n \in 1..r.snapshot :
          (r.filter = All \/ \A c \in (r.seen + 1)..Len(changes) : changes[c] # n) =>
              (n \in F <=> r.filter \in {All, jobs[n]})

EventsListed(F, r) ==
    r.snapshot <= Len(changes) /\ F = {n \in 1..r.snapshot : r.filter \in {All, changes[n]}}

LinksListed(F, r) ==
    /\ r.snapshot <= Len(links)
    /\ F = {n \in 1..r.snapshot : links[n].run = r.source /\ r.filter \in {All, links[n].role}}

RunsUpTo(r) ==
    {n \in 1..Reads!RegistryMax(r.snapshot) : r.source # "legacy" /\ r.filter \in {All, runs[n].status}}

RowsUpTo(r) ==
    {n \in (Base + 1)..(Base + Reads!LegacyMaxOf(r.snapshot)) :
        /\ r.source # "registry" /\ r.print[n - Base] # Reads!Gone
        /\ r.filter \in {All, r.print[n - Base].status}}

ItemAt(r, n) == [at |-> n, run |-> IF n < Base THEN runs[n] ELSE r.print[n - Base]]

RunsListed(F, e, r) ==
    /\ Reads!RegistryMax(r.snapshot) \in Nat /\ Reads!LegacyMaxOf(r.snapshot) \in Nat
    /\ Reads!RegistryMax(r.snapshot) <= Len(runs) /\ Reads!RegistryMax(r.snapshot) < Base
    /\ Reads!LegacyMaxOf(r.snapshot) < Base
    /\ r.source # "registry" => Len(r.print) = Reads!LegacyMaxOf(r.snapshot)
    /\ F = RunsUpTo(r) \cup RowsUpTo(r)
    /\ \A i \in 1..Len(e) : e[i] = ItemAt(r, Nth(F, i))

Listed(F, e, r) ==
    /\ r.kind \in {"jobs", "events", "artifacts"} => \A i \in 1..Len(e) : e[i] = Nth(F, i)
    /\ r.kind = "jobs" => JobsListed(F, r)
    /\ r.kind = "events" => EventsListed(F, r)
    /\ r.kind = "runs" => RunsListed(F, e, r)
    /\ r.kind = "artifacts" => LinksListed(F, r)

TablesTyped ==
    /\ jobs \in Seq(States) /\ Len(jobs) <= MaxJobs
    /\ changes \in Seq(1..MaxJobs) /\ Len(changes) <= MaxChanges
    /\ runs \in Seq(Reads!Run) /\ Len(runs) <= MaxRuns
    /\ legacy \in [1..(Base - 1) -> Reads!Run \cup {Reads!Gone}]
    /\ links \in Seq(Reads!Link) /\ Len(links) <= MaxLinks * Len(runs)

PagesHold(e, r) ==
    /\ r \in ReadingRecord /\ e \in Seq(ReadItem)
    /\ ~r.started => r.got = <<>> /\ r.after = 0 /\ ~r.done
    /\ r.started => \E F : Paged(F, e, r) /\ Listed(F, e, r)

ReadsInv == TablesTyped /\ PagesHold(expected, reading)

\* Nobody changes or removes what was appended, and a job that changes has an event.
Extends(s, t) == Len(s) <= Len(t) /\ \A i \in 1..Len(s) : t[i] = s[i]

TablesGrow ==
    /\ Extends(changes, changes') /\ Extends(runs, runs') /\ Extends(links, links')
    /\ Len(jobs) <= Len(jobs')
    /\ \A n \in 1..Len(jobs) : \/ jobs'[n] = jobs[n]
                               \/ \E c \in (Len(changes) + 1)..Len(changes') : changes'[c] = n

LEMMA ShownStays ==
    ASSUME TablesTyped, TablesTyped', TablesGrow, NEW r \in ReadingRecord, NEW F, NEW e, Listed(F, e, r),
           Paged(F, e, r)
    PROVE  Listed(F, e, r)'
  <1>1. /\ Len(jobs) \in Nat /\ Len(jobs') \in Nat /\ Len(changes) \in Nat /\ Len(changes') \in Nat
        /\ Len(runs) \in Nat /\ Len(runs') \in Nat /\ Len(links) \in Nat /\ Len(links') \in Nat
        /\ r.snapshot \in Nat /\ r.seen \in Nat
    BY LenProperties DEF TablesTyped, ReadingRecord
  <1>2. ASSUME JobsListed(F, r) PROVE JobsListed(F, r)'
    <2>1. F \in SUBSET (1..r.snapshot) /\ r.snapshot <= Len(jobs) /\ r.seen <= Len(changes)
      BY <1>2 DEF JobsListed
    <2>2. r.snapshot <= Len(jobs') /\ r.seen <= Len(changes')
      BY <1>1, <2>1 DEF TablesGrow, Extends
    <2>3. ASSUME NEW n \in 1..r.snapshot,
                 r.filter = All \/ \A c \in (r.seen + 1)..Len(changes') : changes'[c] # n
          PROVE  n \in F <=> r.filter \in {All, jobs'[n]}
      <3>1. r.filter = All \/ \A c \in (r.seen + 1)..Len(changes) : changes[c] # n
        <4>1. \A c \in (r.seen + 1)..Len(changes) :
                 c \in 1..Len(changes) /\ c \in (r.seen + 1)..Len(changes') /\ changes'[c] = changes[c]
          BY <1>1, <2>1 DEF TablesGrow, Extends
        <4> QED
          BY <2>3, <4>1
      <3>2. n \in F <=> r.filter \in {All, jobs[n]}
        BY <1>2, <3>1 DEF JobsListed
      <3>3. r.filter = All \/ jobs'[n] = jobs[n]
        <4>1. n \in 1..Len(jobs)
          BY <1>1, <2>1
        <4>2. \A c \in (Len(changes) + 1)..Len(changes') : c \in (r.seen + 1)..Len(changes')
          BY <1>1, <2>1
        <4> QED
          BY <2>3, <4>1, <4>2 DEF TablesGrow
      <3> QED
        BY <3>2, <3>3
    <2> QED
      BY <2>1, <2>2, <2>3 DEF JobsListed
  <1>3. ASSUME EventsListed(F, r) PROVE EventsListed(F, r)'
    <2>1. r.snapshot <= Len(changes') /\ \A n \in 1..r.snapshot : changes'[n] = changes[n]
      BY <1>1, <1>3 DEF EventsListed, TablesGrow, Extends
    <2> QED
      BY <1>3, <2>1 DEF EventsListed
  <1>4. ASSUME LinksListed(F, r) PROVE LinksListed(F, r)'
    <2>1. r.snapshot <= Len(links') /\ \A n \in 1..r.snapshot : links'[n] = links[n]
      BY <1>1, <1>4 DEF LinksListed, TablesGrow, Extends
    <2> QED
      BY <1>4, <2>1 DEF LinksListed
  <1>5. ASSUME RunsListed(F, e, r) PROVE RunsListed(F, e, r)'
    <2> DEFINE m == Reads!RegistryMax(r.snapshot)
    <2>1. m \in Nat /\ m <= Len(runs) /\ m < Base /\ Base \in Nat
      BY <1>5, ReadsAssumption DEF RunsListed
    <2> HIDE DEF m
    <2>2. m <= Len(runs') /\ \A n \in 1..m : runs'[n] = runs[n]
      BY <1>1, <2>1, SMTT(30) DEF TablesGrow, Extends
    <2>3. RunsUpTo(r)' = RunsUpTo(r)
      BY <2>2 DEF RunsUpTo, m
    <2>4. RowsUpTo(r)' = RowsUpTo(r)
      BY DEF RowsUpTo
    <2>5. ASSUME NEW i \in 1..Len(e) PROVE ItemAt(r, Nth(F, i))' = ItemAt(r, Nth(F, i))
      <3>1. Nth(F, i) \in F /\ Nth(F, i) \in Nat
        BY NthHasItsRank DEF Paged
      <3>2. Nth(F, i) < Base => Nth(F, i) \in 1..m
        <4>1. Nth(F, i) \in RunsUpTo(r) \/ Nth(F, i) \in RowsUpTo(r)
          BY <1>5, <3>1 DEF RunsListed
        <4>2. Nth(F, i) \in RowsUpTo(r) => ~(Nth(F, i) < Base)
          BY <2>1, <3>1 DEF RowsUpTo
        <4>3. Nth(F, i) \in RunsUpTo(r) => Nth(F, i) \in 1..m
          BY DEF RunsUpTo, m
        <4> QED
          BY <4>1, <4>2, <4>3
      <3> QED
        BY <2>2, <3>2 DEF ItemAt
    <2> QED
      BY <1>5, <2>2, <2>3, <2>4, <2>5 DEF RunsListed, m
  <1> QED
    BY <1>2, <1>3, <1>4, <1>5 DEF Listed

LEMMA AppendExtends ==
    ASSUME NEW S, NEW s \in Seq(S), NEW x \in S
    PROVE  /\ Extends(s, s) /\ Extends(s, Append(s, x)) /\ Append(s, x) \in Seq(S)
           /\ Len(Append(s, x)) = Len(s) + 1 /\ Append(s, x)[Len(s) + 1] = x
  BY AppendProperties, LenProperties DEF Extends

LEMMA ConcatExtends ==
    ASSUME NEW S, NEW s \in Seq(S), NEW t \in Seq(S)
    PROVE  Extends(s, s \o t) /\ s \o t \in Seq(S) /\ Len(s \o t) = Len(s) + Len(t)
  BY ConcatProperties, LenProperties DEF Extends

LEMMA WriterKeeps ==
    ASSUME ReadsInv, TablesTyped', TablesGrow, UNCHANGED <<reading, expected>>
    PROVE  ReadsInv'
  <1>1. PagesHold(expected, reading)'
    <2>1. reading \in ReadingRecord /\ TablesTyped /\ PagesHold(expected, reading)
      BY DEF ReadsInv, PagesHold
    <2>2. ASSUME reading.started PROVE \E F : Paged(F, expected, reading) /\ Listed(F, expected, reading)'
      <3>1. PICK F : Paged(F, expected, reading) /\ Listed(F, expected, reading)
        BY <2>1, <2>2 DEF PagesHold
      <3>2. PICK r \in ReadingRecord : r = reading /\ r' = r
        BY <2>1
      <3>3. PICK e : e = expected /\ e' = e
        OBVIOUS
      <3>4. Listed(F, e, r)'
        BY <2>1, <3>1, <3>2, <3>3, ShownStays
      <3>5. Listed(F, expected, reading)'
        BY <3>2, <3>3, <3>4
      <3> QED
        BY <3>1, <3>5
    <2> QED
      BY <2>1, <2>2 DEF PagesHold, Paged
  <1> QED
    BY <1>1 DEF ReadsInv

LEMMA SubmitKeeps ==
    ASSUME ReadsInv, Reads!Submit
    PROVE  ReadsInv'
  <1>1. TablesTyped /\ Fresh \in States /\ MaxJobs \in Nat /\ MaxChanges \in Nat
    BY ReadsAssumption DEF ReadsInv
  <1>2. /\ Len(changes) < MaxChanges /\ Len(jobs) < MaxJobs /\ Len(jobs) \in Nat /\ Len(changes) \in Nat
        /\ jobs' = Append(jobs, Fresh) /\ changes' = Append(changes, Len(jobs) + 1)
        /\ UNCHANGED <<runs, legacy, links, reading, expected>>
    BY <1>1, LenProperties DEF Reads!Submit, Reads!HasRoom, TablesTyped
  <1>3. Len(jobs) + 1 \in 1..MaxJobs
    BY <1>1, <1>2
  <1>4. /\ Extends(changes, changes') /\ changes' \in Seq(1..MaxJobs) /\ Len(changes') = Len(changes) + 1
        /\ Extends(jobs, jobs') /\ jobs' \in Seq(States) /\ Len(jobs') = Len(jobs) + 1
    BY <1>1, <1>2, <1>3, AppendExtends DEF TablesTyped
  <1>5. Extends(runs, runs') /\ Extends(links, links')
    BY <1>1, <1>2, LenProperties DEF Extends, TablesTyped
  <1>6. TablesGrow
    BY <1>4, <1>5 DEF TablesGrow, Extends
  <1>7. TablesTyped'
    BY <1>1, <1>2, <1>4 DEF TablesTyped
  <1> QED
    BY <1>2, <1>6, <1>7, WriterKeeps

LEMMA ChangeKeeps ==
    ASSUME ReadsInv, NEW j \in 1..Len(jobs), NEW to \in States, Reads!Change(j, to)
    PROVE  ReadsInv'
  <1>1. TablesTyped /\ MaxJobs \in Nat /\ MaxChanges \in Nat
    BY ReadsAssumption DEF ReadsInv
  <1>2. /\ Len(changes) < MaxChanges /\ Len(jobs) \in Nat /\ Len(changes) \in Nat /\ Len(jobs) <= MaxJobs
        /\ jobs' = [jobs EXCEPT ![j] = to] /\ changes' = Append(changes, j)
        /\ UNCHANGED <<runs, legacy, links, reading, expected>>
    BY <1>1, LenProperties DEF Reads!Change, Reads!HasRoom, TablesTyped
  <1>3. j \in 1..MaxJobs
    BY <1>1, <1>2
  <1>4. /\ Extends(changes, changes') /\ changes' \in Seq(1..MaxJobs) /\ Len(changes') = Len(changes) + 1
        /\ changes'[Len(changes) + 1] = j
    BY <1>1, <1>2, <1>3, AppendExtends DEF TablesTyped
  <1>5. /\ jobs' \in Seq(States) /\ Len(jobs') = Len(jobs)
        /\ \A n \in 1..Len(jobs) : jobs'[n] = IF n = j THEN to ELSE jobs[n]
    BY <1>1, <1>2, ExceptSeq DEF TablesTyped
  <1>6. Extends(runs, runs') /\ Extends(links, links')
    BY <1>1, <1>2, LenProperties DEF Extends, TablesTyped
  <1>7. Len(changes) + 1 \in (Len(changes) + 1)..Len(changes')
    BY <1>2, <1>4
  <1>8. TablesGrow
    BY <1>2, <1>4, <1>5, <1>6, <1>7 DEF TablesGrow
  <1>9. TablesTyped'
    BY <1>1, <1>2, <1>4, <1>5 DEF TablesTyped
  <1> QED
    BY <1>2, <1>8, <1>9, WriterKeeps

LEMMA AddRunKeeps ==
    ASSUME ReadsInv, NEW run \in Reads!Run, NEW n \in 0..MaxLinks, NEW roles \in [1..n -> Roles], Reads!AddRun(run, roles)
    PROVE  ReadsInv'
  <1>1. TablesTyped /\ MaxRuns \in Nat /\ MaxLinks \in Nat
    BY ReadsAssumption DEF ReadsInv
  <1> DEFINE more == [i \in 1..Len(roles) |-> [run |-> run.id, role |-> roles[i]]]
  <1>2. /\ Len(runs) < MaxRuns /\ Len(runs) \in Nat /\ Len(links) \in Nat
        /\ runs' = Append(runs, run) /\ links' = links \o more
        /\ UNCHANGED <<jobs, changes, legacy, reading, expected>>
    BY <1>1, LenProperties DEF Reads!AddRun, TablesTyped
  <1>3. n \in Nat /\ n <= MaxLinks /\ Len(roles) = n /\ roles \in Seq(Roles)
    BY <1>1, LenProperties
  <1>4. more \in [1..n -> Reads!Link]
    BY <1>3 DEF Reads!Link, Reads!Run
  <1>5. more \in Seq(Reads!Link) /\ Len(more) = n
    BY <1>3, <1>4, LenProperties
  <1> HIDE DEF more
  <1>6. /\ Extends(links, links') /\ links' \in Seq(Reads!Link) /\ Len(links') = Len(links) + n
    BY <1>1, <1>2, <1>5, ConcatExtends DEF TablesTyped
  <1>7. /\ Extends(runs, runs') /\ runs' \in Seq(Reads!Run) /\ Len(runs') = Len(runs) + 1
    BY <1>1, <1>2, AppendExtends DEF TablesTyped
  <1>8. Len(links') <= MaxLinks * Len(runs')
    <2>1. Len(links) <= MaxLinks * Len(runs)
      BY <1>1 DEF TablesTyped
    <2>2. MaxLinks * (Len(runs) + 1) = MaxLinks * Len(runs) + MaxLinks /\ MaxLinks * Len(runs) \in Nat
      BY <1>1, <1>2
    <2> QED
      BY <1>1, <1>2, <1>3, <1>6, <1>7, <2>1, <2>2
  <1>9. Extends(changes, changes') /\ Len(jobs) <= Len(jobs')
    BY <1>1, <1>2, LenProperties DEF Extends, TablesTyped
  <1>10. TablesGrow
    BY <1>2, <1>6, <1>7, <1>9 DEF TablesGrow
  <1>11. TablesTyped'
    BY <1>1, <1>2, <1>6, <1>7, <1>8 DEF TablesTyped
  <1> QED
    BY <1>2, <1>10, <1>11, WriterKeeps

\* What happens to the legacy rows.
LEMMA LegacyKeeps ==
    ASSUME ReadsInv, UNCHANGED <<jobs, changes, runs, links, reading, expected>>,
           legacy' \in [1..(Base - 1) -> Reads!Run \cup {Reads!Gone}]
    PROVE  ReadsInv'
  <1>1. TablesTyped
    BY DEF ReadsInv
  <1>2. TablesTyped'
    BY <1>1 DEF TablesTyped
  <1>3. TablesGrow
    BY <1>1, LenProperties DEF TablesGrow, Extends, TablesTyped
  <1> QED
    BY <1>2, <1>3, WriterKeeps

LEMMA RowsStay ==
    ASSUME ReadsInv, NEW run \in Reads!Run \cup {Reads!Gone}, NEW n,
           Reads!PersistLegacy(run) \/ Reads!TouchLegacy(n, run)
    PROVE  ReadsInv'
  <1>1. legacy \in [1..(Base - 1) -> Reads!Run \cup {Reads!Gone}]
    BY DEF ReadsInv, TablesTyped
  <1>2. \E m : legacy' = [legacy EXCEPT ![m] = run]
    BY DEF Reads!PersistLegacy, Reads!TouchLegacy
  <1>3. legacy' \in [1..(Base - 1) -> Reads!Run \cup {Reads!Gone}]
    BY <1>1, <1>2
  <1>4. UNCHANGED <<jobs, changes, runs, links, reading, expected>>
    BY DEF Reads!PersistLegacy, Reads!TouchLegacy
  <1> QED
    BY <1>3, <1>4, LegacyKeeps

-----------------------------------------------------------------------------
\* A question and its end.
LEMMA IdleHolds == Reads!Idle \in ReadingRecord /\ PagesHold(<<>>, Reads!Idle)
  <1>1. /\ <<>> \in Seq(Reads!Run \cup {Reads!Gone}) /\ <<>> \in Seq(ReadItem)
    BY EmptySeq
  <1>2. PICK r : r = Reads!Idle
    OBVIOUS
  <1>3. r \in ReadingRecord /\ r.started = FALSE /\ r.got = <<>> /\ r.after = 0 /\ r.done = FALSE
    BY <1>1, <1>2 DEF Reads!Idle, ReadingRecord
  <1> QED
    BY <1>1, <1>2, <1>3 DEF PagesHold

LEMMA AskKeeps ==
    ASSUME ReadsInv, NEW kind \in {"jobs", "events", "runs", "artifacts"},
           NEW filter \in States \cup Filters \cup Roles \cup 1..MaxJobs \cup {All},
           NEW source \in RunIds \cup {All, "registry", "legacy"}, Reads!Ask(kind, filter, source)
    PROVE  ReadsInv'
  <1>1. PICK idle : idle = Reads!Idle
    OBVIOUS
  <1>2. idle \in ReadingRecord /\ ~idle.started /\ idle.got = <<>> /\ idle.after = 0 /\ ~idle.done
    BY <1>1, IdleHolds DEF Reads!Idle
  <1>3. PICK r : r = [idle EXCEPT !.kind = kind, !.filter = filter, !.source = source]
    OBVIOUS
  <1>4. r \in ReadingRecord /\ ~r.started /\ r.got = <<>> /\ r.after = 0 /\ ~r.done
    BY ONLY <1>2, <1>3, kind \in {"jobs", "events", "runs", "artifacts"},
       filter \in States \cup Filters \cup Roles \cup 1..MaxJobs \cup {All},
       source \in RunIds \cup {All, "registry", "legacy"} DEF ReadingRecord
  <1>5. reading' = r /\ UNCHANGED <<jobs, changes, runs, legacy, links, expected>>
    BY <1>1, <1>3 DEF Reads!Ask
  <1>6. TablesTyped'
    BY <1>5 DEF ReadsInv, TablesTyped
  <1> QED
    BY <1>4, <1>5, <1>6 DEF ReadsInv, PagesHold

LEMMA EndListingKeeps ==
    ASSUME ReadsInv, Reads!EndListing
    PROVE  ReadsInv'
  <1>1. reading' = Reads!Idle /\ expected' = <<>> /\ UNCHANGED <<jobs, changes, runs, legacy, links>>
    BY DEF Reads!EndListing
  <1>2. TablesTyped'
    BY <1>1 DEF ReadsInv, TablesTyped
  <1>3. PICK r : r = Reads!Idle
    OBVIOUS
  <1>4. r \in ReadingRecord /\ ~r.started /\ r.got = <<>> /\ r.after = 0 /\ ~r.done
    BY <1>3, IdleHolds DEF Reads!Idle
  <1>5. <<>> \in Seq(ReadItem)
    BY EmptySeq
  <1> QED
    BY <1>1, <1>2, <1>3, <1>4, <1>5 DEF ReadsInv, PagesHold

-----------------------------------------------------------------------------
\* The next cursor of the listing under way, with its marks.
Continued(r, mark, seen, print) ==
    /\ r.kind = reading.kind /\ r.filter = reading.filter /\ r.source = reading.source
    /\ r.snapshot = mark /\ r.seen = seen /\ r.print = print

\* One page more, of any list: what is behind the cursor is what its query finds now.

LEMMA PageKeeps ==
    ASSUME ReadsInv, ~reading.done, UNCHANGED <<jobs, changes, runs, legacy, links>>,
           NEW F \in SUBSET (Nat \ {0}), IsFiniteSet(F), NEW k \in 0..Cardinality(F),
           NEW e \in Seq(ReadItem), Len(e) = Cardinality(F), expected' = e, reading.got = Taken(e, k),
           NEW item, \A i \in 1..Len(e) : item[Nth(F, i)] = e[i],
           NEW all, all = Reads!InOrder(Behind(F, k)),
           NEW mark \in Nat, NEW seen \in Nat, NEW print \in Seq(Reads!Run \cup {Reads!Gone}),
           Reads!Turn(all, item, mark, seen, print),
           \A r \in ReadingRecord : Continued(r, mark, seen, print) => Listed(F, e, r)'
    PROVE  ReadsInv'
  <1>1. reading \in ReadingRecord
    BY DEF ReadsInv, PagesHold
  <1>2. k \in 0..Len(e)
    OBVIOUS
  <1>3. /\ reading' \in ReadingRecord /\ Paged(F, e, reading') /\ reading'.started
        /\ reading'.snapshot = mark /\ reading'.seen = seen /\ reading'.print = print
        /\ reading'.kind = reading.kind /\ reading'.filter = reading.filter /\ reading'.source = reading.source
    BY <1>1, <1>2, TurnKeeps
  <1>4. PICK r \in ReadingRecord : r = reading'
    BY <1>3
  <1>5. Listed(F, e, r)'
    BY <1>3, <1>4 DEF Continued
  <1>6. TablesTyped'
    BY DEF ReadsInv, TablesTyped
  <1>7. (\E G : Paged(G, expected, reading) /\ Listed(G, expected, reading))'
    BY <1>3, <1>4, <1>5
  <1> QED
    BY <1>3, <1>6, <1>7 DEF ReadsInv, PagesHold

\* The state a page is asked for in: nothing returned, or the first k of what is listed.
LEMMA WhereAPageStarts ==
    ASSUME ReadsInv, ~reading.done
    PROVE  \/ ~reading.started /\ reading.got = <<>> /\ reading.after = 0
           \/ /\ reading.started
              /\ \E F : \E k \in 1..Cardinality(F) :
                    /\ IsFiniteSet(F) /\ F \in SUBSET (Nat \ {0}) /\ Cardinality(F) \in Nat
                    /\ expected \in Seq(ReadItem) /\ Len(expected) = Cardinality(F)
                    /\ reading.got = Taken(expected, k) /\ reading.after = Nth(F, k)
                    /\ Listed(F, expected, reading)
  <1>1. PagesHold(expected, reading)
    BY DEF ReadsInv
  <1>2. CASE ~reading.started
    BY <1>1, <1>2 DEF PagesHold
  <1>3. CASE reading.started
    <2>1. PICK F : Paged(F, expected, reading) /\ Listed(F, expected, reading)
      BY <1>1, <1>3 DEF PagesHold
    <2>2. PICK k \in 0..Len(expected) : /\ reading.got = Taken(expected, k)
                                        /\ k >= 1 /\ reading.after = Nth(F, k)
      BY <2>1 DEF Paged
    <2>3. IsFiniteSet(F) /\ F \in SUBSET (Nat \ {0}) /\ expected \in Seq(ReadItem) /\ Len(expected) = Cardinality(F)
      BY <2>1 DEF Paged
    <2>4. k \in 1..Cardinality(F) /\ Cardinality(F) \in Nat
      BY <2>2, <2>3, FS_CardinalityType
    <2> QED
      BY <1>3, <2>1, <2>2, <2>3, <2>4
  <1> QED
    BY <1>2, <1>3

\* What the first page expects.
LEMMA FirstExpected ==
    ASSUME NEW F \in SUBSET (Nat \ {0}), IsFiniteSet(F), NEW item, \A n \in F : item[n] \in ReadItem,
           NEW all, all = Reads!InOrder(F), ~reading.started, Reads!Expect(all, item)
    PROVE  /\ expected' \in Seq(ReadItem) /\ Len(expected') = Cardinality(F) /\ Cardinality(F) \in Nat
           /\ \A i \in 1..Len(expected') : item[Nth(F, i)] = expected'[i]
           /\ Taken(expected', 0) = <<>> /\ Behind(F, 0) = F
  <1>1. F \in SUBSET Nat
    OBVIOUS
  <1>2. /\ Cardinality(F) \in Nat /\ all \in Seq(Nat) /\ Len(all) = Cardinality(F)
        /\ \A i \in 1..Cardinality(F) : all[i] = Nth(F, i)
    BY <1>1, InOrderIs
  <1>3. PICK e : e = [i \in 1..Len(all) |-> item[all[i]]]
    OBVIOUS
  <1>4. expected' = e
    BY <1>3 DEF Reads!Expect
  <1>5. \A i \in 1..Cardinality(F) : Nth(F, i) \in F
    BY <1>1, NthHasItsRank
  <1>6. \A i \in 1..Cardinality(F) : e[i] = item[Nth(F, i)] /\ e[i] \in ReadItem
    BY <1>2, <1>3, <1>5
  <1>7. e \in [1..Cardinality(F) -> ReadItem]
    BY <1>2, <1>3, <1>6
  <1>8. e \in Seq(ReadItem) /\ Len(e) = Cardinality(F)
    BY <1>2, <1>7, LenProperties
  <1>9. Taken(e, 0) = <<>>
    BY DEF Taken
  <1> QED
    BY <1>2, <1>4, <1>6, <1>8, <1>9 DEF Behind

\* Lists whose items are the positions themselves.
NumbersListed(F, r) ==
    /\ r.kind = "jobs" => JobsListed(F, r)
    /\ r.kind = "events" => EventsListed(F, r)
    /\ r.kind = "artifacts" => LinksListed(F, r)

LEMMA NumbersKeep ==
    ASSUME ReadsInv, ~reading.done, UNCHANGED <<jobs, changes, runs, legacy, links>>,
           reading.kind \in {"jobs", "events", "artifacts"},
           NEW top \in Nat, NEW mark \in 0..top, NEW seen \in Nat,
           NEW R \in SUBSET ((reading.after + 1)..mark), NEW all, all = Reads!InOrder(R),
           NEW item, item = [n \in 1..top |-> n],
           Reads!Turn(all, item, mark, seen, <<>>), Reads!Expect(all, item),
           reading.started => \A F : Listed(F, expected, reading) =>
                /\ F \in SUBSET (1..mark) /\ R = {n \in F : n > reading.after}
                /\ \A r \in ReadingRecord : Continued(r, mark, seen, <<>>) => NumbersListed(F, r)',
           ~reading.started => \A r \in ReadingRecord : Continued(r, mark, seen, <<>>) => NumbersListed(R, r)'
    PROVE  ReadsInv'
  <1>1. reading \in ReadingRecord /\ reading.after \in Nat /\ mark \in Nat /\ <<>> \in Seq(Reads!Run \cup {Reads!Gone})
    BY EmptySeq DEF ReadsInv, PagesHold, ReadingRecord
  <1>2. CASE reading.started
    <2>0. PICK F : \E k \in 1..Cardinality(F) :
                    /\ IsFiniteSet(F) /\ F \in SUBSET (Nat \ {0}) /\ Cardinality(F) \in Nat
                    /\ expected \in Seq(ReadItem) /\ Len(expected) = Cardinality(F)
                    /\ reading.got = Taken(expected, k) /\ reading.after = Nth(F, k)
                    /\ Listed(F, expected, reading)
      BY <1>2, WhereAPageStarts
    <2>1. PICK k \in 1..Cardinality(F) :
                    /\ IsFiniteSet(F) /\ F \in SUBSET (Nat \ {0}) /\ Cardinality(F) \in Nat
                    /\ expected \in Seq(ReadItem) /\ Len(expected) = Cardinality(F)
                    /\ reading.got = Taken(expected, k) /\ reading.after = Nth(F, k)
                    /\ Listed(F, expected, reading)
      BY <2>0
    <2>2. /\ F \in SUBSET (1..mark) /\ R = {n \in F : n > reading.after}
          /\ \A r \in ReadingRecord : Continued(r, mark, seen, <<>>) => NumbersListed(F, r)'
      BY <1>2, <2>1
    <2>3. PICK e : e = expected
      OBVIOUS
    <2>4. expected' = e
      BY <1>2, <2>3 DEF Reads!Expect
    <2>5. R = Behind(F, k)
      BY <2>1, <2>2 DEF Behind
    <2>6. \A i \in 1..Len(e) : e[i] = Nth(F, i) /\ Nth(F, i) \in F
      <3>1. \A i \in 1..Cardinality(F) : Nth(F, i) \in F
        BY <2>1, NthHasItsRank
      <3> QED
        BY <2>1, <2>3, <3>1 DEF Listed
    <2>7. \A i \in 1..Len(e) : item[Nth(F, i)] = e[i]
      <3>1. \A n \in F : n \in 1..top
        BY <1>1, <2>2
      <3> QED
        BY <2>6, <3>1
    <2>8. ASSUME NEW r \in ReadingRecord, Continued(r, mark, seen, <<>>) PROVE Listed(F, e, r)'
      <3>1. NumbersListed(F, r)'
        BY <2>2, <2>8
      <3>2. r.kind \in {"jobs", "events", "artifacts"}
        BY <2>8 DEF Continued
      <3> QED
        BY <2>6, <3>1, <3>2 DEF Listed, NumbersListed
    <2>9. k \in 0..Cardinality(F)
      BY <2>1
    <2> QED
      BY ONLY <1>1, <2>1, <2>3, <2>4, <2>5, <2>7, <2>8, <2>9, PageKeeps,
         ReadsInv, ~reading.done, UNCHANGED <<jobs, changes, runs, legacy, links>>, mark \in Nat, seen \in Nat,
         all = Reads!InOrder(R), Reads!Turn(all, item, mark, seen, <<>>)
  <1>3. CASE ~reading.started
    <2>1. reading.got = <<>> /\ reading.after = 0
      BY <1>3, WhereAPageStarts
    <2>2. R \in SUBSET (1..mark) /\ R \in SUBSET (Nat \ {0}) /\ R \in SUBSET (1..top)
      BY <1>1, <2>1
    <2>3. IsFiniteSet(R)
      <3>1. IsFiniteSet(1..mark)
        BY <1>1, FS_Interval
      <3> QED
        BY <2>2, <3>1, FS_Subset
    <2>4. \A n \in R : item[n] \in ReadItem /\ item[n] = n
      BY <2>2 DEF ReadItem
    <2>5. /\ expected' \in Seq(ReadItem) /\ Len(expected') = Cardinality(R) /\ Cardinality(R) \in Nat
          /\ \A i \in 1..Len(expected') : item[Nth(R, i)] = expected'[i]
          /\ Taken(expected', 0) = <<>> /\ Behind(R, 0) = R
      BY <1>3, <2>2, <2>3, <2>4, FirstExpected
    <2>6. PICK e : e = expected'
      OBVIOUS
    <2>7. \A i \in 1..Len(e) : e[i] = Nth(R, i)
      <3>1. \A i \in 1..Cardinality(R) : Nth(R, i) \in R
        BY <2>2, <2>3, NthHasItsRank
      <3> QED
        BY <2>4, <2>5, <2>6, <3>1
    <2>8. ASSUME NEW r \in ReadingRecord, Continued(r, mark, seen, <<>>) PROVE Listed(R, e, r)'
      <3>1. NumbersListed(R, r)'
        BY <1>3, <2>8
      <3>2. r.kind \in {"jobs", "events", "artifacts"}
        BY <2>8 DEF Continued
      <3> QED
        BY <2>7, <3>1, <3>2 DEF Listed, NumbersListed
    <2>9. 0 \in 0..Cardinality(R)
      BY <2>5
    <2> QED
      BY ONLY <1>1, <2>1, <2>2, <2>3, <2>5, <2>6, <2>8, <2>9, PageKeeps,
         ReadsInv, ~reading.done, UNCHANGED <<jobs, changes, runs, legacy, links>>, mark \in Nat, seen \in Nat,
         all = Reads!InOrder(R), Reads!Turn(all, item, mark, seen, <<>>)
  <1> QED
    BY <1>2, <1>3

LEMMA ListJobsKeeps ==
    ASSUME ReadsInv, Reads!ListJobs
    PROVE  ReadsInv'
  <1> DEFINE filter == reading.filter
             after == reading.after
  <1>1. /\ reading \in ReadingRecord /\ after \in Nat /\ reading.snapshot \in Nat /\ reading.seen \in Nat
        /\ Len(jobs) \in Nat /\ Len(changes) \in Nat
    BY LenProperties DEF ReadsInv, PagesHold, ReadingRecord, TablesTyped
  <1>2. /\ reading.kind = "jobs" /\ ~reading.done /\ ~Reads!StateFilterBroken
        /\ UNCHANGED <<jobs, changes, runs, legacy, links>>
    BY DEF Reads!ListJobs
  <1>3. PICK mark \in Nat : mark = IF reading.started THEN reading.snapshot ELSE Len(jobs)
    BY <1>1
  <1>4. PICK seen \in Nat : seen = IF reading.started THEN reading.seen ELSE Len(changes)
    BY <1>1
  <1>5. PICK R : R = {n \in (after + 1)..mark : filter \in {All, jobs[n]}}
    OBVIOUS
  <1>6. PICK item : item = [n \in 1..Len(jobs) |-> n]
    OBVIOUS
  <1>7. PICK all : all = Reads!InOrder(R)
    OBVIOUS
  <1>8. Reads!Turn(all, item, mark, seen, <<>>) /\ Reads!Expect(all, item)
    BY Zenon, <1>3, <1>4, <1>5, <1>6, <1>7 DEF Reads!ListJobs, Reads!JobRows
  <1>9. R \in SUBSET ((after + 1)..mark)
    BY <1>5
  <1>10. ASSUME reading.started, NEW F, Listed(F, expected, reading)
         PROVE  /\ F \in SUBSET (1..mark) /\ R = {n \in F : n > after} /\ mark <= Len(jobs)
                /\ \A r \in ReadingRecord : Continued(r, mark, seen, <<>>) => NumbersListed(F, r)'
    <2>1. JobsListed(F, reading) /\ mark = reading.snapshot /\ seen = reading.seen
      BY <1>2, <1>3, <1>4, <1>10 DEF Listed
    <2>2. /\ F \in SUBSET (1..mark) /\ mark <= Len(jobs) /\ seen <= Len(changes)
          /\ \A n \in 1..mark : (filter = All \/ \A c \in (seen + 1)..Len(changes) : changes[c] # n) =>
                (n \in F <=> filter \in {All, jobs[n]})
      BY <2>1 DEF JobsListed
    <2>3. filter = All \/ \A c \in (seen + 1)..Len(changes) : changes[c] \notin (after + 1)..mark
      BY <1>2, <1>10, <2>1 DEF Reads!StateFilterBroken, Reads!ChangedSince
    <2>4. ASSUME NEW n \in (after + 1)..mark PROVE n \in F <=> filter \in {All, jobs[n]}
      <3>1. n \in 1..mark
        BY <1>1
      <3>2. filter = All \/ \A c \in (seen + 1)..Len(changes) : changes[c] # n
        BY <2>3
      <3> QED
        BY <2>2, <3>1, <3>2
    <2>5. \A n \in F : n > after => n \in (after + 1)..mark
      BY <1>1, <2>2
    <2>6. \A n \in (after + 1)..mark : n > after
      BY <1>1
    <2> HIDE DEF filter, after
    <2>7. R = {n \in F : n > after}
      BY <1>5, <2>4, <2>5, <2>6
    <2>8. ASSUME NEW r \in ReadingRecord, Continued(r, mark, seen, <<>>) PROVE NumbersListed(F, r)'
      <3>1. r.kind = "jobs" /\ r.filter = filter /\ r.snapshot = mark /\ r.seen = seen
        BY <1>2, <2>8 DEF Continued, filter
      <3>2. JobsListed(F, r)'
        BY <1>2, <2>2, <3>1 DEF JobsListed
      <3> QED
        BY <3>1, <3>2 DEF NumbersListed
    <2> QED
      BY <2>2, <2>7, <2>8 DEF after
  <1>11. ASSUME ~reading.started, NEW r \in ReadingRecord, Continued(r, mark, seen, <<>>)
         PROVE  NumbersListed(R, r)'
    <2>1. after = 0
      BY <1>2, <1>11, WhereAPageStarts
    <2>2. /\ r.kind = "jobs" /\ r.filter = filter /\ r.snapshot = mark /\ r.seen = seen
          /\ mark = Len(jobs) /\ seen = Len(changes)
      BY <1>2, <1>3, <1>4, <1>11 DEF Continued
    <2>3. R = {n \in 1..mark : r.filter \in {All, jobs[n]}}
      BY <1>5, <2>1, <2>2
    <2>4. JobsListed(R, r)'
      BY <1>1, <1>2, <2>2, <2>3 DEF JobsListed
    <2> QED
      BY <2>2, <2>4 DEF NumbersListed
  <1>12. mark \in 0..Len(jobs)
    <2>1. CASE reading.started
      <3>1. PICK F : Listed(F, expected, reading)
        BY <2>1, <1>2, WhereAPageStarts
      <3> QED
        BY <1>1, <1>10, <2>1, <3>1
    <2>2. CASE ~reading.started
      BY <1>1, <1>3, <2>2
    <2> QED
      BY <2>1, <2>2
  <1>13. reading.kind \in {"jobs", "events", "artifacts"}
    BY <1>2
  <1> HIDE DEF after, filter
  <1>14. reading.started => \A F : Listed(F, expected, reading) =>
                /\ F \in SUBSET (1..mark) /\ R = {n \in F : n > reading.after}
                /\ \A r \in ReadingRecord : Continued(r, mark, seen, <<>>) => NumbersListed(F, r)'
    BY <1>10 DEF after
  <1>15. R \in SUBSET ((reading.after + 1)..mark)
    BY <1>9 DEF after
  <1> QED
    BY <1>1, <1>2, <1>6, <1>7, <1>8, <1>11, <1>12, <1>13, <1>14, <1>15, NumbersKeep

LEMMA ListEventsKeeps ==
    ASSUME ReadsInv, Reads!ListEvents
    PROVE  ReadsInv'
  <1> DEFINE filter == reading.filter
             after == reading.after
  <1>1. /\ reading \in ReadingRecord /\ after \in Nat /\ reading.snapshot \in Nat /\ Len(changes) \in Nat
    BY LenProperties DEF ReadsInv, PagesHold, ReadingRecord, TablesTyped
  <1>2. /\ reading.kind = "events" /\ ~reading.done
        /\ UNCHANGED <<jobs, changes, runs, legacy, links>>
    BY DEF Reads!ListEvents
  <1>3. PICK mark \in Nat : mark = IF reading.started THEN reading.snapshot ELSE Len(changes)
    BY <1>1
  <1>4. PICK R : R = {n \in (after + 1)..mark : filter \in {All, changes[n]}}
    OBVIOUS
  <1>5. PICK item : item = [n \in 1..Len(changes) |-> n]
    OBVIOUS
  <1>6. PICK all : all = Reads!InOrder(R)
    OBVIOUS
  <1>7. Reads!Turn(all, item, mark, 0, <<>>) /\ Reads!Expect(all, item)
    BY Zenon, <1>3, <1>4, <1>5, <1>6 DEF Reads!ListEvents
  <1>8. ASSUME reading.started, NEW F, Listed(F, expected, reading)
        PROVE  /\ F \in SUBSET (1..mark) /\ R = {n \in F : n > after} /\ mark <= Len(changes)
               /\ \A r \in ReadingRecord : Continued(r, mark, 0, <<>>) => NumbersListed(F, r)'
    <2>1. EventsListed(F, reading) /\ mark = reading.snapshot
      BY <1>2, <1>3, <1>8 DEF Listed
    <2>2. F = {n \in 1..mark : filter \in {All, changes[n]}} /\ mark <= Len(changes)
      BY <2>1 DEF EventsListed
    <2>3. \A n : n \in (after + 1)..mark <=> n \in 1..mark /\ n > after
      BY <1>1
    <2> HIDE DEF filter, after
    <2>4. R = {n \in F : n > after}
      BY <1>4, <2>2, <2>3
    <2>5. ASSUME NEW r \in ReadingRecord, Continued(r, mark, 0, <<>>) PROVE NumbersListed(F, r)'
      <3>1. r.kind = "events" /\ r.filter = filter /\ r.snapshot = mark
        BY <1>2, <2>5 DEF Continued, filter
      <3>2. EventsListed(F, r)'
        BY <1>2, <2>2, <3>1 DEF EventsListed
      <3> QED
        BY <3>1, <3>2 DEF NumbersListed
    <2> QED
      BY <2>2, <2>4, <2>5 DEF after
  <1>9. ASSUME ~reading.started, NEW r \in ReadingRecord, Continued(r, mark, 0, <<>>)
        PROVE  NumbersListed(R, r)'
    <2>1. after = 0
      BY <1>2, <1>9, WhereAPageStarts
    <2>2. r.kind = "events" /\ r.filter = filter /\ r.snapshot = mark /\ mark = Len(changes)
      BY <1>2, <1>3, <1>9 DEF Continued
    <2>3. R = {n \in 1..mark : r.filter \in {All, changes[n]}}
      BY <1>4, <2>1, <2>2
    <2>4. EventsListed(R, r)'
      BY <1>1, <1>2, <2>2, <2>3 DEF EventsListed
    <2> QED
      BY <2>2, <2>4 DEF NumbersListed
  <1>10. mark \in 0..Len(changes)
    <2>1. CASE reading.started
      <3>1. PICK F : Listed(F, expected, reading)
        BY <2>1, <1>2, WhereAPageStarts
      <3> QED
        BY <1>1, <1>8, <2>1, <3>1
    <2>2. CASE ~reading.started
      BY <1>1, <1>3, <2>2
    <2> QED
      BY <2>1, <2>2
  <1>11. reading.kind \in {"jobs", "events", "artifacts"} /\ R \in SUBSET ((reading.after + 1)..mark) /\ 0 \in Nat
    BY <1>2, <1>4
  <1> HIDE DEF after, filter
  <1>12. reading.started => \A F : Listed(F, expected, reading) =>
                /\ F \in SUBSET (1..mark) /\ R = {n \in F : n > reading.after}
                /\ \A r \in ReadingRecord : Continued(r, mark, 0, <<>>) => NumbersListed(F, r)'
    BY <1>8 DEF after
  <1> QED
    BY <1>1, <1>2, <1>5, <1>6, <1>7, <1>9, <1>10, <1>11, <1>12, NumbersKeep

LEMMA LinkMaxIs ==
    ASSUME TablesTyped, NEW run
    PROVE  Reads!LinkMax(run) \in 0..Len(links)
  <1> DEFINE own == {n \in 1..Len(links) : links[n].run = run}
  <1>1. Len(links) \in Nat
    BY LenProperties DEF TablesTyped
  <1>2. CASE own = {}
    BY <1>1, <1>2 DEF Reads!LinkMax
  <1>3. CASE own # {}
    <2>1. own \in SUBSET (0..Len(links))
      BY <1>1
    <2>2. \E x \in own : \A y \in own : x >= y
      <3> HIDE DEF own
      <3> QED
        BY <1>1, <1>3, <2>1, Greatest
    <2>3. PICK x : x = CHOOSE m \in own : \A y \in own : m >= y
      OBVIOUS
    <2>4. x \in own
      <3> HIDE DEF own
      <3> QED
        BY <2>2, <2>3
    <2>5. Reads!LinkMax(run) = x
      BY <1>3, <2>3 DEF Reads!LinkMax, Reads!Max
    <2> QED
      BY <2>1, <2>4, <2>5
  <1> QED
    BY <1>2, <1>3

LEMMA ListRunArtifactsKeeps ==
    ASSUME ReadsInv, Reads!ListRunArtifacts
    PROVE  ReadsInv'
  <1> DEFINE filter == reading.filter
             after == reading.after
             Wanted(n) == links[n].run = reading.source /\ filter \in {All, links[n].role}
  <1>1. /\ reading \in ReadingRecord /\ after \in Nat /\ reading.snapshot \in Nat /\ Len(links) \in Nat
    BY LenProperties DEF ReadsInv, PagesHold, ReadingRecord, TablesTyped
  <1>2. /\ reading.kind = "artifacts" /\ ~reading.done
        /\ UNCHANGED <<jobs, changes, runs, legacy, links>>
    BY DEF Reads!ListRunArtifacts
  <1>0. Reads!LinkMax(reading.source) \in 0..Len(links)
    BY LinkMaxIs DEF ReadsInv
  <1>3. PICK mark \in Nat : mark = IF reading.started THEN reading.snapshot ELSE Reads!LinkMax(reading.source)
    BY <1>0, <1>1
  <1>4. PICK R : R = {n \in (after + 1)..mark : Wanted(n)}
    OBVIOUS
  <1>5. PICK item : item = [n \in 1..Len(links) |-> n]
    OBVIOUS
  <1>6. PICK all : all = Reads!InOrder(R)
    OBVIOUS
  <1>7. Reads!Turn(all, item, mark, 0, <<>>) /\ Reads!Expect(all, item)
    BY Zenon, <1>3, <1>4, <1>5, <1>6 DEF Reads!ListRunArtifacts, Reads!LinkRows
  <1>8. ASSUME reading.started, NEW F, Listed(F, expected, reading)
        PROVE  /\ F \in SUBSET (1..mark) /\ R = {n \in F : n > after} /\ mark <= Len(links)
               /\ \A r \in ReadingRecord : Continued(r, mark, 0, <<>>) => NumbersListed(F, r)'
    <2>1. LinksListed(F, reading) /\ mark = reading.snapshot
      BY <1>2, <1>3, <1>8 DEF Listed
    <2>2. F = {n \in 1..mark : Wanted(n)} /\ mark <= Len(links)
      BY <2>1 DEF LinksListed
    <2>3. \A n : n \in (after + 1)..mark <=> n \in 1..mark /\ n > after
      BY <1>1
    <2>5. ASSUME NEW r \in ReadingRecord, Continued(r, mark, 0, <<>>) PROVE NumbersListed(F, r)'
      <3>1. r.kind = "artifacts" /\ r.filter = filter /\ r.snapshot = mark /\ r.source = reading.source
        BY <1>2, <2>5 DEF Continued
      <3>2. LinksListed(F, r)'
        BY <1>2, <2>2, <3>1 DEF LinksListed
      <3> QED
        BY <3>1, <3>2 DEF NumbersListed
    <2> HIDE DEF Wanted, after
    <2>4. R = {n \in F : n > after}
      BY <1>4, <2>2, <2>3
    <2> QED
      BY <2>2, <2>4, <2>5
  <1>9. ASSUME ~reading.started, NEW r \in ReadingRecord, Continued(r, mark, 0, <<>>)
        PROVE  NumbersListed(R, r)'
    <2>1. after = 0
      BY <1>2, <1>9, WhereAPageStarts
    <2>2. /\ r.kind = "artifacts" /\ r.filter = filter /\ r.snapshot = mark /\ r.source = reading.source
          /\ mark <= Len(links)
      BY <1>0, <1>1, <1>2, <1>3, <1>9 DEF Continued
    <2>3. R = {n \in 1..mark : links[n].run = r.source /\ r.filter \in {All, links[n].role}}
      BY <1>4, <2>1, <2>2
    <2>4. LinksListed(R, r)'
      BY <1>1, <1>2, <2>2, <2>3 DEF LinksListed
    <2> QED
      BY <2>2, <2>4 DEF NumbersListed
  <1>10. mark \in 0..Len(links)
    <2>1. CASE reading.started
      <3>1. PICK F : Listed(F, expected, reading)
        BY <2>1, <1>2, WhereAPageStarts
      <3> QED
        BY <1>1, <1>8, <2>1, <3>1
    <2>2. CASE ~reading.started
      BY <1>0, <1>1, <1>3, <2>2
    <2> QED
      BY <2>1, <2>2
  <1>11. reading.kind \in {"jobs", "events", "artifacts"} /\ R \in SUBSET ((reading.after + 1)..mark) /\ 0 \in Nat
    BY <1>2, <1>4
  <1> HIDE DEF after, filter, Wanted
  <1>12. reading.started => \A F : Listed(F, expected, reading) =>
                /\ F \in SUBSET (1..mark) /\ R = {n \in F : n > reading.after}
                /\ \A r \in ReadingRecord : Continued(r, mark, 0, <<>>) => NumbersListed(F, r)'
    BY <1>8 DEF after
  <1> QED
    BY <1>1, <1>2, <1>5, <1>6, <1>7, <1>9, <1>10, <1>11, <1>12, NumbersKeep

\* Runs under two marks.
LEMMA PartsOfASnapshot ==
    ASSUME NEW a \in Nat, NEW b \in 0..(Base - 1)
    PROVE  /\ Reads!EncodeSnapshot(a, b) \in Nat
           /\ Reads!RegistryMax(Reads!EncodeSnapshot(a, b)) = a
           /\ Reads!LegacyMaxOf(Reads!EncodeSnapshot(a, b)) = b
  <1>1. Base \in Nat \ {0} /\ b \in Nat /\ b < Base
    BY ReadsAssumption
  <1>2. PICK x : x = a * Base + b
    OBVIOUS
  <1>3. x \in Nat
    <2>1. a * Base \in Nat
      BY <1>1
    <2> QED
      BY <1>1, <1>2, <2>1
  <1>4. PICK q : q = x \div Base
    OBVIOUS
  <1>5. PICK m : m = x % Base
    OBVIOUS
  <1>6. q \in Int /\ m \in 0..(Base - 1) /\ x = Base * q + m
    BY <1>1, <1>3, <1>4, <1>5
  <1>7. q = a
    <2>1. ASSUME q > a PROVE FALSE
      <3>1. PICK d \in Nat : q = a + 1 + d
        <4>1. q - a - 1 \in Nat /\ q = a + 1 + (q - a - 1)
          BY <1>6, <2>1
        <4> QED
          BY <4>1
      <3>2. Base * q = Base * a + Base + Base * d /\ Base * d \in Nat
        BY <1>1, <3>1
      <3>3. Base * a = a * Base /\ a * Base \in Nat
        BY <1>1
      <3> QED
        BY <1>1, <1>2, <1>6, <3>2, <3>3
    <2>2. ASSUME q < a PROVE FALSE
      <3>1. PICK d \in Nat : a = q + 1 + d
        <4>1. a - q - 1 \in Nat /\ a = q + 1 + (a - q - 1)
          BY <1>6, <2>2
        <4> QED
          BY <4>1
      <3>2. a * Base = Base * q + Base + Base * d /\ Base * d \in Nat
        BY <1>1, <1>6, <3>1
      <3>3. Base * q \in Int
        BY <1>1, <1>6
      <3> QED
        BY <1>1, <1>2, <1>6, <3>2, <3>3
    <2> QED
      BY <1>6, <2>1, <2>2
  <1>8. m = b
    <2>1. Base * q = a * Base /\ a * Base \in Nat
      BY <1>1, <1>7
    <2> QED
      BY <1>1, <1>2, <1>6, <2>1
  <1> QED
    BY <1>2, <1>3, <1>4, <1>5, <1>7, <1>8 DEF Reads!EncodeSnapshot, Reads!RegistryMax, Reads!LegacyMaxOf

LEMMA LegacyMaxIs == Reads!LegacyMax \in 0..(Base - 1)
  <1> DEFINE there == Reads!Rows
  <1>1. Base \in Nat /\ Base # 0
    BY ReadsAssumption
  <1>2. CASE there = {}
    BY <1>1, <1>2 DEF Reads!LegacyMax
  <1>3. CASE there # {}
    <2>1. there \in SUBSET (0..(Base - 1)) /\ Base - 1 \in Nat
      BY <1>1 DEF Reads!Rows
    <2>2. \E x \in there : \A y \in there : x >= y
      <3> HIDE DEF there
      <3> QED
        BY <1>3, <2>1, Greatest
    <2>3. PICK x : x = CHOOSE m \in there : \A y \in there : m >= y
      OBVIOUS
    <2>4. x \in there
      <3> HIDE DEF there
      <3> QED
        BY <2>2, <2>3
    <2>5. Reads!LegacyMax = x
      BY <1>3, <2>3 DEF Reads!LegacyMax, Reads!Max
    <2> QED
      BY <2>1, <2>4, <2>5
  <1> QED
    BY <1>2, <1>3

LEMMA OrderGoesOn ==
    ASSUME NEW A \in SUBSET Nat, IsFiniteSet(A), NEW B \in SUBSET Nat, IsFiniteSet(B),
           \A a \in A, b \in B : a < b
    PROVE  Reads!InOrder(A) \o Reads!InOrder(B) = Reads!InOrder(A \cup B)
  <1> DEFINE U == A \cup B
             s == Reads!InOrder(A)
             t == Reads!InOrder(B)
             u == Reads!InOrder(U)
             a == Cardinality(A)
             b == Cardinality(B)
  <1>1. /\ IsFiniteSet(U) /\ U \in SUBSET Nat /\ a \in Nat /\ b \in Nat /\ Cardinality(U) = a + b
        /\ \A i \in 1..a : Nth(U, i) = Nth(A, i)
        /\ \A i \in 1..b : Nth(U, a + i) = Nth(B, i)
    BY RanksGoOn
  <1>2. s \in Seq(Nat) /\ Len(s) = a /\ \A i \in 1..a : s[i] = Nth(A, i)
    BY InOrderIs
  <1>3. t \in Seq(Nat) /\ Len(t) = b /\ \A i \in 1..b : t[i] = Nth(B, i)
    BY InOrderIs
  <1> HIDE DEF U
  <1>4. u \in Seq(Nat) /\ Len(u) = a + b /\ \A i \in 1..(a + b) : u[i] = Nth(U, i)
    BY <1>1, InOrderIs
  <1> HIDE DEF s, t, u, a, b
  <1>5. /\ s \o t \in Seq(Nat) /\ Len(s \o t) = a + b
        /\ \A i \in 1..(a + b) : (s \o t)[i] = IF i <= a THEN s[i] ELSE t[i - a]
    BY <1>2, <1>3, ConcatProperties
  <1>6. ASSUME NEW i \in 1..(a + b) PROVE (s \o t)[i] = u[i]
    <2>1. CASE i <= a
      <3>1. i \in 1..a
        BY <2>1
      <3> QED
        BY <1>1, <1>2, <1>4, <1>5, <2>1, <3>1
    <2>2. CASE ~(i <= a)
      <3>1. i - a \in 1..b /\ a + (i - a) = i
        BY <1>1, <2>2
      <3>2. Nth(U, i) = Nth(B, i - a)
        BY <1>1, <3>1
      <3>3. t[i - a] = Nth(B, i - a)
        BY <1>3, <3>1
      <3> QED
        BY <1>4, <1>5, <2>2, <3>2, <3>3
    <2> QED
      BY <2>1, <2>2
  <1>7. s \o t = u
    BY <1>4, <1>5, <1>6, SeqEqual
  <1> QED
    BY <1>7 DEF s, t, u, U

LEMMA NothingInOrder == Reads!InOrder({}) = <<>>
  <1>1. IsFiniteSet({}) /\ Cardinality({}) = 0
    BY FS_EmptySet
  <1>2. Reads!InOrder({}) \in Seq(Nat) /\ Len(Reads!InOrder({})) = 0
    BY <1>1, InOrderIs
  <1> QED
    BY <1>2, EmptySeq

WantedRuns(filter, source, top) ==
    {n \in 1..top : source # "legacy" /\ filter \in {All, runs[n].status}}

WantedRows(filter, source, top) ==
    {n \in (Base + 1)..(Base + top) : /\ source # "registry" /\ legacy[n - Base] # Reads!Gone
                                      /\ filter \in {All, legacy[n - Base].status}}

LEMMA RunAtIs ==
    ASSUME NEW n
    PROVE  /\ n \in 1..Len(runs) /\ n < Base => Reads!RunAt[n] = [at |-> n, run |-> runs[n]] /\ n \in DOMAIN Reads!RunAt
           /\ n \in (Base + 1)..(2 * Base - 1) =>
                Reads!RunAt[n] = [at |-> n, run |-> legacy[n - Base]] /\ n \in DOMAIN Reads!RunAt
  <1>1. Base \in Nat
    BY ReadsAssumption
  <1>2. DOMAIN Reads!RunAt = 1..(2 * Base - 1)
    BY DEF Reads!RunAt
  <1>3. ASSUME n \in 1..Len(runs), n < Base
        PROVE  Reads!RunAt[n] = [at |-> n, run |-> runs[n]] /\ n \in DOMAIN Reads!RunAt
    <2>1. n \in 1..(2 * Base - 1) /\ n <= Len(runs)
      BY <1>1, <1>3
    <2> QED
      BY <1>2, <1>3, <2>1 DEF Reads!RunAt
  <1>4. ASSUME n \in (Base + 1)..(2 * Base - 1)
        PROVE  Reads!RunAt[n] = [at |-> n, run |-> legacy[n - Base]] /\ n \in DOMAIN Reads!RunAt
    <2>1. n \in 1..(2 * Base - 1) /\ ~(n < Base) /\ n > Base
      BY <1>1, <1>4
    <2> QED
      BY <1>2, <2>1 DEF Reads!RunAt
  <1> QED
    BY <1>3, <1>4

Beyond(S, after) == {n \in S : n > after}

\* The rows behind a cursor under both marks.
RunsBehind(filter, source, after, mark) ==
    Beyond(WantedRuns(filter, source, Reads!RegistryMax(mark)) \cup WantedRows(filter, source, Reads!LegacyMaxOf(mark)),
           after)

\* The marks of a listing lie in what is there.
MarksHold(mark) ==
    /\ Reads!RegistryMax(mark) \in Nat /\ Reads!LegacyMaxOf(mark) \in Nat
    /\ Reads!RegistryMax(mark) < Base /\ Reads!RegistryMax(mark) <= Len(runs)
    /\ Reads!LegacyMaxOf(mark) < Base

LEMMA RunRowsAre ==
    ASSUME NEW filter, NEW source, NEW after \in Nat, NEW mark, MarksHold(mark), TablesTyped
    PROVE  Reads!RunRows(filter, source, after, mark) = Reads!InOrder(RunsBehind(filter, source, after, mark))
  <1> DEFINE a == Reads!RegistryMax(mark)
             b == Reads!LegacyMaxOf(mark)
             wanted == {n \in DOMAIN Reads!RunAt : filter \in {All, Reads!RunAt[n].run.status}}
             from == IF after > Base THEN after ELSE Base
             A == {n \in (after + 1)..a : source # "legacy" /\ n \in wanted}
             B == {n \in (from + 1)..(Base + b) : source # "registry" /\ Reads!RunAt[n].run # Reads!Gone /\ n \in wanted}
             all == Beyond(WantedRuns(filter, source, a) \cup WantedRows(filter, source, b), after)
  <1>0. a \in Nat /\ a < Base /\ a <= Len(runs) /\ Len(runs) \in Nat /\ b \in Nat /\ b < Base
    BY LenProperties DEF MarksHold, TablesTyped
  <1>1. Base \in Nat
    BY ReadsAssumption
  <1>2. \A n \in 1..a : Reads!RunAt[n].run = runs[n] /\ n \in DOMAIN Reads!RunAt
    <2>1. ASSUME NEW n \in 1..a PROVE Reads!RunAt[n].run = runs[n] /\ n \in DOMAIN Reads!RunAt
      <3>1. n \in 1..Len(runs) /\ n < Base
        BY <1>0, <1>1
      <3>2. Reads!RunAt[n] = [at |-> n, run |-> runs[n]] /\ n \in DOMAIN Reads!RunAt
        BY <3>1, RunAtIs
      <3> QED
        BY <3>2
    <2> QED
      BY <2>1
  <1>3. \A n \in (Base + 1)..(Base + b) : Reads!RunAt[n].run = legacy[n - Base] /\ n \in DOMAIN Reads!RunAt
    <2>1. ASSUME NEW n \in (Base + 1)..(Base + b)
          PROVE  Reads!RunAt[n].run = legacy[n - Base] /\ n \in DOMAIN Reads!RunAt
      <3>1. n \in (Base + 1)..(2 * Base - 1)
        BY <1>0, <1>1
      <3>2. Reads!RunAt[n] = [at |-> n, run |-> legacy[n - Base]] /\ n \in DOMAIN Reads!RunAt
        BY <3>1, RunAtIs
      <3> QED
        BY <3>2
    <2> QED
      BY <2>1
  <1>4. from \in Nat /\ \A n : n \in (from + 1)..(Base + b) <=> n \in (Base + 1)..(Base + b) /\ n > after
    BY <1>0, <1>1
  <1>5. \A n : n \in (after + 1)..a <=> n \in 1..a /\ n > after
    BY <1>0
  <1>6. A = {n \in WantedRuns(filter, source, a) : n > after}
    <2>1. \A n \in 1..a : n \in wanted <=> filter \in {All, runs[n].status}
      BY <1>2
    <2> HIDE DEF wanted
    <2> QED
      BY <1>5, <2>1 DEF WantedRuns
  <1>7. B = {n \in WantedRows(filter, source, b) : n > after}
    <2>1. \A n \in (Base + 1)..(Base + b) : n \in wanted <=> filter \in {All, legacy[n - Base].status}
      BY <1>3
    <2> HIDE DEF wanted, from
    <2> QED
      BY <1>3, <1>4, <2>1 DEF WantedRows
  <1>8. all = A \cup B
    BY <1>6, <1>7 DEF Beyond
  <1>9. Reads!RunRows(filter, source, after, mark) =
          (IF after < Base THEN Reads!InOrder(A) ELSE <<>>) \o Reads!InOrder(B)
    BY Zenon DEF Reads!RunRows
  <1>10. A \in SUBSET (1..a) /\ B \in SUBSET ((Base + 1)..(Base + b))
    BY <1>4, <1>5
  <1> HIDE DEF a, b, A, B, all, wanted, from
  <1>11. IsFiniteSet(A) /\ IsFiniteSet(B) /\ A \in SUBSET Nat /\ B \in SUBSET Nat
    <2>0. Base + 1 \in Int /\ Base + b \in Int /\ a \in Int /\ 1 \in Int
      BY <1>0, <1>1
    <2>1. IsFiniteSet(1..a) /\ IsFiniteSet((Base + 1)..(Base + b))
      BY <2>0, FS_Interval
    <2>2. IsFiniteSet(A) /\ IsFiniteSet(B)
      BY <1>10, <2>1, FS_Subset
    <2> QED
      BY <1>0, <1>1, <1>10, <2>2
  <1>12. \A x \in A, y \in B : x < y
    BY <1>0, <1>1, <1>10
  <1>13. (IF after < Base THEN Reads!InOrder(A) ELSE <<>>) = Reads!InOrder(A)
    <2>1. CASE after < Base
      BY <2>1
    <2>2. CASE ~(after < Base)
      <3>1. A = {}
        BY <1>0, <1>1, <1>6, <1>10, <2>2
      <3> QED
        BY <2>2, <3>1, NothingInOrder
    <2> QED
      BY <2>1, <2>2
  <1>14. Reads!InOrder(A) \o Reads!InOrder(B) = Reads!InOrder(A \cup B)
    BY <1>11, <1>12, OrderGoesOn
  <1>15. Reads!RunRows(filter, source, after, mark) = Reads!InOrder(all)
    BY Zenon, <1>8, <1>9, <1>13, <1>14
  <1> QED
    BY <1>15 DEF all, a, b, RunsBehind

LEMMA ListRunsKeeps ==
    ASSUME ReadsInv, Reads!ListRuns
    PROVE  ReadsInv'
  <1> DEFINE filter == reading.filter
             source == reading.source
             after == reading.after
  <1>1. /\ reading \in ReadingRecord /\ after \in Nat /\ reading.snapshot \in Nat
        /\ Len(runs) \in Nat /\ Base \in Nat \ {0} /\ TablesTyped
    BY LenProperties, ReadsAssumption DEF ReadsInv, PagesHold, ReadingRecord, TablesTyped
  <1>2. /\ reading.kind = "runs" /\ ~reading.done /\ Reads!LegacyIsAsItWas
        /\ reading.started \/ Len(runs) < Base
        /\ UNCHANGED <<jobs, changes, runs, legacy, links>>
    BY DEF Reads!ListRuns
  <1>3. PICK mark : mark = IF reading.started THEN reading.snapshot ELSE Reads!EncodeSnapshot(Len(runs), Reads!LegacyMax)
    OBVIOUS
  <1> DEFINE a == Reads!RegistryMax(mark)
             b == Reads!LegacyMaxOf(mark)
  <1>4. ASSUME ~reading.started PROVE mark \in Nat /\ a = Len(runs) /\ b = Reads!LegacyMax
    BY <1>1, <1>3, <1>4, LegacyMaxIs, PartsOfASnapshot
  <1>5. mark \in Nat /\ a \in Nat /\ a < Base /\ a <= Len(runs) /\ b \in Nat /\ b < Base
    <2>1. CASE reading.started
      <3>1. PICK F : Listed(F, expected, reading)
        BY <2>1, <1>2, WhereAPageStarts
      <3>2. RunsListed(F, expected, reading) /\ mark = reading.snapshot
        BY <1>2, <1>3, <2>1, <3>1 DEF Listed
      <3> QED
        BY <1>1, <3>2 DEF RunsListed
    <2>2. CASE ~reading.started
      <3>1. b \in 0..(Base - 1)
        BY <1>4, <2>2, LegacyMaxIs
      <3> HIDE DEF a, b
      <3> QED
        BY <1>1, <1>2, <1>4, <2>2, <3>1
    <2> QED
      BY <2>1, <2>2
  <1>6. PICK print : print = [n \in 1..b |-> legacy[n]]
    OBVIOUS
  <1>7. print \in Seq(Reads!Run \cup {Reads!Gone}) /\ Len(print) = b /\ \A n \in 1..b : print[n] = legacy[n]
    <2> HIDE DEF a, b
    <2>1. \A n \in 1..b : legacy[n] \in Reads!Run \cup {Reads!Gone}
      <3>1. \A n \in 1..b : n \in 1..(Base - 1)
        BY <1>1, <1>5
      <3> QED
        BY <1>1, <3>1 DEF TablesTyped
    <2>2. print \in [1..b -> Reads!Run \cup {Reads!Gone}]
      BY <1>6, <2>1
    <2> QED
      BY <1>5, <1>6, <2>2, LenProperties
  <1> DEFINE A == WantedRuns(filter, source, a)
             B == WantedRows(filter, source, b)
  <1>0. PICK F : F = A \cup B
    OBVIOUS
  <1>8. PICK all : all = Reads!InOrder(Beyond(F, after))
    OBVIOUS
  <1>9. PICK item : item = Reads!RunAt
    OBVIOUS
  <1>10. Reads!RunRows(filter, source, after, mark) = all
    <2>1. MarksHold(mark)
      BY <1>5 DEF MarksHold
    <2>2. Reads!RunRows(filter, source, after, mark) = Reads!InOrder(RunsBehind(filter, source, after, mark))
      BY <1>1, <2>1, RunRowsAre
    <2>3. RunsBehind(filter, source, after, mark) = Beyond(A \cup B, after)
      BY DEF RunsBehind
    <2> HIDE DEF A, B
    <2> QED
      BY Zenon, <1>0, <1>8, <2>2, <2>3
  <1>11. Reads!Turn(all, item, mark, 0, print) /\ Reads!Expect(all, item)
    <2>1. print = Reads!Fingerprint(b)
      BY <1>6 DEF Reads!Fingerprint
    <2> QED
      BY Zenon, <1>3, <1>9, <1>10, <2>1 DEF Reads!ListRuns
  <1>12. A \in SUBSET (1..a) /\ B \in SUBSET ((Base + 1)..(Base + b))
    BY DEF WantedRuns, WantedRows
  <1> HIDE DEF a, b, A, B
  <1>13. F \in SUBSET (Nat \ {0}) /\ IsFiniteSet(F)
    <2>1. Base + 1 \in Int /\ Base + b \in Int /\ Base \in Nat
      BY <1>1, <1>5
    <2>2. IsFiniteSet(1..a) /\ IsFiniteSet((Base + 1)..(Base + b))
      BY <1>5, <2>1, FS_Interval
    <2>3. IsFiniteSet(A) /\ IsFiniteSet(B)
      BY <1>12, <2>2, FS_Subset
    <2>4. A \in SUBSET (Nat \ {0}) /\ B \in SUBSET (Nat \ {0})
      BY <1>5, <1>12, <2>1
    <2> QED
      BY <1>0, <2>3, <2>4, FS_Union
  <1>14. ASSUME NEW n \in F
         PROVE  /\ item[n] = [at |-> n, run |-> IF n < Base THEN runs[n] ELSE legacy[n - Base]]
                /\ item[n] \in ReadItem /\ n \in Nat /\ (~(n < Base) => n - Base \in 1..b)
    <2>1. CASE n \in A
      <3>1. n \in 1..Len(runs) /\ n < Base
        BY <1>1, <1>5, <1>12, <2>1
      <3>2. item[n] = [at |-> n, run |-> runs[n]] /\ runs[n] \in Reads!Run
        BY <1>1, <1>9, <3>1, RunAtIs, ElementOfSeq DEF TablesTyped
      <3> QED
        BY <3>1, <3>2 DEF ReadItem
    <2>2. CASE n \in B
      <3>1. n \in (Base + 1)..(2 * Base - 1) /\ ~(n < Base) /\ n - Base \in 1..(Base - 1) /\ n - Base \in 1..b /\ n \in Nat
        BY <1>1, <1>5, <1>12, <2>2
      <3>2. item[n] = [at |-> n, run |-> legacy[n - Base]] /\ legacy[n - Base] \in Reads!Run \cup {Reads!Gone}
        BY <1>1, <1>9, <3>1, RunAtIs DEF TablesTyped
      <3> QED
        BY <3>1, <3>2 DEF ReadItem
    <2> QED
      BY <1>0, <2>1, <2>2
  \* What is listed under these marks, now and from now on.
  <1>15. ASSUME NEW r \in ReadingRecord, r.filter = filter, r.source = source, r.snapshot = mark,
                source # "registry" => r.print = print
         PROVE  RunsUpTo(r) = A /\ RowsUpTo(r) = B
    <2>1. RunsUpTo(r) = A
      BY <1>15 DEF RunsUpTo, A, WantedRuns, a
    <2>2. \A n \in (Base + 1)..(Base + b) : source # "registry" => r.print[n - Base] = legacy[n - Base]
      <3>1. \A n \in (Base + 1)..(Base + b) : n - Base \in 1..b
        BY <1>1, <1>5
      <3> QED
        BY <1>7, <1>15, <3>1
    <2>3. RowsUpTo(r) = B
      BY <1>15, <2>2 DEF RowsUpTo, B, WantedRows, b
    <2> QED
      BY <2>1, <2>3
  <1>16. ASSUME NEW e \in Seq(ReadItem), Len(e) = Cardinality(F), \A i \in 1..Len(e) : e[i] = item[Nth(F, i)],
                NEW r \in ReadingRecord, Continued(r, mark, 0, print)
         PROVE  Listed(F, e, r)'
    <2>1. /\ r.kind = "runs" /\ r.filter = filter /\ r.source = source /\ r.snapshot = mark /\ r.print = print
      BY <1>2, <1>16 DEF Continued
    <2>2. RunsUpTo(r) = A /\ RowsUpTo(r) = B
      BY <1>15, <2>1
    <2>3. \A n \in F : item[n] = ItemAt(r, n)
      BY <1>7, <1>14, <2>1 DEF ItemAt
    <2>4. \A i \in 1..Len(e) : Nth(F, i) \in F
      BY <1>13, <1>16, NthHasItsRank
    <2>5. \A i \in 1..Len(e) : e[i] = ItemAt(r, Nth(F, i))
      BY <1>16, <2>3, <2>4
    <2>6. RunsListed(F, e, r)
      BY <1>0, <1>5, <1>7, <2>1, <2>2, <2>5 DEF RunsListed, a, b
    <2>7. RunsListed(F, e, r)'
      <3>1. RunsUpTo(r)' = RunsUpTo(r) /\ RowsUpTo(r)' = RowsUpTo(r) /\ \A n : ItemAt(r, n)' = ItemAt(r, n)
        BY <1>2 DEF RunsUpTo, RowsUpTo, ItemAt
      <3> QED
        BY <1>2, <2>6, <3>1 DEF RunsListed
    <2> QED
      BY <2>1, <2>7 DEF Listed
  <1>17. CASE reading.started
    <2>0. PICK G : \E k \in 1..Cardinality(G) :
                    /\ IsFiniteSet(G) /\ G \in SUBSET (Nat \ {0}) /\ Cardinality(G) \in Nat
                    /\ expected \in Seq(ReadItem) /\ Len(expected) = Cardinality(G)
                    /\ reading.got = Taken(expected, k) /\ reading.after = Nth(G, k)
                    /\ Listed(G, expected, reading)
      BY <1>2, <1>17, WhereAPageStarts
    <2>1. PICK k \in 1..Cardinality(G) :
                    /\ IsFiniteSet(G) /\ G \in SUBSET (Nat \ {0}) /\ Cardinality(G) \in Nat
                    /\ expected \in Seq(ReadItem) /\ Len(expected) = Cardinality(G)
                    /\ reading.got = Taken(expected, k) /\ reading.after = Nth(G, k)
                    /\ Listed(G, expected, reading)
      BY <2>0
    <2>2. RunsListed(G, expected, reading) /\ mark = reading.snapshot
      BY <1>2, <1>3, <1>17, <2>1 DEF Listed
    <2>3. source # "registry" => reading.print = print
      <3>1. source # "registry" => reading.print = Reads!Fingerprint(b)
        BY <1>2, <1>17, <2>2 DEF Reads!LegacyIsAsItWas, b
      <3> QED
        BY <1>6, <3>1 DEF Reads!Fingerprint
    <2>4. RunsUpTo(reading) = A /\ RowsUpTo(reading) = B
      BY <1>1, <1>15, <2>2, <2>3
    <2>5. G = F
      BY <1>0, <2>2, <2>4 DEF RunsListed
    <2>6. PICK e : e = expected
      OBVIOUS
    <2>7. expected' = e
      BY <1>11, <1>17, <2>6 DEF Reads!Expect
    <2>8. \A n \in F : item[n] = ItemAt(reading, n)
      <3>1. ASSUME NEW n \in F, ~(n < Base) PROVE reading.print[n - Base] = legacy[n - Base]
        <4>1. n \in B
          BY <1>0, <1>1, <1>5, <1>12, <3>1
        <4>2. source # "registry"
          BY <4>1 DEF B, WantedRows
        <4>3. n - Base \in 1..b
          BY <1>14, <3>1
        <4> QED
          BY <1>7, <2>3, <4>2, <4>3
      <3> QED
        BY <1>14, <3>1 DEF ItemAt
    <2>9. \A i \in 1..Len(e) : item[Nth(F, i)] = e[i]
      <3>1. \A i \in 1..Len(e) : Nth(F, i) \in F
        BY <2>1, <2>5, <2>6, NthHasItsRank
      <3>2. \A i \in 1..Len(e) : e[i] = ItemAt(reading, Nth(F, i))
        BY <2>2, <2>5, <2>6 DEF RunsListed
      <3> QED
        BY <2>8, <3>1, <3>2
    <2>10. Beyond(F, after) = Behind(F, k)
      BY <2>1, <2>5 DEF Behind, Beyond
    <2>11. e \in Seq(ReadItem) /\ Len(e) = Cardinality(F)
      BY <2>1, <2>5, <2>6
    <2>12. \A r \in ReadingRecord : Continued(r, mark, 0, print) => Listed(F, e, r)'
      BY <1>16, <2>9, <2>11
    <2>13. k \in 0..Cardinality(F) /\ reading.got = Taken(e, k) /\ all = Reads!InOrder(Behind(F, k)) /\ 0 \in Nat
      BY <1>8, <2>1, <2>5, <2>6, <2>10
    <2> QED
      BY ONLY <1>2, <1>5, <1>7, <1>11, <1>13, <2>7, <2>9, <2>11, <2>12, <2>13, ReadsInv, PageKeeps
  <1>18. CASE ~reading.started
    <2>1. reading.got = <<>> /\ after = 0
      BY <1>2, <1>18, WhereAPageStarts
    <2>2. Beyond(F, after) = F
      <3>1. \A n \in F : n \in Nat /\ n > 0
        BY <1>13
      <3>2. Beyond(F, 0) = F
        BY <3>1 DEF Beyond
      <3> QED
        BY <2>1, <3>2
    <2>3. PICK e : e = expected'
      OBVIOUS
    <2>4. all = Reads!InOrder(F)
      BY <1>8, <2>2
    <2>5. /\ expected' \in Seq(ReadItem) /\ Len(expected') = Cardinality(F) /\ Cardinality(F) \in Nat
          /\ \A i \in 1..Len(expected') : item[Nth(F, i)] = expected'[i]
          /\ Taken(expected', 0) = <<>> /\ Behind(F, 0) = F
      BY <1>11, <1>13, <1>14, <1>18, <2>4, FirstExpected
    <2>6. e \in Seq(ReadItem) /\ Len(e) = Cardinality(F) /\ \A i \in 1..Len(e) : item[Nth(F, i)] = e[i]
      BY <2>3, <2>5
    <2>7. \A r \in ReadingRecord : Continued(r, mark, 0, print) => Listed(F, e, r)'
      BY <1>16, <2>6
    <2>8. 0 \in 0..Cardinality(F) /\ reading.got = Taken(e, 0) /\ all = Reads!InOrder(Behind(F, 0)) /\ 0 \in Nat
      BY <2>1, <2>3, <2>4, <2>5
    <2> QED
      BY ONLY <1>2, <1>5, <1>7, <1>11, <1>13, <2>3, <2>6, <2>7, <2>8, ReadsInv, PageKeeps
  <1> QED
    BY <1>17, <1>18

LEMMA ReadsStart == Reads!Init => ReadsInv
  <1> SUFFICES ASSUME Reads!Init PROVE ReadsInv
    OBVIOUS
  <1>1. /\ jobs = <<>> /\ changes = <<>> /\ runs = <<>> /\ links = <<>>
        /\ legacy = [n \in 1..(Base - 1) |-> Reads!Gone]
        /\ reading = Reads!Idle /\ expected = <<>>
    BY DEF Reads!Init
  <1>2. MaxJobs \in Nat /\ MaxChanges \in Nat /\ MaxRuns \in Nat /\ MaxLinks * 0 = 0
    BY ReadsAssumption
  <1>3. legacy \in [1..(Base - 1) -> Reads!Run \cup {Reads!Gone}]
    BY <1>1
  <1>4. jobs \in Seq(States) /\ changes \in Seq(1..MaxJobs) /\ runs \in Seq(Reads!Run) /\ links \in Seq(Reads!Link)
    BY <1>1, EmptySeq
  <1>5. Len(jobs) = 0 /\ Len(changes) = 0 /\ Len(runs) = 0 /\ Len(links) = 0
    BY <1>1, EmptySeq
  <1>6. TablesTyped
    BY <1>2, <1>3, <1>4, <1>5 DEF TablesTyped
  <1>7. PagesHold(expected, reading)
    BY Zenon, <1>1, IdleHolds
  <1> QED
    BY <1>6, <1>7 DEF ReadsInv

LEMMA ReadsNext ==
    ASSUME ReadsInv, [Reads!Next]_readsVars
    PROVE  ReadsInv'
  <1>1. CASE Reads!EndListing
    BY <1>1, EndListingKeeps
  <1>2. CASE Reads!Submit \/ Reads!ListJobs \/ Reads!ListEvents
    BY <1>2, SubmitKeeps, ListJobsKeeps, ListEventsKeeps
  <1>3. CASE \E j \in 1..Len(jobs), to \in States : Reads!Change(j, to)
    BY <1>3, ChangeKeeps
  <1>4. CASE \E to \in States \cup {All} : Reads!Ask("jobs", to, All)
    <2>1. PICK to \in States \cup {All} : Reads!Ask("jobs", to, All)
      BY <1>4
    <2> QED
      BY <2>1, AskKeeps
  <1>5. CASE \E j \in (1..MaxJobs) \cup {All} : Reads!Ask("events", j, All)
    <2>1. PICK j \in (1..MaxJobs) \cup {All} : Reads!Ask("events", j, All)
      BY <1>5
    <2> QED
      BY <2>1, AskKeeps
  <1>6. CASE Reads!ListRuns \/ Reads!ListRunArtifacts
    BY <1>6, ListRunsKeeps, ListRunArtifactsKeeps
  <1>7. CASE \E run \in Reads!Run : Reads!AddRun(run, <<>>) \/ Reads!PersistLegacy(run)
    <2>1. PICK run \in Reads!Run : Reads!AddRun(run, <<>>) \/ Reads!PersistLegacy(run)
      BY <1>7
    <2>2. CASE Reads!AddRun(run, <<>>)
      <3>1. 0 \in 0..MaxLinks
        BY ReadsAssumption
      <3>2. <<>> \in [1..0 -> Roles]
        <4>1. <<>> \in Seq(Roles) /\ Len(<<>>) = 0
          BY EmptySeq
        <4> QED
          BY <4>1, LenProperties
      <3> QED
        BY <2>2, <3>1, <3>2, AddRunKeeps
    <2> QED
      BY <2>1, <2>2, RowsStay
  <1>8. CASE \E n \in Reads!Rows, row \in Reads!Run \cup {Reads!Gone} : Reads!TouchLegacy(n, row)
    BY <1>8, RowsStay
  <1>9. CASE \E of \in Filters \cup {All}, source \in {All, "registry", "legacy"} : Reads!Ask("runs", of, source)
    <2>1. PICK of \in Filters \cup {All}, source \in {All, "registry", "legacy"} : Reads!Ask("runs", of, source)
      BY <1>9
    <2> QED
      BY <2>1, AskKeeps
  <1>10. CASE \E run \in Reads!Run, n \in 0..MaxLinks : \E roles \in [1..n -> Roles] : Reads!AddRun(run, roles)
    <2>1. PICK run \in Reads!Run, n \in 0..MaxLinks : \E roles \in [1..n -> Roles] : Reads!AddRun(run, roles)
      BY <1>10
    <2>2. PICK roles \in [1..n -> Roles] : Reads!AddRun(run, roles)
      BY <2>1
    <2> QED
      BY <2>2, AddRunKeeps
  <1>11. CASE \E i \in 1..Len(runs), role \in Roles \cup {All} : Reads!Ask("artifacts", role, runs[i].id)
    <2>1. PICK i \in 1..Len(runs), role \in Roles \cup {All} : Reads!Ask("artifacts", role, runs[i].id)
      BY <1>11
    <2>2. PICK run \in Reads!Run : run = runs[i]
      BY ElementOfSeq DEF ReadsInv, TablesTyped
    <2>3. PICK id : id = runs[i].id
      OBVIOUS
    <2>4. id \in RunIds
      BY <2>2, <2>3 DEF Reads!Run
    <2>5. Reads!Ask("artifacts", role, id)
      BY <2>1, <2>3
    <2> QED
      BY <2>4, <2>5, AskKeeps
  <1>12. CASE UNCHANGED readsVars
    <2>1. UNCHANGED <<jobs, changes, runs, legacy, links, reading, expected>>
      BY <1>12 DEF readsVars
    <2>2. TablesTyped'
      BY <2>1 DEF ReadsInv, TablesTyped
    <2>3. TablesGrow
      BY <2>1, LenProperties DEF ReadsInv, TablesTyped, TablesGrow, Extends
    <2> QED
      BY <2>1, <2>2, <2>3, WriterKeeps
  <1> QED
    BY <1>1, <1>2, <1>3, <1>4, <1>5, <1>6, <1>7, <1>8, <1>9, <1>10, <1>11, <1>12 DEF Reads!Next

LEMMA ReadsPromise == ReadsInv => Reads!TypeOK /\ Reads!PagesAreTheSnapshot /\ Reads!PagesArePrefixes
  <1> SUFFICES ASSUME ReadsInv PROVE Reads!TypeOK /\ Reads!PagesAreTheSnapshot /\ Reads!PagesArePrefixes
    OBVIOUS
  <1>1. TablesTyped /\ PagesHold(expected, reading) /\ reading \in ReadingRecord
    BY DEF ReadsInv, PagesHold
  <1>2. Len(links) <= MaxLinks * MaxRuns
    <2>1. PICK l \in Nat : l = Len(runs)
      BY <1>1, LenProperties DEF TablesTyped
    <2>2. l <= MaxRuns /\ MaxRuns \in Nat /\ MaxLinks \in Nat /\ Len(links) <= MaxLinks * l /\ Len(links) \in Nat
      BY <1>1, <2>1, ReadsAssumption, LenProperties DEF TablesTyped
    <2>3. PICK d \in Nat : MaxRuns = l + d
      <3>1. MaxRuns - l \in Nat /\ MaxRuns = l + (MaxRuns - l)
        BY <2>1, <2>2
      <3> QED
        BY <3>1
    <2>4. MaxLinks * MaxRuns = MaxLinks * l + MaxLinks * d /\ MaxLinks * l \in Nat /\ MaxLinks * d \in Nat
      BY <2>2, <2>3
    <2> QED
      BY <2>2, <2>4
  <1>3. Reads!TypeOK
    BY <1>1, <1>2 DEF Reads!TypeOK, TablesTyped, ReadingRecord
  <1>4. ASSUME reading.started
        PROVE  Reads!IsPrefix(reading.got, expected) /\ (reading.done => reading.got = expected)
    <2>1. PICK F : Paged(F, expected, reading)
      BY <1>1, <1>4 DEF PagesHold
    <2>2. PICK k \in 0..Len(expected) : reading.got = Taken(expected, k) /\ (reading.done => k = Len(expected))
      BY <2>1 DEF Paged
    <2>3. expected \in Seq(ReadItem) /\ Len(expected) \in Nat /\ expected \in [1..Len(expected) -> ReadItem]
      BY <2>1, LenProperties DEF Paged
    <2>4. Taken(expected, k) \in Seq(ReadItem) /\ Len(Taken(expected, k)) = k /\ k \in Nat /\ k <= Len(expected)
      BY <2>3, TakenIs
    <2>5. PICK t : t = Taken(expected, k)
      OBVIOUS
    <2>6. SubSeq(t, 1, k) = t
      BY <2>4, <2>5, SubSeqFull
    <2>7. SubSeq(expected, 1, k) = t
      <3>1. \A i \in 1..k : expected[i] \in ReadItem
        BY <2>3, <2>4
      <3>2. PICK u : u = SubSeq(expected, 1, k)
        OBVIOUS
      <3>3. u \in Seq(ReadItem) /\ Len(u) = IF 1 <= k THEN k - 1 + 1 ELSE 0
        BY <2>4, <3>1, <3>2, SubSeqProperties
      <3>4. \A i \in 1..(k - 1 + 1) : u[i] = expected[1 + i - 1]
        BY <2>4, <3>1, <3>2, SubSeqProperties
      <3>5. Len(u) = k /\ k - 1 + 1 = k
        BY <2>4, <3>3
      <3>6. ASSUME NEW i \in 1..k PROVE u[i] = t[i]
        <4>1. 1 + i - 1 = i
          OBVIOUS
        <4> QED
          BY <2>5, <3>4, <3>5, <4>1 DEF Taken
      <3> QED
        BY <2>4, <2>5, <3>2, <3>3, <3>5, <3>6, SeqEqual
    <2>8. Reads!IsPrefix(reading.got, expected)
      BY <2>2, <2>4, <2>5, <2>6, <2>7 DEF Reads!IsPrefix
    <2>9. Taken(expected, Len(expected)) = expected
      BY <2>3 DEF Taken
    <2> QED
      BY <2>2, <2>8, <2>9
  <1>5. reading.done => reading.started
    BY <1>1 DEF PagesHold
  <1> QED
    BY <1>3, <1>4, <1>5 DEF Reads!PagesAreTheSnapshot, Reads!PagesArePrefixes

=============================================================================
