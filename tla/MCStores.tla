------------------------------ MODULE MCStores ------------------------------
(* Values of the constants of Stores for TLC. *)
EXTENDS Stores, TLC

CONSTANTS p1, p2, r1, x1, x2, l1, v1, h1, h2, c1, c2, t1, o1, o2, up,
          m1, m2, d1, d2, k1, i1, i2, i3, q1, key, otherKey,
          queued, done, n1, n2, won, lost, e1, e2

TwoPublishers == {p1, p2}
OneReader == {r1}
TwoDeleters == {x1, x2}
OneLister == {l1}
OneProver == {v1}
\* Two publishers, or one with a deleter and a reader; where nobody is killed, one with a
\* deleter and a lister, a prover or another deleter; nobody, for behaviours about
\* something else.
CalmCasts == {{p1, x1, l1}, {p1, x1, v1}, {p1, x1, x2}}
SmallCasts == {{}, {p1, p2}, {p1, x1, r1}} \cup CalmCasts
FirstHandle == {h1}
TwoHandles == {h1, h2}
LastHandle == {h2}
TwoCallers == {c1, c2}
OneInstant == {t1}
TwoOpinions == {o1, o2}
OneLabel == {up}
TwoModels == {m1, m2}
TwoDetails == {d1, d2}
OneKey == {k1}
\* A move of the head recorded without it, and an event of another kind found under its
\* key (in the lane that is read, only the latter).
AssignmentOrNote == {"assignment", "monitoring"}
OnlyRequests == {"request"}
OldNewAndStranger == {i1, i2, i3}
OneProber == {q1}
\* Two releases, a release and its readiness, a release and a stranger's key.
Pairs == {{}, {i1, i2}, {i2, q1}, {i2, i3}}
Releases == i1 :> 2 @@ i2 :> 3 @@ i3 :> 3 @@ q1 :> 3
Keys == i1 :> key @@ i2 :> key @@ i3 :> otherKey @@ q1 :> key
Db(present, ledger, tables, authority, id) ==
    [exists |-> present, ledger |-> ledger, objects |-> tables, authority |-> authority, id |-> id]
\* Nothing, a database without a registry, tables without a ledger, a gap.
Starts == {Db(FALSE, {}, {}, Unkeyed, Unkeyed), Db(TRUE, {}, {}, Unkeyed, Unkeyed),
           Db(TRUE, {}, {1}, Unkeyed, Unkeyed), Db(TRUE, {1, 3}, {1, 3}, key, i1)}
TwoStates == {queued, done}
TwoRunIds == {n1, n2}
TwoStatuses == {won, lost}
OneStatus == {won}
TwoRuns == {e1, e2}
OneModel == {m1}
OneDetail == {d1}
=============================================================================
