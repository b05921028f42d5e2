----------------------------- MODULE MCResearch -----------------------------
(* Values of the constants of Research for TLC. *)
EXTENDS Research

CONSTANTS y1, y2, y3, f, g, c1, c2, q1, a, b, bad, plain, drifted, w1, w2, t1, v1, v2,
          s1, s2, e1, e2, i1, ups, downs

ThreeYears == {y1, y2, y3}
TwoFrames == {f, g}
TwoClients == {c1, c2}
OneGeneration == {"new"}
TwoModes == {"network", "prefer_cache"}
TwoConfigs == {"live", "demo"}
OneNetworked == [c \in Configs |-> IF c = "live" THEN "auto" ELSE "synthetic"]
NoFallback == [c \in Configs |-> FALSE]
OneRequest == {q1}
ThreeContents == {a, b, bad}
OneUnfit == {bad}
TwoEvidence == {plain, drifted}
TwoWriters == {w1, w2}
OneTensor == {t1}
TwoTensorWriters == {v1, v2}
TwoAssets == {s1, s2}
AllFamilies == {"plain", "ensemble", "temporal"}
TwoExporters == {e1, e2}
TwoPanels == {"early", "late"}
SharedYear == [p \in Panels |-> IF p = "early" THEN {1, 2} ELSE {2, 3}]
ThreeTimes == {1, 2, 3}
OneId == {i1}
TwoLabels == {ups, downs}
Floor == [days |-> 3, dates |-> 2, pairs |-> 2, covered |-> <<2, 3>>, alpha |-> 3]

Verdicts == {"challenger", "inconclusive", "underpowered"}
Sample(name) == [name : {name}, p : PValues, verdict : Verdicts]

\* Two or three tests of different names.
Distinct ==
    {<<s, t>> : s \in Sample(1), t \in [name : {2}, p : PValues, verdict : {"challenger"}]}
    \cup {<<s, t, u>> : s \in [name : {1}, p : PValues, verdict : {"challenger"}],
                        t \in [name : {2}, p : PValues, verdict : {"challenger"}],
                        u \in [name : {3}, p : PValues, verdict : {"challenger"}]}
=============================================================================
