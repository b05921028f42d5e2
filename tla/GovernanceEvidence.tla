------------------------- MODULE GovernanceEvidence -------------------------
(***************************************************************************)
(* From two shadow campaigns to a recommendation: pairing and scoring in    *)
(* quant_platform.governance.comparison, the resampled days and Holm's      *)
(* correction of .inference, the gates of .gates.  Each day both arms are   *)
(* asked the same question and may miss it; each stores what its source     *)
(* says of the outcome, and the source may correct itself.  Scores are      *)
(* abstract: a test is any p-value and verdict.                             *)
(***************************************************************************)
EXTENDS Naturals, FiniteSets, Sequences

CONSTANTS
    Labels,          \* realised outcomes
    Days,            \* bound: days with a question
    MaxCorrections,  \* bound: corrections by the source
    MaxEarly,        \* bound: outcomes stored as observed no later than the question
    MayBeMissing,    \* bound: questions whose outcome the source may not have
    MaxRevision,     \* bound: revisions an arm stores of one outcome
    Horizon,         \* of the forecasts, in days
    Policy,          \* [days, dates, pairs, covered, alpha], coverage in parts of Asked
    Scale,           \* p-values are 0..Scale
    PValues,
    Tests,           \* names of tests, in the order of their names
    Families         \* which families are handed to recommend

VARIABLES
    day,       \* the day it is
    issued,    \* questions each arm forecast in time
    truth,     \* what the source says of each question
    history,   \* revisions each arm stored of each outcome
    decision,  \* the recommendation and what it was made from
    left       \* corrections and early outcomes still to come

evidenceVars == <<day, issued, truth, history, decision, left>>

Arms == {"champion", "challenger"}
Questions == 1..Days
Outcome == [label : Labels \cup {"none"}, late : BOOLEAN]
NoDecision == [recommendation |-> "none"]

Recommendations == {"none", "refused", "promote", "retain_champion", "insufficient_evidence", "invalid"}

TypeOK ==
    /\ day \in 0..(Days + 1)
    /\ issued \in [Arms -> SUBSET Questions]
    /\ truth \in [Questions -> Labels]
    /\ \A a \in Arms : \A k \in Questions :
          /\ history[a][k] \in Seq(Outcome) /\ Len(history[a][k]) <= MaxRevision
          /\ history[a][k] # <<>> => k \in issued[a]
    /\ decision.recommendation \in Recommendations
    /\ left \in [corrections : 0..MaxCorrections, early : 0..MaxEarly]

Init ==
    /\ day = 0 /\ issued = [a \in Arms |-> {}]
    /\ truth \in [Questions -> {CHOOSE l \in Labels : TRUE}]
    /\ history = [a \in Arms |-> [k \in Questions |-> <<>>]]
    /\ decision = NoDecision /\ left = [corrections |-> MaxCorrections, early |-> MaxEarly]

Undecided == decision = NoDecision

-----------------------------------------------------------------------------
\* The campaigns, as the comparison finds them.

\* A day begins and each arm forecasts its question or is not there.
NewDay ==
    /\ Undecided /\ day <= Days
    /\ day' = day + 1
    /\ IF day' <= Days
       THEN \E A \in SUBSET Arms :
               issued' = [a \in Arms |-> IF a \in A THEN issued[a] \cup {day'} ELSE issued[a]]
       ELSE UNCHANGED issued
    /\ UNCHANGED <<truth, history, decision, left>>

Store(a, k, outcome) ==
    /\ Undecided /\ k \in issued[a] /\ Len(history[a][k]) < MaxRevision
    /\ history' = [history EXCEPT ![a][k] = Append(@, outcome)]
    /\ UNCHANGED <<day, issued, truth, decision>>

\* An arm's reconciliation stores what the source says, or that it says nothing;
\* a revision that repeats the one before it is left out.
Reconcile(a, k) ==
    /\ day > k
    /\ \E label \in {truth[k]} \cup (IF k \in MayBeMissing THEN {"none"} ELSE {}) :
          /\ \A i \in 1..Len(history[a][k]) : history[a][k][i] # [label |-> label, late |-> TRUE]
          /\ Store(a, k, [label |-> label, late |-> TRUE])
    /\ UNCHANGED left

\* The store does not compare an outcome's time with its forecast's.
StoreEarly(a, k) ==
    /\ left.early > 0
    /\ Store(a, k, [label |-> truth[k], late |-> FALSE])
    /\ left' = [left EXCEPT !.early = @ - 1]

Correct(k) ==
    /\ Undecided /\ left.corrections > 0 /\ day > k
    /\ \E label \in Labels \ {truth[k]} : truth' = [truth EXCEPT ![k] = label]
    /\ left' = [left EXCEPT !.corrections = @ - 1]
    /\ UNCHANGED <<day, issued, history, decision>>

-----------------------------------------------------------------------------
\* comparison: build_paired_cohort

Observed(a, k) == {i \in 1..Len(history[a][k]) : history[a][k][i].label # "none"}
Scored(a, k) == Observed(a, k) # {}

\* Mutant: the first observed revision.
FirstObserved(a, k) == history[a][k][CHOOSE i \in Observed(a, k) : \A j \in Observed(a, k) : i <= j]

LatestObserved(a, k) == history[a][k][CHOOSE i \in Observed(a, k) : \A j \in Observed(a, k) : j <= i]

Shared == issued["champion"] \cap issued["challenger"]
Asked == issued["champion"] \cup issued["challenger"]
Matched == {k \in Shared : \A a \in Arms : Scored(a, k)}
Unscored(a) == {k \in Shared : ~Scored(a, k)}

\* Mutant: an arm may have seen the outcome it forecast.
AnyOutcome(k) == LatestObserved("champion", k).label = LatestObserved("challenger", k).label

\* One question has one answer, known to neither arm when it was asked.
Reconciled(k) ==
    /\ LatestObserved("champion", k).label = LatestObserved("challenger", k).label
    /\ \A a \in Arms : LatestObserved(a, k).late

Distance(m, n) == IF m < n THEN n - m ELSE m - n

\* Missing outcomes differ between the arms by at most one in twenty.
Comparable ==
    20 * Distance(Cardinality(Unscored("champion")), Cardinality(Unscored("challenger")))
        <= Cardinality(Shared)

-----------------------------------------------------------------------------
\* inference: block_length, _block_bootstrap, holm_adjust

BlockLength(n) ==
    LET root == CHOOSE r \in 1..n : r * r * r >= n /\ \A s \in 1..(r - 1) : s * s * s < n
    IN  IF root < Horizon THEN Horizon ELSE root

\* Mutant: a block starts where it fits.
FittingStarts(n) == {s \in 0..(n - 1) : s + BlockLength(n) <= n \/ s = 0}

Starts(n) == 0..(n - 1)

\* How often the days of n come at a place of a replicate, over all starts of its block.
Drawn(n, place, d) ==
    Cardinality({s \in Starts(n) : (s + (place % BlockLength(n))) % n = d})

\* Tests by p-value and name.
Before(p, a, b) == p[a] < p[b] \/ (p[a] = p[b] /\ a < b)

\* Mutant: the factor counts one hypothesis too few.
RejectedOffByOne(p, a, alpha) ==
    ~\E b \in DOMAIN p :
        /\ b = a \/ Before(p, b, a)
        /\ (Cardinality(DOMAIN p) - Cardinality({c \in DOMAIN p : Before(p, c, b)}) - 1) * p[b] > alpha

\* A hypothesis is rejected when its running maximum is at most alpha.
Rejected(p, a, alpha) ==
    ~\E b \in DOMAIN p :
        /\ b = a \/ Before(p, b, a)
        /\ (Cardinality(DOMAIN p) - Cardinality({c \in DOMAIN p : Before(p, c, b)})) * p[b] > alpha

-----------------------------------------------------------------------------
\* gates: evaluate_gates, recommend

Duration == \E k, l \in Matched : l - k + 1 >= Policy.days
Dates == Cardinality(Matched) >= Policy.dates
Pairs == Cardinality(Matched) >= Policy.pairs
Coverage == Matched # {} /\ Cardinality(Matched) * Policy.covered[2] >= Cardinality(Asked) * Policy.covered[1]

\* Class counts and power are what the caller says they are.
Gates(supplied) == Comparable /\ Duration /\ Dates /\ Pairs /\ Coverage /\ supplied

\* A test below MIN_BLOCKS or MIN_EFFECTIVE_OBSERVATIONS has no p-value.
Favours(t) == t.verdict = "challenger"

\* The family is keyed by the tests' names: the last of a name stays.
Family(tests) ==
    LET Named(name) == {i \in 1..Len(tests) : tests[i].name = name}
    IN  [name \in {n \in Tests : Named(n) # {}} |->
            tests[CHOOSE i \in Named(name) : \A j \in Named(name) : j <= i].p]

\* Mutant: one hypothesis is enough.
AnyRejected(tests) == \E a \in DOMAIN Family(tests) : Rejected(Family(tests), a, Policy.alpha)

AllRejected(tests) == \A a \in DOMAIN Family(tests) : Rejected(Family(tests), a, Policy.alpha)

Verdict(tests, supplied) ==
    IF ~Gates(supplied)
    THEN IF Comparable THEN "insufficient_evidence" ELSE "invalid"
    ELSE IF \E i \in 1..Len(tests) : tests[i].verdict = "underpowered" THEN "insufficient_evidence"
    ELSE IF AllRejected(tests) /\ \A i \in 1..Len(tests) : Favours(tests[i])
    THEN "promote" ELSE "retain_champion"

\* The campaigns are read, paired and judged; or the comparison is refused.
Decide ==
    /\ Undecided /\ Matched # {}
    /\ IF \E k \in Matched : ~Reconciled(k)
       THEN decision' = [recommendation |-> "refused"]
       ELSE \E supplied \in BOOLEAN :
            \E tests \in IF Gates(supplied) THEN Families ELSE {<<>>} :
               decision' = [recommendation |-> Verdict(tests, supplied), tests |-> tests,
                            pairs |-> [k \in Matched |-> LatestObserved("champion", k).label],
                            rejected |-> {a \in DOMAIN Family(tests) : Rejected(Family(tests), a, Policy.alpha)}]
    /\ UNCHANGED <<day, issued, truth, history, left>>

Next ==
    \/ NewDay
    \/ \E a \in Arms : \E k \in Questions : Reconcile(a, k) \/ StoreEarly(a, k)
    \/ \E k \in Questions : Correct(k)
    \/ Decide

Spec == Init /\ [][Next]_evidenceVars

-----------------------------------------------------------------------------
Decided == decision.recommendation \in Recommendations \ {"none", "refused"}

\* A pair is scored against the last answer both arms stored, and neither arm could
\* have read that answer when it forecast (comparison.py, build_paired_cohort).
PairsAreFair ==
    Decided => \A k \in DOMAIN decision.pairs : \A a \in Arms :
                  LET last == CHOOSE i \in Observed(a, k) : \A j \in Observed(a, k) : j <= i
                  IN  history[a][k][last] = [label |-> decision.pairs[k], late |-> TRUE]

\* Every day of the cohort comes as often as every other at every place of a
\* replicate (inference.py, "Circular so every date starts a block equally often").
DaysWeighTheSame ==
    Decided => LET n == Cardinality(DOMAIN decision.pairs)
               IN  \A place, d \in 0..(n - 1) : Drawn(n, place, d) = Drawn(n, place, 0)

\* Holm's step-down rejects what closed testing rejects: a hypothesis all of whose
\* intersections with others are rejected by Bonferroni (inference.py, holm_adjust).
FamilyIsControlled ==
    Decided /\ decision.tests # <<>> =>
        LET p == Family(decision.tests)
        IN  decision.rejected =
                {a \in DOMAIN p : \A S \in SUBSET (DOMAIN p) :
                    a \in S => \E b \in S : Cardinality(S) * p[b] <= Policy.alpha}

\* A promotion rests on enough days each with its pair, nearly all that was asked of
\* either arm, and a family of tests that all reject (gates.py, recommend).
PromotionIsEarned ==
    decision.recommendation = "promote" =>
        /\ Cardinality(DOMAIN decision.pairs) >= Policy.dates
        /\ Cardinality(Asked \ DOMAIN decision.pairs) * Policy.covered[2]
               <= Cardinality(Asked) * (Policy.covered[2] - Policy.covered[1])
        /\ decision.rejected = {decision.tests[i].name : i \in 1..Len(decision.tests)}

RecommendationHolds == PairsAreFair /\ DaysWeighTheSame /\ FamilyIsControlled /\ PromotionIsEarned

\* gates.py: "Consecutive calendar days of evidence" (MIN_CONSECUTIVE_DAYS).
EvidenceIsConsecutive ==
    decision.recommendation = "promote" =>
        \E k \in Questions : k..(k + Policy.days - 1) \subseteq DOMAIN decision.pairs

\* docs/sprint5_dossier.md: "Multiplicity is corrected ... across the complete family":
\* each test, with any others of those that were run, is rejected by Bonferroni.
FamilyIsComplete ==
    decision.recommendation = "promote" =>
        \A S \in SUBSET (1..Len(decision.tests)) : S # {} =>
            \E i \in S : Cardinality(S) * decision.tests[i].p <= Policy.alpha

\* Two arms asked the same questions can always be compared.
NoComparisonIsRefused == decision.recommendation # "refused"
=============================================================================
