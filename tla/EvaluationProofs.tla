-------------------------- MODULE EvaluationProofs --------------------------
(***************************************************************************)
(* What holds of the evaluation of a model for every number of days,        *)
(* assets, folds, tests and policies: the evidence on which it may be       *)
(* promoted (GovernanceEvidence), the walk-forward folds and positions      *)
(* (WalkForward) and the features they are learned from (FeatureWindows).   *)
(***************************************************************************)
EXTENDS ResearchProofs

-----------------------------------------------------------------------------
\* Numbers and finite sets.

LEMMA SamePromotionCardinality == \A S : Promotion!Cardinality(S) = Cardinality(S)
  BY DEF Promotion!Cardinality, Cardinality, Promotion!IsFiniteSet, IsFiniteSet

LEMMA LeastNatural ==
    ASSUME NEW T \in SUBSET Nat, T # {}
    PROVE  \E x \in T : \A y \in T : x <= y
  <1> DEFINE R == OpToRel(<, Nat)
  <1>1. \E x \in T : \A y \in T : ~(<<y, x>> \in R)
    <2>1. IsWellFoundedOn(R, Nat)
      BY NatLessThanWellFounded
    <2> HIDE DEF R
    <2> QED
      BY <2>1, WFMin
  <1>2. \A x, y \in Nat : y < x => <<y, x>> \in R
    BY DEF OpToRel
  <1> HIDE DEF R
  <1>3. PICK x \in T : \A y \in T : ~(<<y, x>> \in R)
    BY <1>1
  <1>4. ASSUME NEW y \in T PROVE x <= y
    <2>1. x \in Nat /\ y \in Nat /\ ~(y < x)
      BY <1>2, <1>3
    <2> QED
      BY <2>1
  <1> QED
    BY <1>3, <1>4

\* Remainders of what is at most twice the divisor.
LEMMA Remainder ==
    ASSUME NEW n \in Nat \ {0}, NEW x \in 0..(2 * n - 1)
    PROVE  x % n = IF x < n THEN x ELSE x - n
  OBVIOUS

LEMMA RemainderIsSmall ==
    ASSUME NEW n \in Nat \ {0}, NEW x \in Nat
    PROVE  x % n \in 0..x
  OBVIOUS

-----------------------------------------------------------------------------
\* The evidence for a promotion (GovernanceEvidence).

\* In a circle of n days each day is met at one start, whatever the distance from it.
LEMMA OneStart ==
    ASSUME NEW n \in Nat \ {0}, NEW c \in 0..(n - 1), NEW d \in 0..(n - 1)
    PROVE  Promotion!Cardinality({s \in 0..(n - 1) : (s + c) % n = d}) = 1
  <1> DEFINE start == IF d >= c THEN d - c ELSE d - c + n
  <1>1. start \in 0..(n - 1)
    OBVIOUS
  <1>2. ASSUME NEW s \in 0..(n - 1)
        PROVE  (s + c) % n = IF s + c < n THEN s + c ELSE s + c - n
    <2>1. PICK x \in 0..(2 * n - 1) : x = s + c
      OBVIOUS
    <2>2. x % n = IF x < n THEN x ELSE x - n
      BY Remainder
    <2> QED
      BY <2>1, <2>2
  <1>3. \A s \in 0..(n - 1) : (s + c) % n = d <=> s = start
    BY <1>2
  <1>4. {s \in 0..(n - 1) : (s + c) % n = d} = {start}
    BY <1>1, <1>3
  <1> QED
    BY <1>4, FS_Singleton, SamePromotionCardinality

\* A block is at least one day long.
LEMMA BlocksHaveDays ==
    ASSUME NEW n \in Nat \ {0}
    PROVE  Promotion!BlockLength(n) \in Nat \ {0}
  <1> DEFINE Large == {r \in 1..n : r * r * r >= n}
             IsRoot(r) == r * r * r >= n /\ \A s \in 1..(r - 1) : s * s * s < n
  <1>1. n \in Large
    <2>1. n * n >= n
      OBVIOUS
    <2>2. n * n * n >= n
      BY <2>1
    <2> QED
      BY <2>2
  <1>2. PICK least \in Large : \A y \in Large : least <= y
    <2>1. Large \in SUBSET Nat
      OBVIOUS
    <2> HIDE DEF Large
    <2> QED
      BY <1>1, <2>1, LeastNatural
  <1>3. least \in 1..n /\ IsRoot(least)
    <2>1. ASSUME NEW s \in 1..(least - 1), ~(s * s * s < n) PROVE FALSE
      <3>1. s \in 1..n /\ s < least
        OBVIOUS
      <3>2. s * s * s \in Nat
        BY <3>1
      <3>3. s \in Large
        BY <2>1, <3>1, <3>2
      <3> QED
        BY <1>2, <3>1, <3>3
    <2> QED
      BY <2>1
  <1> DEFINE root == CHOOSE r \in 1..n : IsRoot(r)
  <1>4. root \in 1..n
    <2> HIDE DEF IsRoot
    <2> QED
      BY <1>3
  <1>5. Promotion!BlockLength(n) = IF root < Horizon THEN Horizon ELSE root
    BY Zenon DEF Promotion!BlockLength
  <1> HIDE DEF root
  <1> QED
    BY <1>4, <1>5, WindowsAssumption

LEMMA DaysAreDrawnAlike ==
    ASSUME NEW n \in Nat, NEW place \in 0..(n - 1), NEW d \in 0..(n - 1)
    PROVE  Promotion!Drawn(n, place, d) = Promotion!Drawn(n, place, 0)
  <1>1. n \in Nat \ {0} /\ 0 \in 0..(n - 1) /\ place \in Nat
    OBVIOUS
  <1>2. Promotion!BlockLength(n) \in Nat \ {0}
    BY <1>1, BlocksHaveDays
  <1>3. PICK c : c = place % Promotion!BlockLength(n)
    OBVIOUS
  <1>4. c \in 0..place
    BY <1>1, <1>2, <1>3, RemainderIsSmall
  <1>5. c \in 0..(n - 1)
    BY <1>4
  <1>6. \A e \in 0..(n - 1) : Promotion!Drawn(n, place, e) = 1
    BY <1>1, <1>3, <1>5, OneStart DEF Promotion!Drawn, Promotion!Starts
  <1> QED
    BY <1>1, <1>6

\* Holm's order: by p-value, then by name.  A set of hypotheses has a first one.
Before(p, a, b) == Promotion!Before(p, a, b)
Ahead(p, b) == {c \in DOMAIN p : Before(p, c, b)}

LEMMA FirstOfFamily ==
    ASSUME NEW D \in SUBSET Nat, NEW p \in [D -> Nat], NEW S \in SUBSET D, S # {}
    PROVE  \E b \in S : \A c \in S : ~Before(p, c, b)
  <1> DEFINE Levels == {p[c] : c \in S}
  <1>1. PICK level \in Levels : \A y \in Levels : level <= y
    <2>1. Levels \in SUBSET Nat
      OBVIOUS
    <2>2. Levels # {}
      OBVIOUS
    <2> HIDE DEF Levels
    <2> QED
      BY <2>1, <2>2, LeastNatural
  <1> DEFINE Lowest == {c \in S : p[c] = level}
  <1>2. Lowest \in SUBSET Nat /\ Lowest # {}
    OBVIOUS
  <1>3. PICK b \in Lowest : \A y \in Lowest : b <= y
    <2> HIDE DEF Lowest
    <2> QED
      BY <1>2, LeastNatural
  <1>4. ASSUME NEW c \in S PROVE ~Before(p, c, b)
    <2>1. p[b] = level /\ level <= p[c] /\ p[c] \in Nat /\ p[b] \in Nat /\ c \in Nat /\ b \in Nat
      BY <1>1, <1>3
    <2>2. p[c] = p[b] => b <= c
      BY <1>3, <2>1
    <2> QED
      BY <2>1, <2>2 DEF Before, Promotion!Before
  <1> QED
    BY <1>3, <1>4

\* A hypothesis that Holm rejects is rejected with any others: the first of them is.
LEMMA HolmIsClosed ==
    ASSUME NEW D \in SUBSET Nat, IsFiniteSet(D), NEW p \in [D -> Nat], NEW alpha \in Nat, NEW a \in D,
           Promotion!Rejected(p, a, alpha), NEW S \in SUBSET D, a \in S
    PROVE  \E b \in S : Promotion!Cardinality(S) * p[b] <= alpha
  <1>1. PICK b \in S : \A c \in S : ~Before(p, c, b)
    BY FirstOfFamily
  <1>2. b = a \/ Before(p, b, a)
    <2>1. ~Before(p, a, b) /\ p[a] \in Nat /\ p[b] \in Nat /\ a \in Nat /\ b \in Nat
      BY <1>1
    <2> QED
      BY <2>1 DEF Before, Promotion!Before
  <1> DEFINE rest == D \ Ahead(p, b)
             m == Cardinality(D)
             k == Cardinality(Ahead(p, b))
  <1>3. /\ Ahead(p, b) \in SUBSET D /\ S \in SUBSET rest
        /\ IsFiniteSet(Ahead(p, b)) /\ IsFiniteSet(rest)
    <2>1. Ahead(p, b) \in SUBSET D /\ S \in SUBSET rest
      BY <1>1 DEF Ahead
    <2> QED
      BY <2>1, FS_Subset
  <1>4. /\ m \in Nat /\ k \in Nat /\ Cardinality(S) \in Nat /\ Cardinality(rest) \in Nat
        /\ Cardinality(rest) = m - k /\ Cardinality(S) <= Cardinality(rest)
    <2>1. IsFiniteSet(S) /\ Cardinality(S) <= Cardinality(rest)
      BY <1>3, FS_Subset
    <2>2. Cardinality(D \ Ahead(p, b)) = Cardinality(D) - Cardinality(D \cap Ahead(p, b))
      BY <1>3, FS_Difference
    <2>3. D \cap Ahead(p, b) = Ahead(p, b)
      BY <1>3
    <2> QED
      BY <1>3, <2>1, <2>2, <2>3, FS_CardinalityType
  <1>5. ~((m - k) * p[b] > alpha)
    <2>1. DOMAIN p = D /\ b \in D
      OBVIOUS
    <2>2. ~((Promotion!Cardinality(D) - Promotion!Cardinality(Ahead(p, b))) * p[b] > alpha)
      BY <1>2, <2>1 DEF Promotion!Rejected, Ahead, Before
    <2> QED
      BY <2>2, SamePromotionCardinality
  <1>6. PICK level \in Nat : level = p[b]
    OBVIOUS
  <1>7. Cardinality(S) * level <= alpha
    <2> HIDE DEF m, k, rest
    <2>1. PICK s \in Nat : s = Cardinality(S)
      BY <1>4
    <2>2. PICK r \in Nat : r = m - k /\ s <= r
      BY <1>4, <2>1
    <2>3. r * level <= alpha
      BY <1>5, <1>6, <2>2
    <2>4. s * level <= r * level
      BY <2>2
    <2>5. s * level \in Nat /\ r * level \in Nat
      OBVIOUS
    <2> QED
      BY <2>1, <2>3, <2>4, <2>5
  <1> QED
    BY <1>6, <1>7, SamePromotionCardinality

\* A hypothesis that is rejected with any others is rejected by Holm: at each step up to it
\* with all that are not ahead of that step.
LEMMA ClosedIsHolm ==
    ASSUME NEW D \in SUBSET Nat, IsFiniteSet(D), NEW p \in [D -> Nat], NEW alpha \in Nat, NEW a \in D,
           \A S \in SUBSET D : a \in S => \E b \in S : Promotion!Cardinality(S) * p[b] <= alpha
    PROVE  Promotion!Rejected(p, a, alpha)
  <1>1. ASSUME NEW b \in D, b = a \/ Before(p, b, a)
        PROVE  ~((Promotion!Cardinality(D) - Promotion!Cardinality(Ahead(p, b))) * p[b] > alpha)
    <2> DEFINE rest == D \ Ahead(p, b)
    <2>1. Ahead(p, b) \in SUBSET D /\ rest \in SUBSET D
      BY DEF Ahead
    <2>2. a \in rest
      <3>1. p[a] \in Nat /\ p[b] \in Nat /\ a \in Nat /\ b \in Nat
        OBVIOUS
      <3>2. ~Before(p, a, b)
        BY <1>1, <3>1 DEF Before, Promotion!Before
      <3> QED
        BY <3>2 DEF Ahead
    <2>3. PICK e \in rest : Promotion!Cardinality(rest) * p[e] <= alpha
      <3> HIDE DEF rest
      <3> QED
        BY <2>1, <2>2
    <2>4. p[b] <= p[e] /\ p[b] \in Nat /\ p[e] \in Nat
      <3>1. ~Before(p, e, b) /\ p[b] \in Nat /\ p[e] \in Nat
        BY DEF Ahead
      <3> QED
        BY <3>1 DEF Before, Promotion!Before
    <2>5. /\ Cardinality(rest) = Cardinality(D) - Cardinality(Ahead(p, b))
          /\ Cardinality(rest) \in Nat
      <3>1. Cardinality(D \ Ahead(p, b)) = Cardinality(D) - Cardinality(D \cap Ahead(p, b))
        BY <2>1, FS_Difference
      <3>2. D \cap Ahead(p, b) = Ahead(p, b) /\ IsFiniteSet(rest)
        BY <2>1, FS_Subset
      <3> QED
        BY <3>1, <3>2, FS_CardinalityType
    <2> HIDE DEF rest
    <2>6. PICK r \in Nat : r = Cardinality(rest)
      BY <2>5
    <2>7. PICK x \in Nat : x = p[b]
      BY <2>4
    <2>8. PICK y \in Nat : y = p[e]
      BY <2>4
    <2>9. r * x <= r * y
      BY <2>4, <2>7, <2>8
    <2>10. r * y <= alpha
      BY <2>3, <2>6, <2>8, SamePromotionCardinality
    <2>11. r * x \in Nat /\ r * y \in Nat
      OBVIOUS
    <2>12. ~(r * x > alpha)
      BY <2>9, <2>10, <2>11
    <2> QED
      BY <2>5, <2>6, <2>7, <2>12, SamePromotionCardinality
  <1> QED
    BY <1>1 DEF Promotion!Rejected, Ahead, Before

\* A family of tests is a finite function from their names to their p-values.
Test == [name : Tests, p : PValues, verdict : {"challenger", "champion", "inconclusive", "underpowered"}]

LEMMA FamilyIsFinite ==
    ASSUME NEW tests \in Seq(Test)
    PROVE  /\ DOMAIN Promotion!Family(tests) = {tests[i].name : i \in 1..Len(tests)}
           /\ DOMAIN Promotion!Family(tests) \in SUBSET Nat
           /\ IsFiniteSet(DOMAIN Promotion!Family(tests))
           /\ Promotion!Family(tests) \in [DOMAIN Promotion!Family(tests) -> Nat]
  <1> DEFINE Named(name) == {i \in 1..Len(tests) : tests[i].name = name}
             names == {n \in Tests : Named(n) # {}}
             last(n) == CHOOSE i \in Named(n) : \A j \in Named(n) : j <= i
             indices == 1..Len(tests)
  <1>1. Promotion!Family(tests) = [n \in names |-> tests[last(n)].p]
    BY Zenon DEF Promotion!Family
  <1>2. \A i \in indices : tests[i].name \in Tests /\ tests[i].p \in Nat
    <2>1. ASSUME NEW i \in indices PROVE tests[i] \in Test
      OBVIOUS
    <2>2. PValues \subseteq Nat
      BY RecommendationAssumption
    <2> QED
      BY <2>1, <2>2 DEF Test
  <1>3. names = {tests[i].name : i \in indices}
    BY <1>2
  <1>4. IsFiniteSet(indices) /\ Len(tests) \in Nat
    BY FS_Interval
  <1>5. IsFiniteSet({tests[i].name : i \in indices})
    <2> DEFINE named == {tests[i].name : i \in indices}
               f == [i \in indices |-> tests[i].name]
    <2>1. f \in Surjection(indices, named)
      BY DEF Surjection
    <2> HIDE DEF f, named, indices
    <2>2. IsFiniteSet(named)
      BY <1>4, <2>1, FS_Surjection
    <2> QED
      BY <2>2 DEF named
  <1>6. ASSUME NEW n \in names PROVE tests[last(n)].p \in Nat
    <2>1. Named(n) \in SUBSET (0..Len(tests)) /\ Named(n) # {}
      BY <1>4
    <2>2. \E i \in Named(n) : \A j \in Named(n) : i >= j
      <3> HIDE DEF Named
      <3> QED
        BY <1>4, <2>1, Greatest
    <2>3. \E i \in Named(n) : \A j \in Named(n) : j <= i
      BY <2>2, <1>4
    <2>4. last(n) \in Named(n)
      <3> HIDE DEF Named
      <3> QED
        BY <2>3
    <2> QED
      BY <1>2, <2>4
  <1>7. names \in SUBSET Nat
    BY RecommendationAssumption
  <1> HIDE DEF names, last, indices
  <1> QED
    BY <1>1, <1>3, <1>5, <1>6, <1>7 DEF indices

\* The types of the evidence.
EvidenceTyped ==
    /\ day \in 0..(Days + 1) /\ issued \in [Promotion!Arms -> SUBSET Promotion!Questions]
    /\ truth \in [Promotion!Questions -> Labels]
    /\ history \in [Promotion!Arms -> [Promotion!Questions -> Seq(Promotion!Outcome)]]
    /\ \A a \in Promotion!Arms : \A k \in Promotion!Questions :
          Len(history[a][k]) <= MaxStored /\ (history[a][k] # <<>> => k \in issued[a])
    /\ decision.recommendation \in Promotion!Recommendations
    /\ left \in [corrections : 0..MaxCorrections, early : 0..MaxEarly]

\* Nothing happens after a decision, and what it was made from stays.
PromotionInv == EvidenceTyped /\ Promotion!RecommendationHolds

LEMMA NothingIsDecided == decision = Promotion!NoDecision => Promotion!RecommendationHolds
  BY DEF Promotion!NoDecision, Promotion!RecommendationHolds, Promotion!PairsAreFair, Promotion!DaysWeighTheSame,
     Promotion!FamilyIsControlled, Promotion!PromotionIsEarned, Promotion!Decided

LEMMA NothingIsDecidedNext == (decision = Promotion!NoDecision => Promotion!RecommendationHolds)'
  BY DEF Promotion!NoDecision, Promotion!RecommendationHolds, Promotion!PairsAreFair, Promotion!DaysWeighTheSame,
     Promotion!FamilyIsControlled, Promotion!PromotionIsEarned, Promotion!Decided

LEMMA PromotionInit == Promotion!Init => PromotionInv
  <1> SUFFICES ASSUME Promotion!Init PROVE PromotionInv
    OBVIOUS
  <1>1. truth \in [Promotion!Questions -> Labels]
    <2>1. (CHOOSE l \in Labels : TRUE) \in Labels
      BY RecommendationAssumption
    <2> QED
      BY <2>1 DEF Promotion!Init
  <1>2. \A a \in Promotion!Arms : \A k \in Promotion!Questions : history[a][k] = <<>>
    BY DEF Promotion!Init
  <1>3. Len(<<>>) = 0
    OBVIOUS
  <1>4. history \in [Promotion!Arms -> [Promotion!Questions -> Seq(Promotion!Outcome)]]
    BY DEF Promotion!Init
  <1>5. EvidenceTyped
    BY <1>1, <1>2, <1>3, <1>4, RecommendationAssumption
       DEF Promotion!Init, EvidenceTyped, Promotion!NoDecision, Promotion!Recommendations
  <1> QED
    BY <1>5, NothingIsDecided DEF Promotion!Init, PromotionInv

\* An arm stores a revision of an outcome.
LEMMA StoreKeeps ==
    ASSUME PromotionInv, NEW a \in Promotion!Arms, NEW k \in Promotion!Questions, NEW outcome \in Promotion!Outcome,
           Promotion!Store(a, k, outcome), left' \in [corrections : 0..MaxCorrections, early : 0..MaxEarly]
    PROVE  PromotionInv'
  <1> USE DEF PromotionInv, EvidenceTyped
  <1>1. /\ decision' = Promotion!NoDecision /\ k \in issued[a] /\ Len(history[a][k]) < MaxStored
        /\ history' = [history EXCEPT ![a] = [history[a] EXCEPT ![k] = Append(history[a][k], outcome)]]
        /\ UNCHANGED <<day, issued, truth, decision>>
    BY DEF Promotion!Store, Promotion!Undecided
  <1>2. PICK more \in Seq(Promotion!Outcome) : more = Append(history[a][k], outcome) /\ Len(more) = Len(history[a][k]) + 1
    <2>1. PICK log \in Seq(Promotion!Outcome) : log = history[a][k]
      OBVIOUS
    <2> HIDE DEF PromotionInv, EvidenceTyped
    <2>2. Append(log, outcome) \in Seq(Promotion!Outcome) /\ Len(Append(log, outcome)) = Len(log) + 1
      OBVIOUS
    <2> QED
      BY <2>1, <2>2
  <1>3. PICK row \in [Promotion!Questions -> Seq(Promotion!Outcome)] : row = [history[a] EXCEPT ![k] = more]
    OBVIOUS
  <1>4. history' = [history EXCEPT ![a] = row]
    BY <1>1, <1>2, <1>3
  <1>5. history' \in [Promotion!Arms -> [Promotion!Questions -> Seq(Promotion!Outcome)]]
    BY <1>4
  <1>6. Len(more) <= MaxStored
    BY <1>1, <1>2, RecommendationAssumption
  <1>7. ASSUME NEW b \in Promotion!Arms, NEW q \in Promotion!Questions
        PROVE  Len(history'[b][q]) <= MaxStored /\ (history'[b][q] # <<>> => q \in issued'[b])
    <2>1. CASE b = a /\ q = k
      BY <1>1, <1>3, <1>4, <1>6, <2>1
    <2>2. CASE ~(b = a /\ q = k)
      BY <1>1, <1>3, <1>4, <2>2
    <2> QED
      BY <2>1, <2>2
  <1> QED
    BY <1>1, <1>5, <1>7, NothingIsDecidedNext

LEMMA NewDayKeeps == ASSUME PromotionInv, Promotion!NewDay PROVE PromotionInv'
  <1> USE DEF PromotionInv, EvidenceTyped
  <1>1. decision' = Promotion!NoDecision /\ UNCHANGED <<truth, history, decision, left>>
    BY DEF Promotion!NewDay, Promotion!Undecided
  <1>2. day' \in 0..(Days + 1)
    BY RecommendationAssumption DEF Promotion!NewDay
  <1>3. /\ issued' \in [Promotion!Arms -> SUBSET Promotion!Questions]
        /\ \A a \in Promotion!Arms : issued[a] \subseteq issued'[a]
    <2>1. CASE day' <= Days
      <3>1. PICK A \in SUBSET Promotion!Arms :
                issued' = [a \in Promotion!Arms |-> IF a \in A THEN issued[a] \cup {day'} ELSE issued[a]]
        BY <2>1 DEF Promotion!NewDay
      <3>2. day' \in Promotion!Questions
        BY <2>1, RecommendationAssumption DEF Promotion!NewDay, Promotion!Questions
      <3> QED
        BY <3>1, <3>2
    <2>2. CASE ~(day' <= Days)
      BY <2>2 DEF Promotion!NewDay
    <2> QED
      BY <2>1, <2>2
  <1> QED
    BY <1>1, <1>2, <1>3, NothingIsDecidedNext

LEMMA CorrectKeeps == ASSUME PromotionInv, NEW k \in Promotion!Questions, Promotion!Correct(k) PROVE PromotionInv'
  <1> USE DEF PromotionInv, EvidenceTyped
  <1>1. decision' = Promotion!NoDecision /\ UNCHANGED <<day, issued, history, decision>> /\ left.corrections > 0
    BY DEF Promotion!Correct, Promotion!Undecided
  <1>2. truth' \in [Promotion!Questions -> Labels]
    BY DEF Promotion!Correct
  <1>3. left' \in [corrections : 0..MaxCorrections, early : 0..MaxEarly]
    <2>1. PICK fewer \in 0..MaxCorrections : fewer = left.corrections - 1
      BY <1>1, RecommendationAssumption
    <2>2. left' = [left EXCEPT !.corrections = fewer]
      BY <2>1 DEF Promotion!Correct
    <2> QED
      BY <2>1, <2>2
  <1> QED
    BY <1>1, <1>2, <1>3, NothingIsDecidedNext

LEMMA ReconcileKeeps ==
    ASSUME PromotionInv, NEW a \in Promotion!Arms, NEW k \in Promotion!Questions,
           Promotion!Reconcile(a, k) \/ Promotion!StoreEarly(a, k)
    PROVE  PromotionInv'
  <1>1. CASE Promotion!Reconcile(a, k)
    <2>1. PICK label \in Labels \cup {"none"} : Promotion!Store(a, k, [label |-> label, late |-> TRUE])
      BY <1>1 DEF Promotion!Reconcile, PromotionInv, EvidenceTyped
    <2>2. PICK outcome \in Promotion!Outcome : outcome = [label |-> label, late |-> TRUE]
      BY DEF Promotion!Outcome
    <2>3. left' \in [corrections : 0..MaxCorrections, early : 0..MaxEarly]
      BY <1>1 DEF Promotion!Reconcile, PromotionInv, EvidenceTyped
    <2> QED
      BY <2>1, <2>2, <2>3, StoreKeeps
  <1>2. CASE Promotion!StoreEarly(a, k)
    <2>1. PICK outcome \in Promotion!Outcome : outcome = [label |-> truth[k], late |-> FALSE]
      <3>1. truth[k] \in Labels
        BY DEF PromotionInv, EvidenceTyped
      <3> QED
        BY <3>1 DEF Promotion!Outcome
    <2>2. left' \in [corrections : 0..MaxCorrections, early : 0..MaxEarly]
      <3>1. left \in [corrections : 0..MaxCorrections, early : 0..MaxEarly] /\ left.early > 0
        BY <1>2 DEF Promotion!StoreEarly, PromotionInv, EvidenceTyped
      <3>2. PICK fewer \in 0..MaxEarly : fewer = left.early - 1
        BY <3>1, RecommendationAssumption
      <3>3. left' = [left EXCEPT !.early = fewer]
        BY <1>2, <3>2 DEF Promotion!StoreEarly
      <3> QED
        BY <3>1, <3>2, <3>3
    <2>3. Promotion!Store(a, k, outcome)
      BY <1>2, <2>1 DEF Promotion!StoreEarly
    <2> QED
      BY <2>2, <2>3, StoreKeeps
  <1> QED
    BY <1>1, <1>2

\* The last observed revision of an outcome is there.
LEMMA LatestIsObserved ==
    ASSUME EvidenceTyped, NEW a \in Promotion!Arms, NEW k \in Promotion!Questions, Promotion!Scored(a, k)
    PROVE  /\ Promotion!LatestObserved(a, k) \in Promotion!Outcome
           /\ Promotion!LatestObserved(a, k)
                 = history[a][k][CHOOSE i \in Promotion!Observed(a, k) : \A j \in Promotion!Observed(a, k) : j <= i]
  <1> DEFINE seen == Promotion!Observed(a, k)
  <1>1. history[a][k] \in Seq(Promotion!Outcome)
    BY DEF EvidenceTyped
  <1>2. Len(history[a][k]) \in Nat
    BY <1>1
  <1>3. seen \in SUBSET (0..Len(history[a][k])) /\ seen # {} /\ seen \in SUBSET (1..Len(history[a][k]))
    BY <1>2 DEF Promotion!Observed, Promotion!Scored
  <1> HIDE DEF seen
  <1>4. PICK i \in seen : \A j \in seen : i >= j
    BY <1>2, <1>3, Greatest
  <1>5. \A j \in seen : j <= i
    BY <1>2, <1>3, <1>4
  <1>6. (CHOOSE i_ \in seen : \A j \in seen : j <= i_) \in seen
    BY <1>5
  <1>7. history[a][k][CHOOSE i_ \in seen : \A j \in seen : j <= i_] \in Promotion!Outcome
    <2>1. PICK log \in Seq(Promotion!Outcome) : log = history[a][k]
      BY <1>1
    <2>2. \A x \in 1..Len(log) : log[x] \in Promotion!Outcome
      OBVIOUS
    <2> QED
      BY <1>3, <1>6, <2>1, <2>2
  <1> QED
    BY <1>7 DEF seen, Promotion!LatestObserved

\* What is asked is finite, and what is matched was asked.
LEMMA MatchedWasAsked ==
    ASSUME EvidenceTyped
    PROVE  /\ Promotion!Matched \in SUBSET Promotion!Asked /\ Promotion!Matched \in SUBSET Promotion!Questions
           /\ IsFiniteSet(Promotion!Asked) /\ IsFiniteSet(Promotion!Matched)
           /\ Cardinality(Promotion!Asked) \in Nat /\ Cardinality(Promotion!Matched) \in Nat
           /\ Cardinality(Promotion!Asked \ Promotion!Matched)
                 = Cardinality(Promotion!Asked) - Cardinality(Promotion!Matched)
  <1>1. /\ Promotion!Matched \in SUBSET Promotion!Asked
        /\ Promotion!Asked \in SUBSET Promotion!Questions
    BY DEF Promotion!Matched, Promotion!Shared, Promotion!Asked, EvidenceTyped, Promotion!Arms
  <1>2. IsFiniteSet(Promotion!Questions)
    BY RecommendationAssumption, FS_Interval DEF Promotion!Questions
  <1>3. IsFiniteSet(Promotion!Asked) /\ IsFiniteSet(Promotion!Matched)
    BY <1>1, <1>2, FS_Subset
  <1>4. Cardinality(Promotion!Asked \ Promotion!Matched)
            = Cardinality(Promotion!Asked) - Cardinality(Promotion!Asked \cap Promotion!Matched)
    BY <1>3, FS_Difference
  <1>5. Promotion!Asked \cap Promotion!Matched = Promotion!Matched
    BY <1>1
  <1> QED
    BY <1>1, <1>3, <1>4, <1>5, FS_CardinalityType

\* Nearly all that was asked is matched, counted from what is missing.
LEMMA CoverageFromBelow ==
    ASSUME NEW m \in Nat, NEW n \in Nat, NEW low \in Nat, NEW high \in Nat, m * high >= n * low
    PROVE  (n - m) * high <= n * (high - low)
  <1>1. (n - m) * high = n * high - m * high /\ n * (high - low) = n * high - n * low
    OBVIOUS
  <1>2. m * high \in Nat /\ n * low \in Nat /\ n * high \in Nat
    OBVIOUS
  <1> QED
    BY <1>1, <1>2

\* A pair that is reconciled is the last answer of both arms, which neither had.
LEMMA ReconciledPairs ==
    ASSUME EvidenceTyped, NEW k \in Promotion!Matched, Promotion!Reconciled(k), NEW a \in Promotion!Arms
    PROVE  history[a][k][CHOOSE i \in Promotion!Observed(a, k) : \A j \in Promotion!Observed(a, k) : j <= i]
              = [label |-> Promotion!LatestObserved("champion", k).label, late |-> TRUE]
  <1>1. k \in Promotion!Questions /\ \A b \in Promotion!Arms : Promotion!Scored(b, k)
    BY MatchedWasAsked DEF Promotion!Matched
  <1>2. PICK mine \in Promotion!Outcome : mine = Promotion!LatestObserved(a, k)
    BY <1>1, LatestIsObserved
  <1>3. mine.late = TRUE /\ mine.label = Promotion!LatestObserved("champion", k).label
    BY <1>2 DEF Promotion!Reconciled, Promotion!Arms, Promotion!Outcome
  <1>4. mine = [label |-> mine.label, late |-> mine.late]
    BY DEF Promotion!Outcome
  <1> QED
    BY <1>1, <1>2, <1>3, <1>4, LatestIsObserved

LEMMA DecideKeeps == ASSUME PromotionInv, Promotion!Decide PROVE PromotionInv'
  <1> USE DEF PromotionInv
  <1>0. UNCHANGED <<day, issued, truth, history, left>> /\ EvidenceTyped
    BY DEF Promotion!Decide
  <1>1. CASE decision' = [recommendation |-> "refused"]
    <2>1. EvidenceTyped'
      BY <1>0, <1>1 DEF EvidenceTyped, Promotion!Recommendations
    <2> QED
      BY <1>1, <2>1 DEF Promotion!RecommendationHolds, Promotion!PairsAreFair, Promotion!DaysWeighTheSame,
         Promotion!FamilyIsControlled, Promotion!PromotionIsEarned, Promotion!Decided
  <1>2. CASE decision' # [recommendation |-> "refused"]
    <2>1. \A k \in Promotion!Matched : Promotion!Reconciled(k)
      BY <1>2 DEF Promotion!Decide
    <2>2. PICK supplied \in BOOLEAN : \E tests \in IF Promotion!Gates(supplied) THEN Samples ELSE {<<>>} :
              decision' = [recommendation |-> Promotion!Verdict(tests, supplied), tests |-> tests,
                           pairs |-> [k \in Promotion!Matched |-> Promotion!LatestObserved("champion", k).label],
                           rejected |-> {a \in DOMAIN Promotion!Family(tests) :
                                            Promotion!Rejected(Promotion!Family(tests), a, Policy.alpha)}]
      BY <1>2, <2>1 DEF Promotion!Decide
    <2>3. PICK tests \in IF Promotion!Gates(supplied) THEN Samples ELSE {<<>>} :
              decision' = [recommendation |-> Promotion!Verdict(tests, supplied), tests |-> tests,
                           pairs |-> [k \in Promotion!Matched |-> Promotion!LatestObserved("champion", k).label],
                           rejected |-> {a \in DOMAIN Promotion!Family(tests) :
                                            Promotion!Rejected(Promotion!Family(tests), a, Policy.alpha)}]
      BY <2>2
    <2> DEFINE p == Promotion!Family(tests)
               pairs == [k \in Promotion!Matched |-> Promotion!LatestObserved("champion", k).label]
    <2>4. /\ decision'.recommendation = Promotion!Verdict(tests, supplied) /\ decision'.tests = tests
          /\ decision'.pairs = pairs
          /\ decision'.rejected = {a \in DOMAIN p : Promotion!Rejected(p, a, Policy.alpha)}
      BY <2>3
    <2>5. tests \in Seq(Test)
      <3>1. Samples \subseteq Seq(Test)
        BY Zenon, RecommendationAssumption DEF Test
      <3>2. <<>> \in Seq(Test)
        OBVIOUS
      <3> QED
        BY <3>1, <3>2
    <2>6. /\ DOMAIN p \in SUBSET Nat /\ IsFiniteSet(DOMAIN p) /\ p \in [DOMAIN p -> Nat]
          /\ DOMAIN p = {tests[i].name : i \in 1..Len(tests)}
      BY <2>5, FamilyIsFinite
    <2>7. Policy.alpha \in Nat /\ Policy.covered[1] \in Nat /\ Policy.covered[2] \in Nat /\ Policy.dates \in Nat
      BY RecommendationAssumption
    <2>8. DOMAIN pairs = Promotion!Matched
      OBVIOUS
    <2>9. Promotion!Asked' = Promotion!Asked /\ \A a, k : Promotion!Observed(a, k)' = Promotion!Observed(a, k)
      BY <1>0 DEF Promotion!Asked, Promotion!Observed
    <2>10. EvidenceTyped'
      <3>1. Promotion!Verdict(tests, supplied) \in Promotion!Recommendations
        BY DEF Promotion!Verdict, Promotion!Recommendations
      <3> QED
        BY <1>0, <2>4, <3>1 DEF EvidenceTyped
    <2> HIDE DEF p
    <2>11. Promotion!PairsAreFair'
      <3>1. ASSUME NEW k \in Promotion!Matched, NEW a \in Promotion!Arms
            PROVE  history'[a][k][CHOOSE i \in Promotion!Observed(a, k)' : \A j \in Promotion!Observed(a, k)' : j <= i]
                      = [label |-> decision'.pairs[k], late |-> TRUE]
        <4>1. decision'.pairs[k] = Promotion!LatestObserved("champion", k).label
          BY <2>4
        <4> QED
          BY <1>0, <2>1, <2>9, <4>1, ReconciledPairs
      <3> QED
        BY <2>4, <2>8, <3>1 DEF Promotion!PairsAreFair
    <2> HIDE DEF pairs
    <2>12. Promotion!DaysWeighTheSame'
      <3>1. Promotion!Cardinality(DOMAIN decision'.pairs) \in Nat
        BY <1>0, <2>4, <2>8, MatchedWasAsked, SamePromotionCardinality
      <3>2. \A place, d \in 0..(Promotion!Cardinality(DOMAIN decision'.pairs) - 1) :
                Promotion!Drawn(Promotion!Cardinality(DOMAIN decision'.pairs), place, d)
                    = Promotion!Drawn(Promotion!Cardinality(DOMAIN decision'.pairs), place, 0)
        BY <3>1, DaysAreDrawnAlike
      <3> QED
        BY <3>2 DEF Promotion!DaysWeighTheSame
    <2>13. Promotion!FamilyIsControlled'
      <3>1. \A a \in DOMAIN p :
                Promotion!Rejected(p, a, Policy.alpha) <=>
                    \A S \in SUBSET (DOMAIN p) : a \in S =>
                        \E b \in S : Promotion!Cardinality(S) * p[b] <= Policy.alpha
        BY <2>6, <2>7, HolmIsClosed, ClosedIsHolm
      <3>2. decision'.rejected = {a \in DOMAIN p : \A S \in SUBSET (DOMAIN p) : a \in S =>
                                     \E b \in S : Promotion!Cardinality(S) * p[b] <= Policy.alpha}
        BY <2>4, <3>1
      <3>3. p = Promotion!Family(decision'.tests)
        BY <2>4 DEF p
      <3> QED
        BY <3>2, <3>3 DEF Promotion!FamilyIsControlled
    <2>14. ASSUME decision'.recommendation = "promote"
           PROVE  /\ Promotion!Cardinality(DOMAIN decision'.pairs) >= Policy.dates
                  /\ Promotion!Cardinality(Promotion!Asked \ DOMAIN decision'.pairs) * Policy.covered[2]
                        <= Promotion!Cardinality(Promotion!Asked) * (Policy.covered[2] - Policy.covered[1])
                  /\ decision'.rejected = {decision'.tests[i].name : i \in 1..Len(decision'.tests)}
      <3>1. Promotion!Gates(supplied) /\ Promotion!AllRejected(tests)
        BY <2>4, <2>14 DEF Promotion!Verdict
      <3>2. Promotion!Cardinality(Promotion!Matched) >= Policy.dates
        BY <3>1 DEF Promotion!Gates, Promotion!Dates
      <3>3. Cardinality(Promotion!Matched) * Policy.covered[2] >= Cardinality(Promotion!Asked) * Policy.covered[1]
        BY <3>1, SamePromotionCardinality DEF Promotion!Gates, Promotion!Coverage
      <3>4. (Cardinality(Promotion!Asked) - Cardinality(Promotion!Matched)) * Policy.covered[2]
                <= Cardinality(Promotion!Asked) * (Policy.covered[2] - Policy.covered[1])
        BY <1>0, <2>7, <3>3, MatchedWasAsked, CoverageFromBelow
      <3>5. Promotion!Cardinality(Promotion!Asked \ Promotion!Matched) * Policy.covered[2]
                <= Promotion!Cardinality(Promotion!Asked) * (Policy.covered[2] - Policy.covered[1])
        BY <1>0, <3>4, MatchedWasAsked, SamePromotionCardinality
      <3>6. decision'.rejected = DOMAIN p
        BY <2>4, <3>1 DEF Promotion!AllRejected, p
      <3> QED
        BY <2>4, <2>6, <2>8, <3>2, <3>5, <3>6
    <2>15. Promotion!PromotionIsEarned'
      BY <2>9, <2>14 DEF Promotion!PromotionIsEarned
    <2> QED
      BY <2>10, <2>11, <2>12, <2>13, <2>15 DEF Promotion!RecommendationHolds
  <1> QED
    BY <1>1, <1>2

LEMMA PromotionNext == PromotionInv /\ Promotion!Next => PromotionInv'
  BY NewDayKeeps, ReconcileKeeps, CorrectKeeps, DecideKeeps DEF Promotion!Next

LEMMA PromotionStays == PromotionInv /\ UNCHANGED evidenceVars => PromotionInv'
  <1> SUFFICES ASSUME PromotionInv, UNCHANGED evidenceVars PROVE PromotionInv'
    OBVIOUS
  <1>1. EvidenceTyped'
    BY DEF evidenceVars, PromotionInv, EvidenceTyped
  <1>2. Promotion!RecommendationHolds'
    <2>1. /\ decision' = decision /\ history' = history /\ Promotion!Asked' = Promotion!Asked
          /\ \A a, k : Promotion!Observed(a, k)' = Promotion!Observed(a, k)
      BY DEF evidenceVars, Promotion!Asked, Promotion!Observed
    <2>2. Promotion!PairsAreFair'
      BY <2>1 DEF PromotionInv, Promotion!RecommendationHolds, Promotion!PairsAreFair, Promotion!Decided
    <2>3. Promotion!DaysWeighTheSame' /\ Promotion!FamilyIsControlled'
      BY <2>1 DEF PromotionInv, Promotion!RecommendationHolds, Promotion!DaysWeighTheSame,
         Promotion!FamilyIsControlled, Promotion!Decided
    <2>4. Promotion!PromotionIsEarned'
      BY <2>1 DEF PromotionInv, Promotion!RecommendationHolds, Promotion!PromotionIsEarned
    <2> QED
      BY <2>2, <2>3, <2>4 DEF Promotion!RecommendationHolds
  <1> QED
    BY <1>1, <1>2 DEF PromotionInv

LEMMA PromotionPromise == PromotionInv => Promotion!TypeOK /\ Promotion!RecommendationHolds
  BY DEF PromotionInv, EvidenceTyped, Promotion!TypeOK

-----------------------------------------------------------------------------
\* Positions of dates (WalkForward).

LEMMA SameWalkCardinality == \A S : Walk!Cardinality(S) = Cardinality(S)
  BY DEF Walk!Cardinality, Cardinality, Walk!IsFiniteSet, IsFiniteSet

From(S, x, d) == {y \in S : x <= y /\ y < d}

\* Between two dates the position grows by the number of dates from one to the other.
LEMMA PositionsApart ==
    ASSUME NEW S \in SUBSET Nat, IsFiniteSet(S), NEW x \in Nat, NEW d \in Nat, x <= d
    PROVE  /\ Walk!Position(x, S) \in Nat /\ Walk!Position(d, S) \in Nat
           /\ IsFiniteSet(From(S, x, d)) /\ Cardinality(From(S, x, d)) \in Nat
           /\ Walk!Position(d, S) = Walk!Position(x, S) + Cardinality(From(S, x, d))
  <1> DEFINE lower == {y \in S : y < x}
             upper == {y \in S : y < d}
             between == From(S, x, d)
  <1>1. upper = lower \cup between /\ lower \cap between = {}
    <2>1. ASSUME NEW y \in S PROVE (y < d <=> y < x \/ (x <= y /\ y < d)) /\ ~(y < x /\ x <= y)
      <3>1. y \in Nat
        OBVIOUS
      <3> QED
        BY <3>1
    <2>2. \A y : y \in upper <=> y \in lower \/ y \in between
      BY <2>1 DEF From
    <2>3. \A y : ~(y \in lower /\ y \in between)
      BY <2>1 DEF From
    <2> QED
      BY <2>2, <2>3
  <1>2. lower \in SUBSET S /\ upper \in SUBSET S /\ between \in SUBSET S
    BY DEF From
  <1>3. Walk!Position(x, S) = Cardinality(lower) /\ Walk!Position(d, S) = Cardinality(upper)
    BY SameWalkCardinality DEF Walk!Position
  <1> HIDE DEF lower, upper, between
  <1>4. IsFiniteSet(lower) /\ IsFiniteSet(upper) /\ IsFiniteSet(between)
    BY <1>2, FS_Subset
  <1>5. Cardinality(lower \cup between) = Cardinality(lower) + Cardinality(between) - Cardinality(lower \cap between)
    BY <1>4, FS_Union
  <1>6. Cardinality({}) = 0
    BY FS_EmptySet
  <1>7. Cardinality(lower) \in Nat /\ Cardinality(upper) \in Nat /\ Cardinality(between) \in Nat
    BY <1>4, FS_CardinalityType
  <1>8. Cardinality(upper) = Cardinality(lower) + Cardinality(between)
    <2>1. Cardinality(lower \cap between) = 0 /\ Cardinality(upper) = Cardinality(lower \cup between)
      BY Zenon, <1>1, <1>6
    <2> QED
      BY <1>5, <1>7, <2>1
  <1> QED
    BY <1>3, <1>4, <1>7, <1>8 DEF between

LEMMA PositionIsMonotone ==
    ASSUME NEW S \in SUBSET Nat, IsFiniteSet(S), NEW x \in Nat, NEW d \in Nat, x <= d
    PROVE  Walk!Position(x, S) <= Walk!Position(d, S)
  BY PositionsApart

\* A date with a smaller position is earlier.
LEMMA EarlierPosition ==
    ASSUME NEW S \in SUBSET Nat, IsFiniteSet(S), NEW x \in Nat, NEW d \in Nat,
           Walk!Position(x, S) < Walk!Position(d, S)
    PROVE  x < d
  <1> SUFFICES ASSUME ~(x < d) PROVE FALSE
    OBVIOUS
  <1>1. d <= x
    OBVIOUS
  <1>2. Walk!Position(d, S) <= Walk!Position(x, S) /\ Walk!Position(d, S) \in Nat /\ Walk!Position(x, S) \in Nat
    BY <1>1, PositionsApart
  <1> QED
    BY <1>2

\* A date of the set is before its size.
LEMMA PositionIsBelowSize ==
    ASSUME NEW S \in SUBSET Nat, IsFiniteSet(S), NEW x \in S
    PROVE  /\ Walk!Position(x, S) \in Nat /\ Cardinality(S) \in Nat
           /\ Walk!Position(x, S) < Cardinality(S)
  <1> DEFINE Below == {y \in S : y < x}
  <1>1. Below \in SUBSET (S \ {x})
    OBVIOUS
  <1>2. IsFiniteSet(S \ {x}) /\ Cardinality(S \ {x}) = Cardinality(S) - 1
    BY FS_RemoveElement
  <1>3. Walk!Position(x, S) = Cardinality(Below)
    BY SameWalkCardinality DEF Walk!Position
  <1> HIDE DEF Below
  <1>4. IsFiniteSet(Below) /\ Cardinality(Below) <= Cardinality(S \ {x})
    BY <1>1, <1>2, FS_Subset
  <1>5. Cardinality(Below) \in Nat /\ Cardinality(S) \in Nat
    BY <1>4, FS_CardinalityType
  <1> QED
    BY <1>2, <1>3, <1>4, <1>5

\* In a part of a set dates are at most as far apart.
LEMMA PartsAreCloser ==
    ASSUME NEW S \in SUBSET Nat, IsFiniteSet(S), NEW C \in SUBSET S, NEW x \in Nat, NEW d \in Nat, x <= d
    PROVE  Walk!Position(d, C) - Walk!Position(x, C) <= Walk!Position(d, S) - Walk!Position(x, S)
  <1>1. IsFiniteSet(C) /\ C \in SUBSET Nat
    BY FS_Subset
  <1>2. From(C, x, d) \in SUBSET From(S, x, d)
    BY DEF From
  <1>3. IsFiniteSet(From(S, x, d))
    BY PositionsApart
  <1>4. Cardinality(From(C, x, d)) <= Cardinality(From(S, x, d))
    BY <1>2, <1>3, FS_Subset
  <1>5. /\ Walk!Position(x, S) \in Nat /\ Walk!Position(d, S) \in Nat /\ Cardinality(From(S, x, d)) \in Nat
        /\ Walk!Position(d, S) = Walk!Position(x, S) + Cardinality(From(S, x, d))
    BY PositionsApart
  <1>6. /\ Walk!Position(x, C) \in Nat /\ Walk!Position(d, C) \in Nat /\ Cardinality(From(C, x, d)) \in Nat
        /\ Walk!Position(d, C) = Walk!Position(x, C) + Cardinality(From(C, x, d))
    BY <1>1, PositionsApart
  <1> QED
    BY <1>4, <1>5, <1>6

-----------------------------------------------------------------------------
\* Rows by the position of their dates, and the tails of a training window.

AllRows == Assets \X (1..LastBar)

LEMMA DatesAreFinite ==
    ASSUME NEW R \in SUBSET AllRows
    PROVE  /\ Walk!DatesOf(R) \in SUBSET (1..LastBar) /\ Walk!DatesOf(R) \in SUBSET Nat
           /\ IsFiniteSet(Walk!DatesOf(R)) /\ Walk!Span(R) \in Nat
           /\ Walk!Span(R) = Cardinality(Walk!DatesOf(R))
           /\ \A r \in R : r[2] \in Walk!DatesOf(R) /\ r[2] \in Nat
  <1>1. /\ Walk!DatesOf(R) \in SUBSET (1..LastBar)
        /\ \A r \in R : r[2] \in Walk!DatesOf(R)
    BY DEF Walk!DatesOf, AllRows
  <1>2. IsFiniteSet(1..LastBar)
    BY WalkForwardAssumption, FS_Interval
  <1>3. IsFiniteSet(Walk!DatesOf(R))
    BY <1>1, <1>2, FS_Subset
  <1>4. 1..LastBar \in SUBSET Nat
    BY WalkForwardAssumption
  <1>5. Walk!Span(R) = Cardinality(Walk!DatesOf(R))
    BY SameWalkCardinality DEF Walk!Span
  <1> QED
    BY <1>1, <1>3, <1>4, <1>5, FS_CardinalityType

LEMMA RowsAtPositions ==
    ASSUME NEW R, NEW from, NEW until, NEW r
    PROVE  r \in Walk!RowsAt(R, from, until)
              <=> r \in R /\ Walk!Position(r[2], Walk!DatesOf(R)) \in from..(until - 1)
  BY DEF Walk!RowsAt, Walk!DatesOf

LEMMA TailIsANumber ==
    ASSUME NEW n \in Nat, NEW share \in Nat \ {0}
    PROVE  Walk!TailLength(n, share) \in Int
  <1>1. PICK wanted \in Int : wanted = (n + share - 1) \div share
    OBVIOUS
  <1>2. PICK atLeast \in Int : atLeast = Walk!Max({1, wanted})
    <2>1. \E x \in {1, wanted} : \A y \in {1, wanted} : x >= y
      OBVIOUS
    <2>2. Walk!Max({1, wanted}) \in {1, wanted}
      BY <2>1 DEF Walk!Max
    <2> QED
      BY <2>2
  <1>3. Walk!Min({n - 1, atLeast}) \in Int
    <2>1. PICK most \in Int : most = n - 1
      OBVIOUS
    <2>2. \E x \in {most, atLeast} : \A y \in {most, atLeast} : x <= y
      OBVIOUS
    <2>3. Walk!Min({most, atLeast}) \in {most, atLeast}
      BY <2>2 DEF Walk!Min
    <2> QED
      BY <2>1, <2>3
  <1> QED
    BY <1>1, <1>2, <1>3 DEF Walk!TailLength

\* A tail is later than what is left of the window.
LEMMA TailIsLater ==
    ASSUME NEW R \in SUBSET AllRows, NEW share \in Nat \ {0}
    PROVE  /\ Walk!LatestOf(R, share) \in SUBSET R /\ Walk!EarlierOf(R, share) \in SUBSET R
           /\ Walk!Precedes(Walk!EarlierOf(R, share), Walk!LatestOf(R, share))
  <1> DEFINE dates == Walk!DatesOf(R)
             tail == Walk!LatestOf(R, share)
             earlier == Walk!EarlierOf(R, share)
  <1>1. /\ dates \in SUBSET Nat /\ IsFiniteSet(dates) /\ Walk!Span(R) \in Nat /\ Walk!Span(R) = Cardinality(dates)
        /\ \A r \in R : r[2] \in dates /\ r[2] \in Nat
    BY DatesAreFinite
  <1>2. PICK start \in Int : start = Walk!Span(R) - Walk!TailLength(Walk!Span(R), share)
    BY <1>1, TailIsANumber
  <1>3. \A r : r \in tail <=> r \in R /\ Walk!Position(r[2], dates) \in start..(Walk!Span(R) - 1)
    BY <1>2, RowsAtPositions DEF Walk!LatestOf
  <1>4. \A r : r \in earlier <=> r \in R /\ r \notin tail
    BY DEF Walk!EarlierOf
  <1> HIDE DEF dates, tail, earlier
  <1>5. ASSUME NEW r \in earlier, NEW q \in tail PROVE r[2] < q[2]
    <2>1. r \in R /\ q \in R
      BY <1>3, <1>4
    <2>2. /\ Walk!Position(r[2], dates) \in Nat /\ Walk!Position(r[2], dates) < Walk!Span(R)
          /\ Walk!Position(q[2], dates) \in Nat
      BY <1>1, <2>1, PositionIsBelowSize
    <2>3. start <= Walk!Position(q[2], dates) /\ Walk!Position(r[2], dates) < start
      BY <1>1, <1>3, <1>4, <2>1, <2>2
    <2>4. Walk!Position(r[2], dates) < Walk!Position(q[2], dates)
      BY <2>2, <2>3
    <2> QED
      BY <1>1, <2>1, <2>4, EarlierPosition
  <1>6. \A d \in Walk!DatesOf(earlier), e \in Walk!DatesOf(tail) : d < e
    BY <1>5 DEF Walk!DatesOf
  <1> QED
    BY <1>3, <1>4, <1>6 DEF Walk!Precedes, earlier, tail

LEMMA PartsPrecede ==
    ASSUME NEW E, NEW L, Walk!Precedes(E, L), NEW e \in SUBSET E, NEW l \in SUBSET L
    PROVE  Walk!Precedes(e, l)
  BY DEF Walk!Precedes, Walk!DatesOf

LEMMA NothingIsPreceded == \A E : Walk!Precedes(E, {}) /\ Walk!Span({}) = 0
  BY SameWalkCardinality, FS_EmptySet DEF Walk!Precedes, Walk!DatesOf, Walk!Span

\* Calibrators and weights are chosen on later rows than what they are chosen for.
LEMMA EnsembleIsChronological ==
    ASSUME NEW R \in SUBSET AllRows
    PROVE  /\ Walk!Precedes(R \ Walk!Holdout(R), Walk!Calibration(R))
           /\ Walk!Span(Walk!Calibration(R) \cup Walk!Weighting(R)) > 1 =>
                  Walk!Precedes(Walk!Calibration(R), Walk!Weighting(R))
  <1> DEFINE hold == Walk!Holdout(R)
  <1>1. TailShare \in Nat \ {0} /\ 2 \in Nat \ {0}
    BY WalkForwardAssumption
  <1>2. hold \in SUBSET R /\ Walk!Precedes(R \ hold, hold)
    <2>1. CASE Walk!Span(R) < 2
      BY <2>1, NothingIsPreceded DEF Walk!Holdout
    <2>2. CASE ~(Walk!Span(R) < 2)
      <3>1. hold = Walk!LatestOf(R, TailShare) /\ R \ hold = Walk!EarlierOf(R, TailShare)
        BY <2>2 DEF Walk!Holdout, Walk!EarlierOf
      <3> QED
        BY <1>1, <3>1, TailIsLater
    <2> QED
      BY <2>1, <2>2
  <1>3. CASE Walk!Span(hold) < 2
    <2>1. Walk!Calibration(R) = hold /\ Walk!Weighting(R) = hold
      BY <1>3 DEF Walk!Calibration, Walk!Weighting
    <2>2. Walk!Calibration(R) \cup Walk!Weighting(R) = hold
      BY <2>1
    <2>3. hold \in SUBSET AllRows
      BY <1>2
    <2>4. Walk!Span(hold) \in Nat
      BY <2>3, DatesAreFinite
    <2> HIDE DEF hold
    <2>5. ~(Walk!Span(hold) > 1)
      BY <1>3, <2>4
    <2>6. ~(Walk!Span(Walk!Calibration(R) \cup Walk!Weighting(R)) > 1)
      BY Zenon, <2>2, <2>5
    <2>7. Walk!Precedes(R \ hold, Walk!Calibration(R))
      BY Zenon, <1>2, <2>1
    <2> QED
      BY <2>6, <2>7 DEF hold
  <1>4. CASE ~(Walk!Span(hold) < 2)
    <2>1. Walk!Calibration(R) = Walk!EarlierOf(hold, 2) /\ Walk!Weighting(R) = Walk!LatestOf(hold, 2)
      BY <1>4 DEF Walk!Calibration, Walk!Weighting
    <2>2. hold \in SUBSET AllRows
      BY <1>2
    <2> HIDE DEF hold
    <2>3. Walk!EarlierOf(hold, 2) \in SUBSET hold /\ Walk!Precedes(Walk!EarlierOf(hold, 2), Walk!LatestOf(hold, 2))
      BY <1>1, <2>2, TailIsLater
    <2>4. Walk!Precedes(R \ hold, Walk!EarlierOf(hold, 2))
      BY <1>2, <2>3, PartsPrecede
    <2> QED
      BY <2>1, <2>3, <2>4 DEF hold
  <1> QED
    BY <1>3, <1>4

\* The scaler and the network are fitted to earlier rows than training is stopped on.
LEMMA StoppingIsChronological ==
    ASSUME NEW R \in SUBSET AllRows
    PROVE  Walk!Precedes((R \ Walk!Validation(R)) \cup Walk!Scaling(R), Walk!Validation(R))
  <1>1. CASE Walk!Span(R) < 2
    BY <1>1, NothingIsPreceded DEF Walk!Validation
  <1>2. CASE ~(Walk!Span(R) < 2)
    <2>1. Walk!Validation(R) = Walk!LatestOf(R, TailShare) /\ Walk!Scaling(R) = Walk!EarlierOf(R, TailShare)
      BY <1>2 DEF Walk!Validation, Walk!Scaling
    <2>2. (R \ Walk!LatestOf(R, TailShare)) \cup Walk!EarlierOf(R, TailShare) = Walk!EarlierOf(R, TailShare)
      BY DEF Walk!EarlierOf
    <2>3. TailShare \in Nat \ {0}
      BY WalkForwardAssumption
    <2>4. Walk!Precedes(Walk!EarlierOf(R, TailShare), Walk!LatestOf(R, TailShare))
      BY <2>3, TailIsLater
    <2> QED
      BY Zenon, <2>1, <2>2, <2>4
  <1> QED
    BY <1>1, <1>2

-----------------------------------------------------------------------------
\* The folds.

Folds == 0..(NSplits - 1)
Block(k) == [train |-> Walk!TrainRows(k), test |-> Walk!TestRows(k), reads |-> Walk!Reads(Walk!TrainRows(k))]

LEMMA FoldBounds ==
    ASSUME frame \in SUBSET AllRows, NEW k \in Folds
    PROVE  Walk!TestStart(k) \in Int /\ Walk!TrainEnd(k) \in Int /\ Walk!TrainStart(k) \in Int
  <1>1. Walk!Span(frame) \in Nat /\ k \in Int /\ TestSize \in Int /\ NSplits \in Int /\ Embargo \in Int /\ MinTrain \in Int
    BY DatesAreFinite, WalkForwardAssumption DEF Folds
  <1>2. Walk!TestStart(k) \in Int
    BY <1>1 DEF Walk!TestStart
  <1>3. Walk!TrainEnd(k) \in Int
    BY <1>1, <1>2 DEF Walk!TrainEnd
  <1>4. PICK back \in Int : back = Walk!TrainEnd(k) - MinTrain
    BY <1>1, <1>3
  <1>5. Walk!Max({0, back}) \in Int
    <2>1. \E x \in {0, back} : \A y \in {0, back} : x >= y
      OBVIOUS
    <2>2. Walk!Max({0, back}) \in {0, back}
      BY <2>1 DEF Walk!Max
    <2> QED
      BY <2>2
  <1> QED
    BY <1>2, <1>3, <1>4, <1>5 DEF Walk!TrainStart

LEMMA FoldRows ==
    ASSUME frame \in SUBSET AllRows, NEW k \in Folds
    PROVE  /\ \A r \in Walk!TrainRows(k) :
                 r \in frame /\ Walk!Position(r[2], Walk!DatesOf(frame)) < Walk!TestStart(k) - Embargo
           /\ \A r \in Walk!TestRows(k) :
                 /\ r \in frame /\ Walk!Position(r[2], Walk!DatesOf(frame)) >= Walk!TestStart(k)
                 /\ Walk!Position(r[2], Walk!DatesOf(frame)) < Walk!TestStart(k) + TestSize
  <1>1. PICK start \in Int : start = Walk!TestStart(k)
    BY FoldBounds
  <1>2. PICK first \in Int : first = Walk!TrainStart(k)
    BY FoldBounds
  <1>3. PICK end \in Int : end = Walk!TrainEnd(k)
    BY FoldBounds
  <1>4. end = start - Embargo /\ Embargo \in Nat /\ TestSize \in Nat
    BY <1>1, <1>3, WalkForwardAssumption DEF Walk!TrainEnd
  <1>5. ASSUME NEW r \in Walk!TrainRows(k)
        PROVE  r \in frame /\ Walk!Position(r[2], Walk!DatesOf(frame)) < start - Embargo
    <2>1. r \in frame /\ Walk!Position(r[2], Walk!DatesOf(frame)) \in first..(end - 1)
      BY <1>2, <1>3, RowsAtPositions DEF Walk!TrainRows
    <2> QED
      BY <1>4, <2>1
  <1>6. ASSUME NEW r \in Walk!TestRows(k)
        PROVE  /\ r \in frame /\ Walk!Position(r[2], Walk!DatesOf(frame)) >= start
               /\ Walk!Position(r[2], Walk!DatesOf(frame)) < start + TestSize
    <2>1. PICK until \in Int : until = start + TestSize
      BY <1>4
    <2>2. r \in Walk!RowsAt(frame, start, until)
      BY <1>1, <2>1 DEF Walk!TestRows
    <2>3. r \in frame /\ Walk!Position(r[2], Walk!DatesOf(frame)) \in start..(until - 1)
      BY <2>2, RowsAtPositions
    <2> QED
      BY <1>4, <2>1, <2>3
  <1> QED
    BY <1>1, <1>5, <1>6

\* A later fold forecasts later dates.
LEMMA FoldsFollow ==
    ASSUME frame \in SUBSET AllRows, NEW k \in Folds, NEW l \in Folds, k < l
    PROVE  \A d \in Walk!DatesOf(Walk!TestRows(k)), e \in Walk!DatesOf(Walk!TestRows(l)) : d < e
  <1> DEFINE dates == Walk!DatesOf(frame)
  <1>1. Walk!TestStart(k) + TestSize <= Walk!TestStart(l)
    <2>1. k \in Nat /\ l \in Nat /\ TestSize \in Nat /\ NSplits \in Nat /\ Walk!Span(frame) \in Nat
      BY DatesAreFinite, WalkForwardAssumption DEF Folds
    <2>2. PICK more \in Nat : l = k + 1 + more
      <3>1. l - (k + 1) \in Nat /\ l = k + 1 + (l - (k + 1))
        BY <2>1
      <3> QED
        BY <3>1
    <2>3. more * TestSize \in Nat /\ l * TestSize = k * TestSize + TestSize + more * TestSize
      BY <2>1, <2>2
    <2>4. k * TestSize \in Nat /\ l * TestSize \in Nat /\ NSplits * TestSize \in Nat
      BY <2>1
    <2> QED
      BY <2>1, <2>3, <2>4 DEF Walk!TestStart
  <1>2. dates \in SUBSET Nat /\ IsFiniteSet(dates) /\ \A r \in frame : r[2] \in dates /\ r[2] \in Nat
    BY DatesAreFinite
  <1>3. Walk!TestStart(k) \in Int /\ Walk!TestStart(l) \in Int /\ TestSize \in Int
    BY FoldBounds, WalkForwardAssumption
  <1> HIDE DEF dates
  <1>4. ASSUME NEW r \in Walk!TestRows(k), NEW q \in Walk!TestRows(l) PROVE r[2] < q[2]
    <2>1. /\ r \in frame /\ q \in frame
          /\ Walk!Position(r[2], dates) < Walk!TestStart(k) + TestSize
          /\ Walk!Position(q[2], dates) >= Walk!TestStart(l)
      BY FoldRows DEF dates
    <2>2. Walk!Position(r[2], dates) \in Nat /\ Walk!Position(q[2], dates) \in Nat
      BY <1>2, <2>1, PositionIsBelowSize
    <2>3. Walk!Position(r[2], dates) < Walk!Position(q[2], dates)
      BY <1>1, <1>3, <2>1, <2>2
    <2> QED
      BY <1>2, <2>1, <2>3, EarlierPosition
  <1> QED
    BY <1>4 DEF Walk!DatesOf

\* Whatever a fold trains on is more than the embargo before what it forecasts.
LEMMA TrainIsBefore ==
    ASSUME frame \in SUBSET AllRows, NEW k \in Folds, NEW r \in Walk!TrainRows(k), NEW q \in Walk!TestRows(k)
    PROVE  /\ r \in frame /\ q \in frame /\ r[2] < q[2]
           /\ Walk!Position(q[2], Walk!DatesOf(frame)) - Walk!Position(r[2], Walk!DatesOf(frame)) > Embargo
  <1> DEFINE dates == Walk!DatesOf(frame)
  <1>1. dates \in SUBSET Nat /\ IsFiniteSet(dates) /\ \A x \in frame : x[2] \in dates /\ x[2] \in Nat
    BY DatesAreFinite
  <1>2. Walk!TestStart(k) \in Int /\ Embargo \in Nat
    BY FoldBounds, WalkForwardAssumption
  <1>3. /\ r \in frame /\ q \in frame
        /\ Walk!Position(r[2], dates) < Walk!TestStart(k) - Embargo
        /\ Walk!Position(q[2], dates) >= Walk!TestStart(k)
    BY FoldRows
  <1> HIDE DEF dates
  <1>4. Walk!Position(r[2], dates) \in Nat /\ Walk!Position(q[2], dates) \in Nat
    BY <1>1, <1>3, PositionIsBelowSize
  <1>5. Walk!Position(q[2], dates) - Walk!Position(r[2], dates) > Embargo
    BY <1>2, <1>3, <1>4
  <1>6. Walk!Position(r[2], dates) < Walk!Position(q[2], dates)
    BY <1>2, <1>4, <1>5
  <1>7. r[2] < q[2]
    BY <1>1, <1>3, <1>6, EarlierPosition
  <1> QED
    BY <1>3, <1>5, <1>7 DEF dates

-----------------------------------------------------------------------------
\* Where labels end.

\* In a set of dates each position up to its size is taken.
LEMMA EveryPositionIsTaken ==
    ASSUME NEW S \in SUBSET Nat, IsFiniteSet(S), NEW n \in 0..(Cardinality(S) - 1)
    PROVE  \E e \in S : Walk!Position(e, S) = n
  <1> DEFINE N == Cardinality(S)
             f == [e \in S |-> Walk!Position(e, S)]
             places == 0..(N - 1)
  <1>1. N \in Nat
    BY FS_CardinalityType
  <1>2. IsFiniteSet(places) /\ Cardinality(places) = N
    BY <1>1, FS_Interval
  <1>3. \A e \in S : Walk!Position(e, S) \in Nat /\ Walk!Position(e, S) < N
    BY PositionIsBelowSize
  <1>4. f \in [S -> places]
    <2> HIDE DEF N
    <2> QED
      BY <1>1, <1>3
  <1>5. ASSUME NEW a \in S, NEW b \in S, a < b PROVE Walk!Position(a, S) < Walk!Position(b, S)
    <2>1. a \in From(S, a, b)
      BY <1>5 DEF From
    <2>2. /\ Walk!Position(a, S) \in Nat /\ IsFiniteSet(From(S, a, b)) /\ Cardinality(From(S, a, b)) \in Nat
          /\ Walk!Position(b, S) = Walk!Position(a, S) + Cardinality(From(S, a, b))
      BY <1>5, PositionsApart
    <2>3. Cardinality(From(S, a, b)) # 0
      BY <2>1, <2>2, FS_EmptySet
    <2> QED
      BY <2>2, <2>3
  <1>6. \A a, b \in S : f[a] = f[b] => a = b
    <2> SUFFICES ASSUME NEW a \in S, NEW b \in S, a # b PROVE Walk!Position(a, S) # Walk!Position(b, S)
      OBVIOUS
    <2>1. a < b \/ b < a
      OBVIOUS
    <2>2. Walk!Position(a, S) \in Nat /\ Walk!Position(b, S) \in Nat
      BY <1>3
    <2> QED
      BY <1>5, <2>1, <2>2
  <1>7. \A m \in places : \E e \in S : f[e] = m
    <2> HIDE DEF f, N, places
    <2>1. f \in Injection(S, places)
      BY <1>4, <1>6 DEF Injection, IsInjective
    <2>2. f \in Surjection(S, places)
      BY <1>2, <2>1, FS_Injection DEF N
    <2> QED
      BY <2>2 DEF Surjection
  <1> QED
    BY <1>7

\* Rows of one asset are as many as their dates.
LEMMA RowsOfOneAsset ==
    ASSUME NEW T \in SUBSET AllRows, NEW a, \A q \in T : q[1] = a
    PROVE  IsFiniteSet(T) /\ Cardinality(T) = Cardinality(Walk!DatesOf(T))
  <1> DEFINE dates == Walk!DatesOf(T)
             f == [q \in T |-> q[2]]
  <1>1. IsFiniteSet(dates)
    BY DatesAreFinite
  <1>2. f \in [T -> dates] /\ \A d \in dates : \E q \in T : f[q] = d
    BY DEF Walk!DatesOf
  <1>3. ASSUME NEW q \in T, NEW r \in T, f[q] = f[r] PROVE q = r
    <2>1. q = <<a, q[2]>> /\ r = <<a, r[2]>>
      BY DEF AllRows
    <2> QED
      BY <1>3, <2>1
  <1> HIDE DEF f, dates
  <1>4. f \in Injection(T, dates) /\ f \in Surjection(T, dates)
    BY <1>2, <1>3 DEF Injection, IsInjective, Surjection
  <1> QED
    BY <1>1, <1>4, FS_Injection DEF dates

LaterDates(r) == Walk!DatesOf(Walk!Later(r))

\* A label ends on the Horizon-th later row of its asset.
LEMMA LabelEndsAtHorizon ==
    ASSUME prices \in SUBSET AllRows, NEW r \in prices, Walk!Labelled(r)
    PROVE  /\ LaterDates(r) \in SUBSET Nat /\ IsFiniteSet(LaterDates(r))
           /\ Walk!LabelEnd(r) \in LaterDates(r) /\ Walk!Position(Walk!LabelEnd(r), LaterDates(r)) = Horizon - 1
  <1> DEFINE later == Walk!Later(r)
             dates == LaterDates(r)
             Until(e) == {q \in later : q[2] <= e}
  <1>1. later \in SUBSET AllRows /\ \A q \in later : q[1] = r[1]
    BY DEF Walk!Later, Walk!RowsOf
  <1>2. dates \in SUBSET Nat /\ IsFiniteSet(dates) /\ \A q \in later : q[2] \in dates /\ q[2] \in Nat
    BY <1>1, DatesAreFinite DEF LaterDates
  <1>3. Cardinality(later) = Cardinality(dates) /\ Cardinality(dates) \in Nat
    BY <1>1, <1>2, RowsOfOneAsset, FS_CardinalityType DEF LaterDates
  <1>4. Cardinality(dates) >= Horizon /\ Horizon \in Nat \ {0}
    BY <1>3, SameWalkCardinality, WindowsAssumption DEF Walk!Labelled
  <1>5. ASSUME NEW e \in dates PROVE Walk!Cardinality(Until(e)) = Walk!Position(e, dates) + 1
    <2>1. Until(e) \in SUBSET AllRows /\ \A q \in Until(e) : q[1] = r[1]
      BY <1>1
    <2>2. Walk!Cardinality(Until(e)) = Cardinality(Walk!DatesOf(Until(e)))
      <3> HIDE DEF Until
      <3> QED
        BY <2>1, RowsOfOneAsset, SameWalkCardinality
    <2>3. e \in Nat /\ e + 1 \in Nat /\ e <= e + 1 /\ 0 \in Nat /\ 0 <= e
      BY <1>2
    <2>4. Walk!DatesOf(Until(e)) = {d \in dates : d < e + 1}
      <3>1. \A d \in dates : d <= e <=> d < e + 1
        BY <1>2, <2>3
      <3> QED
        BY <3>1 DEF Walk!DatesOf, LaterDates
    <2>5. Walk!Cardinality(Until(e)) = Walk!Position(e + 1, dates)
      <3>1. Walk!Position(e + 1, dates) = Cardinality({d \in dates : d < e + 1})
        BY SameWalkCardinality DEF Walk!Position
      <3> QED
        BY Zenon, <2>2, <2>4, <3>1
    <2>6. Walk!Position(e + 1, dates) = Walk!Position(e, dates) + Cardinality(From(dates, e, e + 1))
      BY <1>2, <2>3, PositionsApart
    <2>7. From(dates, e, e + 1) = {e}
      <3>1. \A d \in dates : e <= d /\ d < e + 1 <=> d = e
        BY <1>2, <2>3
      <3> QED
        BY <3>1 DEF From
    <2>8. Cardinality({e}) = 1
      BY FS_Singleton
    <2> QED
      BY <2>5, <2>6, <2>7, <2>8
  <1>6. PICK e \in dates : Walk!Position(e, dates) = Horizon - 1
    <2>1. Horizon - 1 \in 0..(Cardinality(dates) - 1)
      BY <1>3, <1>4
    <2> HIDE DEF dates
    <2> QED
      BY <1>2, <2>1, EveryPositionIsTaken
  <1> DEFINE IsEnd(x) == Walk!Cardinality(Until(x)) = Horizon
  <1>7. IsEnd(e)
    BY <1>4, <1>5, <1>6
  <1>8. Walk!LabelEnd(r) = CHOOSE x \in dates : IsEnd(x)
    BY Zenon DEF Walk!LabelEnd, LaterDates, Walk!DatesOf
  <1>9. (CHOOSE x \in dates : IsEnd(x)) \in dates /\ IsEnd(CHOOSE x \in dates : IsEnd(x))
    <2> HIDE DEF IsEnd, dates
    <2> QED
      BY <1>7
  <1>10. PICK end \in dates : end = Walk!LabelEnd(r) /\ IsEnd(end)
    <2> HIDE DEF IsEnd, dates
    <2> QED
      BY Zenon, <1>8, <1>9
  <1>11. Walk!Position(end, dates) = Horizon - 1
    <2>1. Walk!Position(end, dates) + 1 = Horizon
      BY <1>5, <1>10
    <2>2. Walk!Position(end, dates) \in Nat
      BY <1>2, PositionIsBelowSize
    <2> QED
      BY <1>4, <2>1, <2>2
  <1> QED
    BY <1>2, <1>10, <1>11

\* A label read in training ends before what is forecast, if its asset has a row on every
\* date in between: there are at least as many as the label takes.
LEMMA LabelEndsBefore ==
    ASSUME prices \in SUBSET AllRows, frame = {r \in prices : Walk!Labelled(r)}, NEW k \in Folds,
           NEW r \in Walk!TrainRows(k), NEW q \in Walk!TestRows(k), Walk!UnbrokenBefore(r, q[2])
    PROVE  Walk!LabelEnd(r) < q[2]
  <1> DEFINE dates == Walk!DatesOf(frame)
             ahead == LaterDates(r)
             next == r[2] + 1
             last == q[2]
             end == Walk!LabelEnd(r)
  <1>1. frame \in SUBSET AllRows
    OBVIOUS
  <1>2. /\ r \in frame /\ q \in frame /\ r[2] < last
        /\ Walk!Position(last, dates) - Walk!Position(r[2], dates) > Embargo
    BY <1>1, TrainIsBefore
  <1>3. dates \in SUBSET Nat /\ IsFiniteSet(dates) /\ \A x \in frame : x[2] \in dates /\ x[2] \in Nat
    BY <1>1, DatesAreFinite
  <1>4. /\ ahead \in SUBSET Nat /\ IsFiniteSet(ahead) /\ end \in ahead
        /\ Walk!Position(end, ahead) = Horizon - 1
    BY <1>2, LabelEndsAtHorizon
  <1>5. r[2] \in Nat /\ last \in Nat /\ next \in Nat /\ next <= last /\ r[2] <= next
    BY <1>2, <1>3
  <1>6. From(dates, next, last) \in SUBSET From(ahead, next, last)
    <2>1. ASSUME NEW d \in From(dates, next, last) PROVE d \in ahead
      <3>1. d \in dates /\ d > r[2] /\ d < last
        BY <1>3, <1>5 DEF From
      <3>2. <<r[1], d>> \in prices
        BY <3>1 DEF Walk!UnbrokenBefore
      <3>3. <<r[1], d>> \in Walk!Later(r)
        BY <3>1, <3>2 DEF Walk!Later, Walk!RowsOf
      <3> QED
        BY <3>3 DEF LaterDates, Walk!DatesOf
    <2> QED
      BY <2>1 DEF From
  <1> HIDE DEF dates, ahead, next, last, end
  <1>7. /\ Walk!Position(r[2], dates) \in Nat /\ Walk!Position(next, dates) \in Nat
        /\ Walk!Position(next, dates) = Walk!Position(r[2], dates) + Cardinality(From(dates, r[2], next))
    BY <1>3, <1>5, PositionsApart
  <1>8. Cardinality(From(dates, r[2], next)) = 1
    <2>1. \A d \in dates : r[2] <= d /\ d < next <=> d = r[2]
      BY <1>3, <1>5 DEF next
    <2>2. From(dates, r[2], next) = {r[2]}
      BY <1>2, <1>3, <2>1 DEF From
    <2> QED
      BY <2>2, FS_Singleton
  <1>9. /\ Walk!Position(last, dates) = Walk!Position(next, dates) + Cardinality(From(dates, next, last))
        /\ Cardinality(From(dates, next, last)) \in Nat
    BY <1>3, <1>5, PositionsApart
  <1>10. /\ Walk!Position(last, ahead) = Walk!Position(next, ahead) + Cardinality(From(ahead, next, last))
         /\ Walk!Position(next, ahead) \in Nat /\ IsFiniteSet(From(ahead, next, last))
         /\ Cardinality(From(ahead, next, last)) \in Nat
    BY <1>4, <1>5, PositionsApart
  <1>11. Cardinality(From(dates, next, last)) <= Cardinality(From(ahead, next, last))
    BY <1>6, <1>10, FS_Subset
  <1>12. Embargo \in Nat /\ Horizon \in Nat /\ Embargo >= Horizon
    BY WalkForwardAssumption, WindowsAssumption
  <1>13. Cardinality(From(dates, next, last)) >= Embargo
    BY <1>2, <1>7, <1>8, <1>9, <1>12
  <1>14. Walk!Position(end, ahead) < Walk!Position(last, ahead)
    BY <1>4, <1>10, <1>11, <1>9, <1>12, <1>13
  <1>15. end < last
    BY <1>4, <1>5, <1>14, EarlierPosition
  <1> QED
    BY <1>15 DEF end, last

-----------------------------------------------------------------------------
\* The walk-forward evaluation (WalkForward).

WalkTyped ==
    /\ prices \in SUBSET AllRows /\ frame = {r \in prices : Walk!Labelled(r)}
    /\ kind \in {"plain", "ensemble", "temporal"} /\ fold \in 0..NSplits
    /\ positions \in [1..LastBar -> 0..LastBar]
    /\ stage \in {"validating", "folding", "trained", "held", "refused"}

\* Each trained fold is an emitted one that is behind, in order, and there is one when
\* positions are taken.
BlocksHold ==
    /\ blocks \in Seq({Block(k) : k \in Folds})
    /\ \A i \in DOMAIN blocks : \E k \in Folds : k < fold /\ Walk!Emitted(k) /\ blocks[i] = Block(k)
    /\ \A i, j \in DOMAIN blocks : i < j =>
          \E k, l \in Folds : k < l /\ blocks[i] = Block(k) /\ blocks[j] = Block(l)
    /\ stage \in {"trained", "held"} => blocks # <<>>

\* What is held waited.
HeldWait ==
    stage = "held" => \A d \in 1..LastBar : positions[d] # 0 =>
        Walk!Position(d, Walk!ReturnDates) - Walk!Position(positions[d], Walk!ReturnDates) >= ExecutionLag

WalkInv == WalkTyped /\ BlocksHold /\ HeldWait

LEMMA WalkInit == Walk!Init => WalkInv
  <1> SUFFICES ASSUME Walk!Init PROVE WalkInv
    OBVIOUS
  <1>1. PICK rows, s, k : /\ rows \in SUBSET AllRows /\ k \in Families /\ Walk!Start(rows, s, k)
    BY DEF Walk!Init, Walk!AllRows, AllRows
  <1>2. kind \in {"plain", "ensemble", "temporal"} /\ 0 \in 0..NSplits /\ 0 \in 0..LastBar
    BY <1>1, WalkForwardAssumption DEF Walk!Start
  <1>3. positions \in [1..LastBar -> 0..LastBar]
    BY <1>1, <1>2 DEF Walk!Start
  <1>4. WalkTyped
    BY <1>1, <1>2, <1>3 DEF Walk!Start, WalkTyped
  <1>5. blocks = <<>> /\ stage = "validating"
    BY <1>1 DEF Walk!Start
  <1> QED
    BY <1>4, <1>5 DEF WalkInv, BlocksHold, HeldWait

LEMMA FoldsStay ==
    ASSUME UNCHANGED <<frame, scheme, kind>>
    PROVE  \A k : Block(k)' = Block(k) /\ Walk!Emitted(k)' = Walk!Emitted(k)
  <1>1. \A k : /\ Walk!TestStart(k)' = Walk!TestStart(k) /\ Walk!TrainEnd(k)' = Walk!TrainEnd(k)
               /\ Walk!TrainStart(k)' = Walk!TrainStart(k)
    BY DEF Walk!TestStart, Walk!TrainEnd, Walk!TrainStart
  <1>2. \A k : Walk!TrainRows(k)' = Walk!TrainRows(k) /\ Walk!TestRows(k)' = Walk!TestRows(k)
    BY <1>1 DEF Walk!TrainRows, Walk!TestRows
  <1>3. \A R : Walk!Reads(R)' = Walk!Reads(R)
    BY DEF Walk!Reads
  <1> QED
    BY <1>1, <1>2, <1>3 DEF Block, Walk!Emitted, Walk!Reads

LEMMA BlocksStay ==
    ASSUME BlocksHold, UNCHANGED <<frame, scheme, kind, blocks>>, fold \in Int, fold' \in Int, fold <= fold',
           stage' \in {"trained", "held"} => blocks # <<>>
    PROVE  BlocksHold'
  <1>1. \A k : Block(k)' = Block(k) /\ Walk!Emitted(k)' = Walk!Emitted(k)
    BY FoldsStay
  <1>2. {Block(k)' : k \in Folds} = {Block(k) : k \in Folds}
    BY <1>1
  <1>3. blocks' \in Seq({Block(k)' : k \in Folds})
    BY <1>2 DEF BlocksHold
  <1>4. \A k \in Folds : k \in Int /\ (k < fold => k < fold')
    BY WalkForwardAssumption DEF Folds
  <1> QED
    BY <1>1, <1>3, <1>4, SMTT(30) DEF BlocksHold, Folds

LEMMA TrainFoldKeeps == ASSUME WalkInv, Walk!TrainFold PROVE WalkInv'
  <1>1. /\ stage = "folding" /\ fold < NSplits /\ Walk!Emitted(fold) /\ fold' = fold + 1
        /\ UNCHANGED <<prices, frame, scheme, kind, positions, stage>>
    BY DEF Walk!TrainFold
  <1>2. fold \in Folds /\ fold' \in 0..NSplits /\ fold \in Nat
    BY <1>1, WalkForwardAssumption DEF WalkInv, WalkTyped, Folds
  <1>3. WalkTyped'
    BY <1>1, <1>2 DEF WalkInv, WalkTyped, Walk!Labelled, Walk!Later, Walk!RowsOf
  <1>4. blocks' = Append(blocks, Block(fold))
    BY DEF Walk!TrainFold, Block
  <1> DEFINE All == {Block(k) : k \in Folds}
             n == Len(blocks)
  <1>5. blocks \in Seq(All) /\ Block(fold) \in All
    BY <1>2 DEF WalkInv, BlocksHold
  <1>6. /\ n \in Nat /\ DOMAIN blocks = 1..n /\ blocks' \in Seq(All) /\ DOMAIN blocks' = 1..(n + 1)
        /\ \A i \in 1..n : blocks'[i] = blocks[i]
        /\ blocks'[n + 1] = Block(fold) /\ blocks' # <<>>
    <2> HIDE DEF All
    <2>1. PICK log \in Seq(All) : log = blocks
      BY <1>5
    <2>2. PICK b \in All : b = Block(fold)
      BY <1>5
    <2>3. PICK more : more = Append(log, b)
      OBVIOUS
    <2>4. more \in Seq(All) /\ Len(more) = Len(log) + 1
      BY <2>3
    <2>5. DOMAIN more = 1..(Len(log) + 1) /\ DOMAIN log = 1..Len(log) /\ Len(log) \in Nat
      BY <2>4
    <2>6. (\A i \in 1..Len(log) : more[i] = log[i]) /\ more[Len(log) + 1] = b
      BY <2>3
    <2>7. more # <<>>
      BY <2>4, <2>5
    <2> QED
      BY <1>4, <2>1, <2>2, <2>3, <2>4, <2>5, <2>6, <2>7
  <1>7. \A k : Block(k)' = Block(k) /\ Walk!Emitted(k)' = Walk!Emitted(k)
    BY <1>1, FoldsStay
  <1> HIDE DEF n, All
  <1>8. ASSUME NEW i \in 1..(n + 1)
        PROVE  \E k \in Folds : k < fold' /\ Walk!Emitted(k) /\ blocks'[i] = Block(k)
    <2>1. CASE i = n + 1
      BY <1>1, <1>2, <1>6, <2>1
    <2>2. CASE i # n + 1
      <3>1. i \in 1..n
        BY <1>6, <2>2
      <3>2. PICK k \in Folds : k < fold /\ Walk!Emitted(k) /\ blocks[i] = Block(k)
        BY <1>6, <3>1 DEF WalkInv, BlocksHold
      <3>3. k < fold'
        BY <1>1, <1>2, <3>2, WalkForwardAssumption DEF Folds
      <3> QED
        BY <1>6, <3>1, <3>2, <3>3
    <2> QED
      BY <2>1, <2>2
  <1>9. ASSUME NEW i \in 1..(n + 1), NEW j \in 1..(n + 1), i < j
        PROVE  \E k, l \in Folds : k < l /\ blocks'[i] = Block(k) /\ blocks'[j] = Block(l)
    <2>1. i \in 1..n
      BY <1>6, <1>9
    <2>2. CASE j = n + 1
      <3>1. PICK k \in Folds : k < fold /\ blocks[i] = Block(k)
        BY <1>6, <2>1 DEF WalkInv, BlocksHold
      <3> QED
        BY <1>2, <1>6, <2>1, <2>2, <3>1
    <2>3. CASE j # n + 1
      <3>1. j \in 1..n
        BY <1>6, <2>3
      <3>2. \E k, l \in Folds : k < l /\ blocks[i] = Block(k) /\ blocks[j] = Block(l)
        BY <1>6, <1>9, <2>1, <3>1 DEF WalkInv, BlocksHold
      <3> QED
        BY <1>6, <2>1, <3>1, <3>2
    <2> QED
      BY <2>2, <2>3
  <1>10. blocks' \in Seq({Block(k)' : k \in Folds})
    <2>1. {Block(k)' : k \in Folds} = All
      BY <1>7 DEF All
    <2> QED
      BY <1>6, <2>1
  <1>11. BlocksHold'
    <2>1. \A i \in DOMAIN blocks' : \E k \in Folds : k < fold' /\ Walk!Emitted(k)' /\ blocks'[i] = Block(k)'
      BY <1>6, <1>7, <1>8
    <2>2. \A i, j \in DOMAIN blocks' : i < j =>
              \E k, l \in Folds : k < l /\ blocks'[i] = Block(k)' /\ blocks'[j] = Block(l)'
      BY <1>6, <1>7, <1>9
    <2> QED
      BY <1>6, <1>10, <2>1, <2>2 DEF BlocksHold, Folds
  <1> QED
    BY <1>1, <1>3, <1>11 DEF WalkInv, HeldWait

LEMMA WalkOnKeeps ==
    ASSUME WalkInv, Walk!Begin \/ Walk!SkipFold \/ Walk!OneClass \/ Walk!EndFolds
    PROVE  WalkInv'
  <1>1. UNCHANGED <<prices, frame, scheme, kind, blocks, positions>>
    BY DEF Walk!Begin, Walk!SkipFold, Walk!OneClass, Walk!EndFolds
  <1>2. fold \in Int /\ fold' \in 0..NSplits /\ fold' \in Int /\ fold <= fold'
    BY WalkForwardAssumption DEF WalkInv, WalkTyped, Walk!Begin, Walk!SkipFold, Walk!OneClass, Walk!EndFolds
  <1>3. /\ stage' \in {"folding", "trained", "refused"} /\ (stage' = "trained" => blocks # <<>>)
    BY DEF WalkInv, WalkTyped, Walk!Begin, Walk!SkipFold, Walk!OneClass, Walk!EndFolds
  <1>4. BlocksHold'
    BY <1>1, <1>2, <1>3, BlocksStay DEF WalkInv
  <1>5. WalkTyped'
    BY <1>1, <1>2, <1>3 DEF WalkInv, WalkTyped, Walk!Labelled, Walk!Later, Walk!RowsOf
  <1> QED
    BY <1>3, <1>4, <1>5 DEF WalkInv, HeldWait

\* The last and the first of a set of dates.
LEMMA LastDate ==
    ASSUME NEW T \in SUBSET (1..LastBar), T # {}
    PROVE  Walk!Max(T) \in T /\ \A y \in T : y <= Walk!Max(T)
  <1>1. LastBar \in Nat /\ T \in SUBSET (0..LastBar)
    BY WalkForwardAssumption
  <1>2. \E x \in T : \A y \in T : x >= y
    BY <1>1, Greatest
  <1>3. Walk!Max(T) \in T /\ \A y \in T : Walk!Max(T) >= y
    BY <1>2 DEF Walk!Max
  <1> QED
    BY <1>1, <1>3

LEMMA FirstDate ==
    ASSUME NEW T \in SUBSET (1..LastBar), T # {}
    PROVE  Walk!Min(T) \in T /\ \A y \in T : Walk!Min(T) <= y
  <1>1. T \in SUBSET Nat
    BY WalkForwardAssumption
  <1>2. \E x \in T : \A y \in T : x <= y
    BY <1>1, LeastNatural
  <1> QED
    BY <1>2 DEF Walk!Min

\* What was forecast has a date, and is of the frame.
LEMMA ForecastsAreRows ==
    ASSUME WalkTyped, BlocksHold, blocks # <<>>
    PROVE  /\ Walk!Forecasts \in SUBSET AllRows
           /\ Walk!DatesOf(Walk!Forecasts) \in SUBSET (1..LastBar) /\ Walk!DatesOf(Walk!Forecasts) # {}
  <1>1. frame \in SUBSET AllRows
    BY DEF WalkTyped
  <1>2. ASSUME NEW i \in DOMAIN blocks
        PROVE  blocks[i].test \in SUBSET AllRows /\ blocks[i].test # {}
    <2>1. PICK k \in Folds : Walk!Emitted(k) /\ blocks[i] = Block(k)
      BY DEF BlocksHold
    <2>2. blocks[i].test = Walk!TestRows(k)
      BY <2>1 DEF Block
    <2> QED
      BY <1>1, <2>1, <2>2, FoldRows DEF Walk!Emitted
  <1>3. Walk!Forecasts \in SUBSET AllRows
    BY <1>2 DEF Walk!Forecasts
  <1>4. Walk!Forecasts # {}
    <2>1. \E i : i \in DOMAIN blocks
      <3>1. PICK log \in Seq({Block(k) : k \in Folds}) : log = blocks
        BY DEF BlocksHold
      <3>2. log # <<>> => 1 \in DOMAIN log
        OBVIOUS
      <3> QED
        BY <3>1, <3>2
    <2> QED
      BY <1>2, <2>1 DEF Walk!Forecasts
  <1>5. Walk!DatesOf(Walk!Forecasts) # {}
    BY <1>4 DEF Walk!DatesOf
  <1> QED
    BY <1>3, <1>5, DatesAreFinite

\* A target on the calendar was decided as many return dates before as the lag, on scores
\* observed no later.
LEMMA TargetsWait ==
    ASSUME WalkTyped, BlocksHold, blocks # <<>>, NEW d \in Walk!Calendar,
           Walk!Scored(Walk!Decided(d)) # 0
    PROVE  Walk!Position(d, Walk!ReturnDates) - Walk!Position(Walk!Scored(Walk!Decided(d)), Walk!ReturnDates)
              >= ExecutionLag
  <1> DEFINE cal == Walk!Calendar
             all == Walk!ReturnDates
             scores == Walk!DatesOf(Walk!Forecasts)
             c == Walk!Decided(d)
             s == Walk!Scored(c)
             earlier == {x \in cal : Walk!Position(x, cal) = Walk!Position(d, cal) - ExecutionLag}
  <1>1. all \in SUBSET (1..LastBar) /\ all \in SUBSET Nat /\ IsFiniteSet(all)
    BY DatesAreFinite DEF WalkTyped, Walk!ReturnDates
  <1>2. /\ scores \in SUBSET (1..LastBar) /\ scores # {}
        /\ Walk!Min(scores) \in scores
    BY ForecastsAreRows, FirstDate
  <1>3. cal \in SUBSET all /\ \A x \in cal : Walk!Min(scores) <= x
    BY DEF Walk!Calendar
  <1>4. c # 0
    BY DEF Walk!Scored
  <1>5. c \in earlier
    <2>1. c = IF earlier = {} THEN 0 ELSE CHOOSE x \in earlier : TRUE
      BY Zenon DEF Walk!Decided
    <2> HIDE DEF earlier
    <2> QED
      BY <1>4, <2>1
  <1>6. s = Walk!Max({y \in scores : y <= c})
    BY <1>4 DEF Walk!Scored
  <1> HIDE DEF c, s, cal, all, scores
  <1>7. c \in cal /\ Walk!Position(c, cal) = Walk!Position(d, cal) - ExecutionLag
    BY <1>5
  <1>8. d \in Nat /\ c \in Nat /\ d \in cal /\ cal \in SUBSET Nat /\ IsFiniteSet(cal)
    BY <1>1, <1>3, <1>7, FS_Subset DEF cal
  <1>9. s \in Nat /\ s <= c
    <2>1. {y \in scores : y <= c} \in SUBSET (1..LastBar) /\ Walk!Min(scores) \in {y \in scores : y <= c}
      BY <1>2, <1>3, <1>7
    <2>2. s \in {y \in scores : y <= c}
      BY <1>6, <2>1, LastDate
    <2> QED
      BY <1>2, <2>2
  <1>10. ExecutionLag \in Nat /\ ExecutionLag > 0
    BY WalkForwardAssumption
  <1>11. Walk!Position(c, cal) \in Nat /\ Walk!Position(d, cal) \in Nat
    BY <1>7, <1>8, PositionIsBelowSize
  <1>12. c < d
    <2>1. Walk!Position(c, cal) < Walk!Position(d, cal)
      BY <1>7, <1>10, <1>11
    <2> QED
      BY <1>8, <2>1, EarlierPosition
  <1>13. Walk!Position(d, cal) - Walk!Position(c, cal) <= Walk!Position(d, all) - Walk!Position(c, all)
    <2>1. c <= d
      BY <1>8, <1>12
    <2> QED
      BY <1>1, <1>3, <1>8, <2>1, PartsAreCloser
  <1>14. /\ Walk!Position(s, all) <= Walk!Position(c, all)
         /\ Walk!Position(s, all) \in Nat /\ Walk!Position(c, all) \in Nat
    BY <1>1, <1>8, <1>9, PositionIsMonotone, PositionsApart
  <1>15. Walk!Position(d, all) \in Nat
    BY <1>1, <1>8, PositionsApart
  <1>16. Walk!Position(d, all) - Walk!Position(s, all) >= ExecutionLag
    BY <1>7, <1>10, <1>11, <1>13, <1>14, <1>15
  <1> QED
    BY <1>16 DEF all, s, c

LEMMA BacktestKeeps == ASSUME WalkInv, Walk!Backtest PROVE WalkInv'
  <1>1. stage = "trained" /\ UNCHANGED <<prices, frame, scheme, kind, fold, blocks>> /\ blocks # <<>>
    BY DEF Walk!Backtest, WalkInv, BlocksHold
  <1>2. stage' \in {"refused", "held"}
    BY DEF Walk!Backtest
  <1>3. BlocksHold'
    <2>1. fold \in Int /\ fold' \in Int /\ fold <= fold'
      BY <1>1, WalkForwardAssumption DEF WalkInv, WalkTyped
    <2> QED
      BY <1>1, <2>1, BlocksStay DEF WalkInv
  <1>4. Walk!ReturnDates' = Walk!ReturnDates
    BY <1>1 DEF Walk!ReturnDates
  <1>5. CASE stage' = "refused"
    <2>1. positions' \in [1..LastBar -> 0..LastBar]
      BY <1>5 DEF Walk!Backtest, WalkInv, WalkTyped
    <2>2. WalkTyped'
      BY <1>1, <1>2, <2>1 DEF WalkInv, WalkTyped, Walk!Labelled, Walk!Later, Walk!RowsOf
    <2> QED
      BY <1>3, <1>5, <2>2 DEF WalkInv, HeldWait
  <1>6. CASE stage' = "held"
    <2> DEFINE target == [d \in Walk!Calendar |-> Walk!Scored(Walk!Decided(d))]
    <2>1. PICK bought \in Assets :
              positions' = [d \in 1..LastBar |->
                  IF d \in {x \in Walk!Calendar : target[x] # 0 /\ <<bought, target[x]>> \in Walk!Forecasts}
                  THEN target[d] ELSE 0]
      BY <1>6 DEF Walk!Backtest
    <2>2. Walk!DatesOf(Walk!Forecasts) \in SUBSET (1..LastBar)
      BY <1>1, ForecastsAreRows DEF WalkInv
    <2>3. ASSUME NEW d \in 1..LastBar
          PROVE  /\ positions'[d] \in 0..LastBar
                 /\ positions'[d] # 0 =>
                        d \in Walk!Calendar /\ positions'[d] = Walk!Scored(Walk!Decided(d))
      <3>1. CASE d \in Walk!Calendar /\ target[d] # 0 /\ <<bought, target[d]>> \in Walk!Forecasts
        <4>1. positions'[d] = target[d]
          BY <2>1, <3>1
        <4>2. <<bought, target[d]>>[2] \in Walk!DatesOf(Walk!Forecasts)
          BY <3>1 DEF Walk!DatesOf
        <4>3. target[d] \in 1..LastBar
          BY <2>2, <4>2
        <4> QED
          BY <3>1, <4>1, <4>3
      <3>2. CASE ~(d \in Walk!Calendar /\ target[d] # 0 /\ <<bought, target[d]>> \in Walk!Forecasts)
        <4>1. positions'[d] = 0
          BY <2>1, <3>2
        <4> QED
          BY <4>1, WalkForwardAssumption
      <3> QED
        BY <3>1, <3>2
    <2>4. positions' \in [1..LastBar -> 0..LastBar]
      <3>1. positions' = [d \in 1..LastBar |-> positions'[d]]
        BY <2>1
      <3> QED
        BY <2>3, <3>1
    <2>5. WalkTyped'
      BY <1>1, <1>2, <2>4 DEF WalkInv, WalkTyped, Walk!Labelled, Walk!Later, Walk!RowsOf
    <2>6. ASSUME NEW d \in 1..LastBar, positions'[d] # 0
          PROVE  Walk!Position(d, Walk!ReturnDates) - Walk!Position(positions'[d], Walk!ReturnDates) >= ExecutionLag
      <3>1. d \in Walk!Calendar /\ positions'[d] = Walk!Scored(Walk!Decided(d))
        BY <2>3, <2>6
      <3>2. Walk!Position(d, Walk!ReturnDates) - Walk!Position(Walk!Scored(Walk!Decided(d)), Walk!ReturnDates)
                >= ExecutionLag
        BY <1>1, <2>6, <3>1, TargetsWait DEF WalkInv
      <3> QED
        BY <3>1, <3>2
    <2>7. HeldWait'
      BY <1>4, <2>6 DEF HeldWait
    <2> QED
      BY <1>3, <2>5, <2>7 DEF WalkInv
  <1> QED
    BY <1>2, <1>5, <1>6

LEMMA WalkNext == WalkInv /\ Walk!Next => WalkInv'
  BY TrainFoldKeeps, WalkOnKeeps, BacktestKeeps DEF Walk!Next

LEMMA WalkStays == WalkInv /\ UNCHANGED walkVars => WalkInv'
  <1> SUFFICES ASSUME WalkInv, UNCHANGED walkVars PROVE WalkInv'
    OBVIOUS
  <1>1. UNCHANGED <<prices, frame, scheme, kind, fold, blocks, positions, stage>>
    BY DEF walkVars
  <1>2. WalkTyped'
    BY <1>1 DEF WalkInv, WalkTyped, Walk!Labelled, Walk!Later, Walk!RowsOf
  <1>3. BlocksHold'
    <2>1. fold \in Int /\ fold' \in Int /\ fold <= fold'
      BY <1>1, WalkForwardAssumption DEF WalkInv, WalkTyped
    <2>2. stage' \in {"trained", "held"} => blocks # <<>>
      BY <1>1 DEF WalkInv, BlocksHold
    <2> QED
      BY <1>1, <2>1, <2>2, BlocksStay DEF WalkInv
  <1>4. HeldWait'
    BY <1>1 DEF WalkInv, HeldWait, Walk!ReturnDates
  <1> QED
    BY <1>2, <1>3, <1>4 DEF WalkInv

LEMMA BlockOfFold ==
    ASSUME BlocksHold, NEW i \in DOMAIN blocks
    PROVE  \E k \in Folds : /\ Walk!Emitted(k) /\ blocks[i].train = Walk!TrainRows(k)
                           /\ blocks[i].test = Walk!TestRows(k)
                           /\ blocks[i].reads = Walk!Reads(Walk!TrainRows(k))
  BY DEF BlocksHold, Block

LEMMA FoldsApart == WalkInv => Walk!FoldsAreApart
  <1> SUFFICES ASSUME WalkInv PROVE Walk!FoldsAreApart
    OBVIOUS
  <1>0. frame \in SUBSET AllRows /\ BlocksHold
    BY DEF WalkInv, WalkTyped
  <1>1. ASSUME NEW i \in DOMAIN blocks, NEW j \in DOMAIN blocks, i < j
        PROVE  \A d \in Walk!DatesOf(blocks[i].test), e \in Walk!DatesOf(blocks[j].test) : d < e
    <2>1. PICK k \in Folds, l \in Folds : k < l /\ blocks[i] = Block(k) /\ blocks[j] = Block(l)
      BY <1>0, <1>1 DEF BlocksHold
    <2>2. blocks[i].test = Walk!TestRows(k) /\ blocks[j].test = Walk!TestRows(l)
      BY <2>1 DEF Block
    <2>3. \A d \in Walk!DatesOf(Walk!TestRows(k)), e \in Walk!DatesOf(Walk!TestRows(l)) : d < e
      BY <1>0, <2>1, FoldsFollow
    <2> QED
      BY <2>2, <2>3
  <1>2. ASSUME NEW i \in DOMAIN blocks,
               NEW d \in Walk!DatesOf(blocks[i].train), NEW e \in Walk!DatesOf(blocks[i].test)
        PROVE  Walk!Position(e, Walk!DatesOf(frame)) - Walk!Position(d, Walk!DatesOf(frame)) > Embargo
    <2>1. PICK k \in Folds : blocks[i].train = Walk!TrainRows(k) /\ blocks[i].test = Walk!TestRows(k)
      BY <1>0, BlockOfFold
    <2>2. PICK r \in Walk!TrainRows(k) : d = r[2]
      BY <2>1 DEF Walk!DatesOf
    <2>3. PICK q \in Walk!TestRows(k) : e = q[2]
      BY <2>1 DEF Walk!DatesOf
    <2> QED
      BY <1>0, <2>2, <2>3, TrainIsBefore
  <1> QED
    BY <1>1, <1>2 DEF Walk!FoldsAreApart

LEMMA SelectionChronological == WalkInv => Walk!SelectionIsChronological
  <1> SUFFICES ASSUME WalkInv PROVE Walk!SelectionIsChronological
    OBVIOUS
  <1>0. frame \in SUBSET AllRows /\ BlocksHold
    BY DEF WalkInv, WalkTyped
  <1>1. ASSUME NEW i \in DOMAIN blocks
        PROVE  LET reads == blocks[i].reads IN
               /\ kind = "ensemble" =>
                     /\ Walk!Precedes(reads.fit, reads.calibrate)
                     /\ Walk!Span(reads.calibrate \cup reads.weigh) > 1 => Walk!Precedes(reads.calibrate, reads.weigh)
               /\ kind = "temporal" => Walk!Precedes(reads.fit \cup reads.scale, reads.stop)
    <2>1. PICK k \in Folds : blocks[i].reads = Walk!Reads(Walk!TrainRows(k))
      BY <1>0, BlockOfFold
    <2>2. PICK R : R = Walk!TrainRows(k)
      OBVIOUS
    <2>3. R \in SUBSET AllRows
      BY <1>0, <2>2, FoldRows
    <2>4. PICK reads : reads = blocks[i].reads
      OBVIOUS
    <2>5. kind = "ensemble" => reads = [fit |-> R \ Walk!Holdout(R), calibrate |-> Walk!Calibration(R),
                                        weigh |-> Walk!Weighting(R)]
      BY <2>1, <2>2, <2>4 DEF Walk!Reads
    <2>6. kind = "temporal" => reads = [scale |-> Walk!Scaling(R), fit |-> R \ Walk!Validation(R),
                                        stop |-> Walk!Validation(R)]
      BY <2>1, <2>2, <2>4 DEF Walk!Reads
    <2>7. CASE kind = "ensemble"
      <3>1. /\ reads.fit = R \ Walk!Holdout(R) /\ reads.calibrate = Walk!Calibration(R)
            /\ reads.weigh = Walk!Weighting(R)
        BY <2>5, <2>7
      <3> QED
        BY <2>3, <2>4, <2>7, <3>1, EnsembleIsChronological
    <2>8. CASE kind = "temporal"
      <3>1. reads.fit = R \ Walk!Validation(R) /\ reads.scale = Walk!Scaling(R) /\ reads.stop = Walk!Validation(R)
        BY <2>6, <2>8
      <3> QED
        BY <2>3, <2>4, <2>8, <3>1, StoppingIsChronological
    <2> QED
      BY <2>7, <2>8
  <1> QED
    BY <1>1 DEF Walk!SelectionIsChronological

LEMMA LabelsEnd == WalkInv => Walk!LabelsEndBeforeTheTest
  <1> SUFFICES ASSUME WalkInv, NEW i \in DOMAIN blocks, NEW r \in blocks[i].train,
                      Walk!UnbrokenBefore(r, Walk!Min(Walk!DatesOf(blocks[i].test)))
               PROVE  Walk!LabelEnd(r) < Walk!Min(Walk!DatesOf(blocks[i].test))
    BY DEF Walk!LabelsEndBeforeTheTest
  <1>1. prices \in SUBSET AllRows /\ frame = {q \in prices : Walk!Labelled(q)} /\ frame \in SUBSET AllRows /\ BlocksHold
    BY DEF WalkInv, WalkTyped
  <1>2. PICK k \in Folds : /\ Walk!Emitted(k) /\ blocks[i].train = Walk!TrainRows(k)
                           /\ blocks[i].test = Walk!TestRows(k)
    BY <1>1, BlockOfFold
  <1>3. Walk!TestRows(k) \in SUBSET AllRows /\ Walk!TestRows(k) # {}
    BY <1>1, <1>2, FoldRows DEF Walk!Emitted
  <1>4. Walk!DatesOf(Walk!TestRows(k)) \in SUBSET (1..LastBar) /\ Walk!DatesOf(Walk!TestRows(k)) # {}
    BY <1>3, DatesAreFinite DEF Walk!DatesOf
  <1>5. Walk!Min(Walk!DatesOf(Walk!TestRows(k))) \in Walk!DatesOf(Walk!TestRows(k))
    BY <1>4, FirstDate
  <1>6. PICK q \in Walk!TestRows(k) : q[2] = Walk!Min(Walk!DatesOf(Walk!TestRows(k)))
    BY <1>5 DEF Walk!DatesOf
  <1> QED
    BY <1>1, <1>2, <1>6, LabelEndsBefore

LEMMA WalkPromise == WalkInv => Walk!TypeOK /\ Walk!ForecastsAreOutOfSample
  <1> SUFFICES ASSUME WalkInv PROVE Walk!TypeOK /\ Walk!ForecastsAreOutOfSample
    OBVIOUS
  <1>1. Walk!TypeOK
    BY DEF WalkInv, WalkTyped, Walk!TypeOK, AllRows
  <1>2. ASSUME NEW i \in DOMAIN blocks, NEW d \in Walk!DatesOf(blocks[i].test)
        PROVE  d \notin Walk!DatesOf(blocks[i].train)
    <2>1. PICK k \in Folds : blocks[i].train = Walk!TrainRows(k) /\ blocks[i].test = Walk!TestRows(k)
      BY BlockOfFold DEF WalkInv
    <2>2. PICK q \in Walk!TestRows(k) : d = q[2]
      BY <2>1 DEF Walk!DatesOf
    <2>3. ASSUME NEW r \in Walk!TrainRows(k) PROVE r[2] # d
      <3>1. frame \in SUBSET AllRows
        BY DEF WalkInv, WalkTyped
      <3>2. r \in frame /\ q \in frame /\ r[2] < q[2]
        BY <3>1, TrainIsBefore
      <3>3. r[2] \in Nat /\ q[2] \in Nat
        BY <3>1, <3>2, DatesAreFinite
      <3> QED
        BY <2>2, <3>2, <3>3
    <2> QED
      BY <2>1, <2>3 DEF Walk!DatesOf
  <1>3. Walk!PositionsWait
    BY <1>2 DEF WalkInv, HeldWait, Walk!PositionsWait
  <1> QED
    BY <1>1, <1>3, FoldsApart, SelectionChronological, LabelsEnd DEF Walk!ForecastsAreOutOfSample

-----------------------------------------------------------------------------
\* Rows and series of one asset (FeatureWindows).

LEMMA SameWindowsCardinality == \A S : Windows!Cardinality(S) = Cardinality(S)
  BY DEF Windows!Cardinality, Cardinality, Windows!IsFiniteSet, IsFiniteSet

\* Rows of one asset: n dates, each later than the one before.
IsRows(rows, n) ==
    /\ n \in Nat /\ rows \in [1..n -> Nat \ {0}] /\ Len(rows) = n
    /\ \A i, j \in 1..n : i < j => rows[i] < rows[j]

LEMMA RowsAreInOrder ==
    ASSUME NEW from \in Nat \ {0}, NEW to \in Nat
    PROVE  LET S == (from..to) \ holes
               rows == Windows!RowsOf(from, to)
           IN  /\ IsRows(rows, Cardinality(S))
               /\ \A i \in 1..Cardinality(S) : rows[i] \in S
               /\ \A d \in S : \E i \in 1..Cardinality(S) : rows[i] = d
  <1> DEFINE S == (from..to) \ holes
             N == Cardinality(S)
             rows == Windows!RowsOf(from, to)
  <1>1. S \in SUBSET Nat /\ IsFiniteSet(S) /\ N \in Nat /\ \A d \in S : d \in Nat \ {0}
    <2>1. IsFiniteSet(from..to)
      BY FS_Interval
    <2>2. IsFiniteSet(S)
      BY <2>1, FS_Subset
    <2> QED
      BY <2>2, FS_CardinalityType
  <1> DEFINE Below(d) == Windows!Cardinality({e \in S : e < d})
  <1>2. rows = [i \in 1..N |-> CHOOSE d \in S : Below(d) = i - 1]
    <2>1. rows = [i \in 1..Windows!Cardinality(S) |-> CHOOSE d \in S : Below(d) = i - 1]
      BY DEF Windows!RowsOf, Windows!InOrder
    <2> QED
      BY <2>1, SameWindowsCardinality
  <1>0. ASSUME NEW d PROVE Below(d) = Walk!Position(d, S)
    BY SameWindowsCardinality, SameWalkCardinality DEF Walk!Position
  <1> HIDE DEF S, rows, Below
  <1>3. ASSUME NEW i \in 1..N PROVE rows[i] \in S /\ Walk!Position(rows[i], S) = i - 1
    <2>1. i - 1 \in 0..(N - 1)
      BY <1>1
    <2>2. \E d \in S : Walk!Position(d, S) = i - 1
      BY <1>1, <2>1, EveryPositionIsTaken
    <2>3. \E d \in S : Below(d) = i - 1
      BY <1>0, <2>2
    <2>4. rows[i] \in S /\ Below(rows[i]) = i - 1
      BY <1>2, <2>3
    <2> QED
      BY <1>0, <2>4
  <1>4. ASSUME NEW i \in 1..N, NEW j \in 1..N, i < j PROVE rows[i] < rows[j]
    <2>1. rows[i] \in S /\ rows[j] \in S /\ Walk!Position(rows[i], S) = i - 1 /\ Walk!Position(rows[j], S) = j - 1
      BY <1>3
    <2>2. i - 1 < j - 1
      <3> HIDE DEF N
      <3> QED
        BY <1>1, <1>4
    <2>3. rows[i] \in Nat /\ rows[j] \in Nat
      BY <1>1, <2>1
    <2>4. Walk!Position(rows[i], S) < Walk!Position(rows[j], S)
      BY <2>1, <2>2
    <2> QED
      BY <1>1, <2>3, <2>4, EarlierPosition
  <1>5. ASSUME NEW d \in S PROVE \E i \in 1..N : rows[i] = d
    <2> DEFINE i == Walk!Position(d, S) + 1
    <2>1. i \in 1..N /\ Walk!Position(d, S) \in Nat
      BY <1>1, PositionIsBelowSize
    <2>2. rows[i] \in S /\ Walk!Position(rows[i], S) = Walk!Position(d, S)
      BY <1>3, <2>1
    <2>3. ASSUME NEW x \in S, NEW y \in S, x < y PROVE Walk!Position(x, S) # Walk!Position(y, S)
      <3>1. x \in From(S, x, y) /\ x \in Nat /\ y \in Nat
        BY <1>1, <2>3 DEF From
      <3>2. /\ Walk!Position(x, S) \in Nat /\ IsFiniteSet(From(S, x, y)) /\ Cardinality(From(S, x, y)) \in Nat
            /\ Walk!Position(y, S) = Walk!Position(x, S) + Cardinality(From(S, x, y))
        BY <1>1, <2>3, <3>1, PositionsApart
      <3>3. Cardinality(From(S, x, y)) # 0
        BY <3>1, <3>2, FS_EmptySet
      <3> QED
        BY <3>2, <3>3
    <2>4. rows[i] = d
      <3>1. rows[i] \in Nat /\ d \in Nat
        BY <1>1, <2>2
      <3> HIDE DEF i
      <3> QED
        BY <2>2, <2>3, <3>1
    <2> QED
      BY <2>1, <2>4
  <1>6. rows \in [1..N -> Nat \ {0}] /\ Len(rows) = N
    <2>1. rows \in [1..N -> Nat \ {0}]
      BY <1>1, <1>2, <1>3
    <2> QED
      BY <1>1, <2>1
  <1>7. IsRows(rows, N)
    BY <1>1, <1>4, <1>6 DEF IsRows
  <1> QED
    BY <1>3, <1>5, <1>7 DEF S, rows

-----------------------------------------------------------------------------
\* No value is of a later date.

Past(rows, n) == {s \in [1..n -> SUBSET Nat] : \A i \in 1..n : \A d \in s[i] : d <= rows[i]}

LEMMA PastOperations ==
    ASSUME NEW rows, NEW n, IsRows(rows, n)
    PROVE  /\ Windows!Observed(rows) \in Past(rows, n) /\ Windows!Market(rows) \in Past(rows, n)
           /\ \A a, b \in Past(rows, n) : Windows!Both(a, b) \in Past(rows, n)
           /\ \A a \in Past(rows, n), k \in Nat : Windows!Shift(a, k) \in Past(rows, n)
           /\ \A a \in Past(rows, n), w \in Nat, least \in Nat : Windows!Rolling(a, w, least) \in Past(rows, n)
           /\ \A a \in Past(rows, n) : Windows!Filled(a) \in Past(rows, n)
           /\ \A a \in Past(rows, n), m \in Nat : Windows!Masked(a, m) \in Past(rows, n)
           /\ \A a \in Past(rows, n) : Len(a) = n
  <1> DEFINE P == Past(rows, n)
  <1>1. n \in Nat /\ rows \in [1..n -> Nat \ {0}] /\ Len(rows) = n
        /\ \A i, j \in 1..n : j <= i => rows[j] <= rows[i]
    BY DEF IsRows
  <1>2. \A a \in P : a \in [1..n -> SUBSET Nat] /\ DOMAIN a = 1..n /\ \A i \in 1..n : \A d \in a[i] : d \in Nat /\ d <= rows[i]
    BY DEF Past
  <1>3. Windows!Observed(rows) \in P
    BY <1>1 DEF Past, Windows!Observed, Windows!NaN
  <1>4. Windows!Market(rows) \in P
    <2>1. ASSUME NEW i \in 1..n PROVE LET v == IF rows[i] = 1 THEN {} ELSE {rows[i] - 1, rows[i]}
                                     IN v \in SUBSET Nat /\ \A d \in v : d <= rows[i]
      <3>1. rows[i] \in Nat \ {0}
        BY <1>1
      <3> QED
        BY <3>1
    <2> QED
      BY <1>1, <2>1 DEF Past, Windows!Market, Windows!NaN
  <1>5. ASSUME NEW a \in P, NEW b \in P PROVE Windows!Both(a, b) \in P
    BY <1>2 DEF Past, Windows!Both, Windows!NaN
  <1>6. ASSUME NEW a \in P, NEW k \in Nat PROVE Windows!Shift(a, k) \in P
    <2>1. Windows!Shift(a, k) = [i \in 1..n |-> IF i - k \in 1..n THEN a[i - k] ELSE {}]
      BY <1>2 DEF Windows!Shift, Windows!NaN
    <2>2. ASSUME NEW i \in 1..n, i - k \in 1..n PROVE a[i - k] \in SUBSET Nat /\ \A d \in a[i - k] : d <= rows[i]
      <3>1. rows[i - k] <= rows[i] /\ rows[i] \in Nat /\ rows[i - k] \in Nat
        BY <1>1, <2>2
      <3> QED
        BY <1>2, <2>2, <3>1
    <2> QED
      BY <2>1, <2>2 DEF Past
  <1>7. ASSUME NEW a \in P, NEW i \in 1..n, NEW J \in SUBSET (1..i)
        PROVE  UNION {a[j] : j \in J} \in SUBSET Nat /\ \A d \in UNION {a[j] : j \in J} : d <= rows[i]
    <2>1. ASSUME NEW j \in J PROVE a[j] \in SUBSET Nat /\ \A d \in a[j] : d <= rows[i]
      <3>1. j \in 1..n /\ rows[j] <= rows[i] /\ rows[i] \in Nat /\ rows[j] \in Nat
        BY <1>1
      <3> QED
        BY <1>2, <3>1
    <2> QED
      BY <2>1
  <1>8. ASSUME NEW a \in P, NEW w \in Nat, NEW least \in Nat PROVE Windows!Rolling(a, w, least) \in P
    <2> DEFINE Seen(i) == {j \in (i - w + 1)..i \cap 1..n : a[j] # {}}
    <2>1. Windows!Rolling(a, w, least)
              = [i \in 1..n |-> IF Cardinality(Seen(i)) >= least THEN UNION {a[j] : j \in Seen(i)} ELSE {}]
      BY <1>2, SameWindowsCardinality DEF Windows!Rolling, Windows!NaN
    <2>2. ASSUME NEW i \in 1..n PROVE Seen(i) \in SUBSET (1..i)
      OBVIOUS
    <2> HIDE DEF Seen
    <2>3. ASSUME NEW i \in 1..n
          PROVE  UNION {a[j] : j \in Seen(i)} \in SUBSET Nat /\ \A d \in UNION {a[j] : j \in Seen(i)} : d <= rows[i]
      BY <1>7, <2>2
    <2> QED
      BY <2>1, <2>3 DEF Past
  <1>9. ASSUME NEW a \in P PROVE Windows!Filled(a) \in P
    <2> DEFINE Seen(i) == {j \in 1..i : a[j] # {}}
               Latest(i) == CHOOSE j \in Seen(i) : \A k \in Seen(i) : k <= j
    <2>1. Windows!Filled(a) = [i \in 1..n |-> IF Seen(i) = {} THEN {} ELSE a[Latest(i)]]
      BY <1>2 DEF Windows!Filled, Windows!NaN
    <2>2. ASSUME NEW i \in 1..n, Seen(i) # {} PROVE Latest(i) \in 1..i
      <3>1. Seen(i) \in SUBSET (1..i) /\ IsFiniteSet(1..i)
        BY FS_Interval
      <3>2. \E j \in Seen(i) : \A k \in Seen(i) : k <= j
        <4>1. PICK x \in {i - j : j \in Seen(i)} : \A y \in {i - j : j \in Seen(i)} : x <= y
          <5>1. {i - j : j \in Seen(i)} \in SUBSET Nat /\ {i - j : j \in Seen(i)} # {}
            BY <2>2, <3>1
          <5> HIDE DEF Seen
          <5> QED
            BY <5>1, LeastNatural
        <4>2. PICK j \in Seen(i) : x = i - j
          BY <4>1
        <4>3. ASSUME NEW k \in Seen(i) PROVE k <= j
          <5>1. i - j <= i - k
            BY <4>1, <4>2
          <5> QED
            BY <3>1, <5>1
        <4> QED
          BY <4>3
      <3> HIDE DEF Seen
      <3>3. Latest(i) \in Seen(i)
        BY <3>2
      <3> QED
        BY <3>1, <3>3
    <2> HIDE DEF Seen, Latest
    <2>3. ASSUME NEW i \in 1..n, Seen(i) # {} PROVE a[Latest(i)] \in SUBSET Nat /\ \A d \in a[Latest(i)] : d <= rows[i]
      <3>1. Latest(i) \in 1..n /\ rows[Latest(i)] <= rows[i] /\ rows[i] \in Nat /\ rows[Latest(i)] \in Nat
        <4>1. Latest(i) \in 1..i
          BY <2>2, <2>3
        <4> QED
          BY <1>1, <4>1
      <3> QED
        BY <1>2, <3>1
    <2> QED
      BY <2>1, <2>3 DEF Past
  <1>10. ASSUME NEW a \in P, NEW m \in Nat PROVE Windows!Masked(a, m) \in P
    BY <1>2 DEF Past, Windows!Masked, Windows!NaN
  <1>11. ASSUME NEW a \in P PROVE Len(a) = n
    BY <1>1, <1>2
  <1> HIDE DEF P
  <1> QED
    BY <1>3, <1>4, <1>5, <1>6, <1>8, <1>9, <1>10, <1>11 DEF P

-----------------------------------------------------------------------------
\* Tables of columns.

LEMMA BesideIsOfBoth ==
    ASSUME NEW V, NEW f, NEW g, \A k \in DOMAIN f : f[k] \in V, \A k \in DOMAIN g : g[k] \in V
    PROVE  \A k \in DOMAIN Windows!Beside(f, g) : Windows!Beside(f, g)[k] \in V
  BY DEF Windows!Beside

LEMMA HalfWindow == \A w \in Nat : (IF w \div 2 > 2 THEN w \div 2 ELSE 2) \in Nat \ {0}
  OBVIOUS

\* What is built from values of the past is of the past.
LEMMA PastPrimitives ==
    ASSUME NEW rows, NEW n, IsRows(rows, n)
    PROVE  LET P == Past(rows, n) IN
           /\ \A a \in P, w \in Nat : Windows!FullRolling(a, w) \in P /\ Windows!PartRolling(a, w) \in P
           /\ \A a \in P, k \in Nat : Windows!Smoothed(a, k) \in P /\ Windows!Change(a, k) \in P /\ Windows!Ema(a, k) \in P
           /\ \A a \in P, w \in Nat, k \in Nat : Windows!Momentum(a, w, k) \in P
           /\ \A a, b \in P, w \in Nat : Windows!Pearson(a, b, w) \in P /\ Windows!RollingBeta(a, b, w) \in P
           /\ \A a \in P : Windows!FilledChange(a) \in P
  <1> DEFINE P == Past(rows, n)
  <1>1. n \in Nat
    BY DEF IsRows
  <1>2. /\ \A a, b \in P : Windows!Both(a, b) \in P
        /\ \A a \in P, k \in Nat : Windows!Shift(a, k) \in P
        /\ \A a \in P, w \in Nat, least \in Nat : Windows!Rolling(a, w, least) \in P
        /\ \A a \in P : Windows!Filled(a) \in P /\ Len(a) = n
    BY PastOperations
  <1> HIDE DEF P
  <1>3. \A a \in P, w \in Nat : Windows!FullRolling(a, w) \in P /\ Windows!PartRolling(a, w) \in P
    BY <1>2, HalfWindow DEF Windows!FullRolling, Windows!PartRolling
  <1>4. \A a \in P, k \in Nat : Windows!Smoothed(a, k) \in P
    BY <1>1, <1>2 DEF Windows!Smoothed
  <1>5. \A a \in P, k \in Nat : Windows!Change(a, k) \in P /\ Windows!Ema(a, k) \in P
    BY <1>2, <1>4, HalfWindow DEF Windows!Change, Windows!Ema
  <1>6. \A a \in P, w \in Nat, k \in Nat : Windows!Momentum(a, w, k) \in P
    BY <1>2 DEF Windows!Momentum
  <1>7. \A a, b \in P, w \in Nat : Windows!Pearson(a, b, w) \in P /\ Windows!RollingBeta(a, b, w) \in P
    BY <1>2, <1>3 DEF Windows!Pearson, Windows!RollingBeta
  <1>8. \A a \in P : Windows!FilledChange(a) \in P
    BY <1>2 DEF Windows!FilledChange
  <1> QED
    BY <1>3, <1>4, <1>5, <1>6, <1>7, <1>8 DEF P

LEMMA ContractsArePast ==
    ASSUME NEW rows, NEW n, IsRows(rows, n), rows = Windows!RowsOf(1, Last)
    PROVE  \A k \in DOMAIN Windows!ContractColumns : Windows!ContractColumns[k] \in Past(rows, n)
  <1> DEFINE P == Past(rows, n)
             s == Windows!Observed(rows)
             market == Windows!Market(rows)
  <1>1. s \in P /\ market \in P
    BY PastOperations
  <1>2. /\ \A a, b \in P : Windows!Both(a, b) \in P
        /\ \A a \in P, k \in Nat : Windows!Shift(a, k) \in P
        /\ \A a \in P, m \in Nat : Windows!Masked(a, m) \in P
    BY PastOperations
  <1>3. /\ \A a \in P, w \in Nat : Windows!FullRolling(a, w) \in P /\ Windows!PartRolling(a, w) \in P
        /\ \A a \in P, k \in Nat : Windows!Smoothed(a, k) \in P /\ Windows!Change(a, k) \in P /\ Windows!Ema(a, k) \in P
        /\ \A a \in P, w \in Nat, k \in Nat : Windows!Momentum(a, w, k) \in P
        /\ \A a, b \in P, w \in Nat : Windows!Pearson(a, b, w) \in P /\ Windows!RollingBeta(a, b, w) \in P
        /\ \A a \in P : Windows!FilledChange(a) \in P
    BY PastPrimitives
  <1>4. W \in Nat /\ Lag \in Nat /\ W + Lag \in Nat /\ W + 1 \in Nat /\ W + 2 \in Nat /\ 0 \in Nat /\ 1 \in Nat /\ 2 \in Nat
    BY WindowsAssumption
  <1> HIDE DEF P, s, market
  <1>5. \A k \in DOMAIN Windows!MomentumContracts(s) : Windows!MomentumContracts(s)[k] \in P
    <2> DEFINE c1 == Windows!Masked(Windows!Change(s, W), W)
               c2 == Windows!Masked(Windows!Change(s, 1), 1)
               c3 == Windows!Masked(Windows!Momentum(s, W, 0), W)
               c4 == Windows!Masked(Windows!Momentum(s, W, Lag), W)
    <2>1. c1 \in P /\ c2 \in P /\ c3 \in P /\ c4 \in P
      BY <1>1, <1>2, <1>3, <1>4
    <2>2. Windows!MomentumContracts(s) = [ret |-> c1, logret |-> c2, roc |-> c1, mom |-> c3, mom_skip |-> c4]
      BY DEF Windows!MomentumContracts
    <2> HIDE DEF c1, c2, c3, c4
    <2> QED
      BY <2>1, <2>2
  <1>6. \A k \in DOMAIN Windows!PriceContracts(s) : Windows!PriceContracts(s)[k] \in P
    <2> DEFINE c1 == Windows!Masked(Windows!MaRatio(s, W), W)
               c2 == Windows!Masked(Windows!Both(s, Windows!Ema(s, W)), W)
               c3 == Windows!Masked(Windows!ZScore(s, W), W)
               c4 == Windows!Masked(Windows!Change(s, W), W)
               c5 == Windows!Masked(Windows!VwapDeviation(s, W), W)
               c6 == Windows!RegressionResidual(s, W)
    <2>1. c1 \in P /\ c2 \in P /\ c3 \in P /\ c4 \in P /\ c5 \in P /\ c6 \in P
      BY <1>1, <1>2, <1>3, <1>4
         DEF Windows!MaRatio, Windows!ZScore, Windows!VwapDeviation, Windows!RegressionResidual
    <2>2. Windows!PriceContracts(s)
              = [ma_dist |-> c1, ema_dist |-> c2, zscore |-> c3, reversal |-> c4, vwap_dev |-> c5, resid |-> c6]
      BY DEF Windows!PriceContracts
    <2> HIDE DEF c1, c2, c3, c4, c5, c6
    <2> QED
      BY <2>1, <2>2
  <1>7. \A k \in DOMAIN Windows!CrossSectionalContracts(s) : Windows!CrossSectionalContracts(s)[k] \in P
    <2> DEFINE c1 == Windows!Masked(Windows!Momentum(s, W, 0), W)
    <2>1. c1 \in P
      BY <1>1, <1>2, <1>3, <1>4
    <2>2. Windows!CrossSectionalContracts(s) = [cs_rank_mom |-> c1, cs_z_mom |-> c1]
      BY DEF Windows!CrossSectionalContracts
    <2> HIDE DEF c1
    <2> QED
      BY <2>1, <2>2
  <1>8. \A k \in DOMAIN Windows!VolatilityContracts(s) : Windows!VolatilityContracts(s)[k] \in P
    <2> DEFINE c1 == Windows!Masked(Windows!FullRolling(s, W), W)
               c2 == Windows!Masked(Windows!Smoothed(Windows!Change(s, 1), W), W)
    <2>1. c1 \in P /\ c2 \in P
      BY <1>1, <1>2, <1>3, <1>4
    <2>2. Windows!VolatilityContracts(s)
              = [parkinson |-> c1, garman_klass |-> c1, rogers_satchell |-> c1, ewma_vol |-> c2]
      BY DEF Windows!VolatilityContracts
    <2> HIDE DEF c1, c2
    <2> QED
      BY <2>1, <2>2
  <1>9. \A k \in DOMAIN Windows!DistributionContracts(s) : Windows!DistributionContracts(s)[k] \in P
    BY <1>1, <1>2, <1>3, <1>4 DEF Windows!DistributionContracts
  <1>10. \A k \in DOMAIN Windows!DependenceContracts(s) : Windows!DependenceContracts(s)[k] \in P
    <2> DEFINE ret == Windows!Change(s, 1)
               c1 == Windows!Masked(Windows!Autocorrelation(ret, W, Lag), W + Lag)
               c2 == Windows!Masked(Windows!PartialAutocorrelation(ret, W), W + 2)
               c3 == Windows!Masked(Windows!FullRolling(s, W), W)
               c4 == Windows!Masked(Windows!FullRolling(ret, W), W)
    <2>1. c1 \in P /\ c2 \in P /\ c3 \in P /\ c4 \in P
      <3>1. ret \in P
        BY <1>1, <1>3, <1>4
      <3> QED
        BY <1>1, <1>2, <1>3, <1>4, <3>1 DEF Windows!Autocorrelation, Windows!PartialAutocorrelation
    <2>2. Windows!DependenceContracts(s) = [autocorr |-> c1, pacf |-> c2, hurst |-> c3, var_ratio |-> c4]
      BY DEF Windows!DependenceContracts
    <2> HIDE DEF c1, c2, c3, c4
    <2> QED
      BY <2>1, <2>2
  <1>11. \A k \in DOMAIN Windows!MarketContracts(s, market) : Windows!MarketContracts(s, market)[k] \in P
    <2> DEFINE ret == Windows!Change(s, 1)
               c1 == Windows!Masked(Windows!RollingBeta(ret, market, W), W + 1)
               c2 == Windows!Masked(Windows!Pearson(ret, market, W), W + 1)
               c3 == Windows!Masked(Windows!Both(Windows!FullRolling(ret, W), Windows!FullRolling(market, W)), W + 1)
    <2>1. c1 \in P /\ c2 \in P /\ c3 \in P
      BY <1>1, <1>2, <1>3, <1>4
    <2>2. Windows!MarketContracts(s, market) = [beta_mkt |-> c1, corr_mkt |-> c2, mutual_info |-> c3]
      BY DEF Windows!MarketContracts
    <2> HIDE DEF c1, c2, c3
    <2> QED
      BY <2>1, <2>2
  <1>12. \A k \in DOMAIN Windows!VolumeContracts(s) : Windows!VolumeContracts(s)[k] \in P
    <2> DEFINE c1 == Windows!Masked(Windows!Change(s, 1), 2)
               c2 == Windows!Masked(Windows!FullRolling(s, W), W)
               c3 == Windows!Masked(Windows!Both(s, Windows!FullRolling(s, W)), W)
    <2>1. c1 \in P /\ c2 \in P /\ c3 \in P
      BY <1>1, <1>2, <1>3, <1>4
    <2>2. Windows!VolumeContracts(s) = [volume_change |-> c1, dollar_volume |-> c2, rel_volume |-> c3, turnover |-> c2]
      BY DEF Windows!VolumeContracts
    <2> HIDE DEF c1, c2, c3
    <2> QED
      BY <2>1, <2>2
  <1>13. \A k \in DOMAIN Windows!ImpactContracts(s) : Windows!ImpactContracts(s)[k] \in P
    <2> DEFINE c1 == Windows!Masked(Windows!Amihud(s, W), W + 1)
               c2 == Windows!Masked(Windows!VolumeImbalance(s, W), W + 1)
               c3 == Windows!Masked(Windows!CorwinSchultz(s, W), W + 1)
               c4 == Windows!Masked(Windows!RollSpread(s, W), W + 2)
    <2>1. c1 \in P /\ c2 \in P /\ c3 \in P /\ c4 \in P
      BY <1>1, <1>2, <1>3, <1>4
         DEF Windows!Amihud, Windows!VolumeImbalance, Windows!CorwinSchultz, Windows!RollSpread
    <2>2. Windows!ImpactContracts(s)
              = [amihud |-> c1, volume_imbalance |-> c2, corwin_schultz |-> c3, roll_spread |-> c4]
      BY DEF Windows!ImpactContracts
    <2> HIDE DEF c1, c2, c3, c4
    <2> QED
      BY <2>1, <2>2
  <1>14. Windows!ContractColumns
             = Windows!Beside(Windows!MomentumContracts(s), Windows!Beside(Windows!PriceContracts(s),
               Windows!Beside(Windows!CrossSectionalContracts(s), Windows!Beside(Windows!VolatilityContracts(s),
               Windows!Beside(Windows!DistributionContracts(s), Windows!Beside(Windows!DependenceContracts(s),
               Windows!Beside(Windows!MarketContracts(s, market), Windows!Beside(Windows!VolumeContracts(s),
               Windows!ImpactContracts(s)))))))))
    BY DEF Windows!ContractColumns, s, market
  <1> QED
    BY <1>5, <1>6, <1>7, <1>8, <1>9, <1>10, <1>11, <1>12, <1>13, <1>14, BesideIsOfBoth DEF P

-----------------------------------------------------------------------------
\* A partition's rows: the past for the features, the future for the label.

\* The last date a partition loads.
Until(last) == IF last + Horizon < Last THEN last + Horizon ELSE Last

LEMMA LoadedRowsAreFirst ==
    ASSUME NEW first \in 1..Last, NEW last \in 1..Last
    PROVE  Windows!LoadedRows(first, last) = Windows!RowsOf(1, Until(last)) /\ Until(last) \in last..Last
  <1>1. Last \in Nat /\ Horizon \in Nat \ {0} /\ ~(first - Last > 1)
    BY WindowsAssumption
  <1>2. Windows!Warmup = Last
    BY DEF Windows!Warmup
  <1>3. Windows!LoadedRows(first, last) = Windows!RowsOf(1, Until(last))
    BY <1>1, <1>2 DEF Windows!LoadedRows, Until
  <1> QED
    BY <1>1, <1>3 DEF Until

\* The value of the return on a row is that of its date in the whole panel.
LEMMA ReturnsArePast ==
    ASSUME NEW to \in 1..Last, NEW n, IsRows(Windows!RowsOf(1, to), n), n = Cardinality((1..to) \ holes)
    PROVE  LET rows == Windows!RowsOf(1, to) IN Windows!Returns(rows) \in Past(rows, n)
  <1> DEFINE rows == Windows!RowsOf(1, to)
             all == Windows!RowsOf(1, Last)
             N == Cardinality((1..Last) \ holes)
             ret == Windows!Change(Windows!Observed(all), 1)
             At(i) == CHOOSE j \in 1..N : all[j] = rows[i]
  <1>1. Last \in Nat /\ to \in Nat /\ 1 \in Nat \ {0}
    BY WindowsAssumption
  <1>2. IsRows(all, N) /\ \A d \in (1..Last) \ holes : \E j \in 1..N : all[j] = d
    BY <1>1, RowsAreInOrder
  <1>3. ASSUME NEW i \in 1..n PROVE rows[i] \in (1..Last) \ holes
    <2>1. \A k \in 1..n : rows[k] \in (1..to) \ holes
      BY <1>1, RowsAreInOrder
    <2> QED
      BY <1>1, <2>1
  <1>4. ret \in Past(all, N)
    <2>1. Windows!Observed(all) \in Past(all, N)
      BY <1>2, PastOperations
    <2> QED
      BY <1>2, <2>1, PastPrimitives
  <1>5. n \in Nat /\ Len(rows) = n /\ Len(all) = N
    BY <1>2 DEF IsRows
  <1>6. Windows!Returns(rows) = [i \in 1..n |-> ret[At(i)]]
    <2>1. Windows!Returns(rows) = [i \in 1..Len(rows) |-> ret[CHOOSE j \in 1..Len(all) : all[j] = rows[i]]]
      BY DEF Windows!Returns
    <2> HIDE DEF rows, all, N, ret
    <2> QED
      BY <1>5, <2>1
  <1> HIDE DEF rows, all, N, ret
  <1>7. ASSUME NEW i \in 1..n PROVE At(i) \in 1..N /\ all[At(i)] = rows[i]
    <2>1. \E j \in 1..N : all[j] = rows[i]
      BY <1>2, <1>3
    <2> QED
      BY <2>1
  <1> HIDE DEF At
  <1>8. ASSUME NEW i \in 1..n PROVE ret[At(i)] \in SUBSET Nat /\ \A d \in ret[At(i)] : d <= rows[i]
    BY <1>4, <1>7 DEF Past
  <1>9. Windows!Returns(rows) \in Past(rows, n)
    BY <1>6, <1>8 DEF Past
  <1> QED
    BY <1>9 DEF rows

LEMMA LabelIsAhead ==
    ASSUME NEW rows, NEW n, IsRows(rows, n), NEW i \in 1..n,
           Windows!Label(Windows!Observed(rows))[i] # {}
    PROVE  LET v == Windows!Label(Windows!Observed(rows))[i]
           IN  v \ {rows[i]} # {} /\ \A e \in v : e >= rows[i]
  <1> DEFINE s == Windows!Observed(rows)
  <1>1. /\ n \in Nat /\ rows \in [1..n -> Nat \ {0}] /\ Len(rows) = n /\ Horizon \in Nat \ {0}
        /\ \A k, j \in 1..n : k < j => rows[k] < rows[j]
    BY WindowsAssumption DEF IsRows
  <1>2. s = [j \in 1..n |-> IF rows[j] \in gaps THEN {} ELSE {rows[j]}]
    BY <1>1 DEF Windows!Observed, Windows!NaN
  <1>3. Windows!Shift(s, -Horizon) = [j \in 1..n |-> IF j + Horizon \in 1..n THEN s[j + Horizon] ELSE {}]
    <2>1. DOMAIN s = 1..n
      BY <1>2
    <2>2. \A j \in 1..n : j - (-Horizon) = j + Horizon
      BY <1>1
    <2> HIDE DEF s
    <2> QED
      BY <2>1, <2>2 DEF Windows!Shift, Windows!NaN
  <1>4. Windows!Label(s)[i] = IF Windows!Shift(s, -Horizon)[i] = {} \/ s[i] = {} THEN {}
                               ELSE Windows!Shift(s, -Horizon)[i] \cup s[i]
    BY <1>3 DEF Windows!Label, Windows!Both, Windows!NaN
  <1> HIDE DEF s
  <1>5. i + Horizon \in 1..n /\ Windows!Label(s)[i] = {rows[i + Horizon], rows[i]}
    <2>1. Windows!Label(s)[i] # {}
      BY DEF s
    <2>2. Windows!Shift(s, -Horizon)[i] # {} /\ s[i] # {}
          /\ Windows!Label(s)[i] = Windows!Shift(s, -Horizon)[i] \cup s[i]
      BY <1>4, <2>1
    <2>3. i + Horizon \in 1..n /\ Windows!Shift(s, -Horizon)[i] = s[i + Horizon]
      BY <1>3, <2>2
    <2>4. s[i + Horizon] = {rows[i + Horizon]} /\ s[i] = {rows[i]}
      BY <1>2, <2>2, <2>3
    <2> QED
      BY <2>2, <2>3, <2>4
  <1>6. rows[i] < rows[i + Horizon] /\ rows[i] \in Nat /\ rows[i + Horizon] \in Nat
    BY <1>1, <1>5
  <1> QED
    BY <1>5, <1>6 DEF s

LEMMA PipelineIsPast ==
    ASSUME NEW rows, NEW n, IsRows(rows, n), Windows!Returns(rows) \in Past(rows, n)
    PROVE  LET columns == Windows!PipelineColumns(rows) IN
           /\ \A k \in DOMAIN columns : k # "target" => columns[k] \in Past(rows, n)
           /\ "target" \in DOMAIN columns /\ columns["target"] = Windows!Label(Windows!Observed(rows))
  <1> DEFINE P == Past(rows, n)
             s == Windows!Observed(rows)
             market == Windows!Market(rows)
             ret == Windows!Returns(rows)
  <1>1. s \in P /\ market \in P /\ ret \in P
    BY PastOperations
  <1>2. /\ \A a, b \in P : Windows!Both(a, b) \in P
        /\ \A a \in P, k \in Nat : Windows!Shift(a, k) \in P
    BY PastOperations
  <1>3. /\ \A a \in P, w \in Nat : Windows!FullRolling(a, w) \in P /\ Windows!PartRolling(a, w) \in P
        /\ \A a \in P, k \in Nat : Windows!Smoothed(a, k) \in P /\ Windows!Change(a, k) \in P /\ Windows!Ema(a, k) \in P
        /\ \A a \in P, w \in Nat, k \in Nat : Windows!Momentum(a, w, k) \in P
        /\ \A a, b \in P, w \in Nat : Windows!Pearson(a, b, w) \in P /\ Windows!RollingBeta(a, b, w) \in P
    BY PastPrimitives
  <1>4. W \in Nat /\ Lag \in Nat /\ W - 1 \in Nat /\ 0 \in Nat /\ 1 \in Nat
    BY WindowsAssumption
  <1> HIDE DEF P, s, market, ret
  <1>5. LET t == Windows!TechnicalColumns(s, ret) IN "target" \notin DOMAIN t /\ \A k \in DOMAIN t : t[k] \in P
    <2> DEFINE c3 == Windows!Change(s, W)
               c4 == Windows!PartRolling(ret, W)
               c5 == Windows!MaRatio(s, W)
               c6 == Windows!Both(s, Windows!Ema(s, W))
               c7 == Windows!Rsi(s, W)
               c8 == Windows!MacdLine(s, W - 1, W)
               c9 == Windows!MacdSignal(s, W - 1, W, W - 1)
               c10 == Windows!Bollinger(s, W)
               c11 == Windows!Momentum(s, W, 0)
    <2>1. c8 \in P
      BY <1>1, <1>2, <1>3, <1>4 DEF Windows!MacdLine
    <2>2. c9 \in P
      BY <1>3, <1>4, <2>1 DEF Windows!MacdSignal
    <2>3. c3 \in P /\ c4 \in P /\ c5 \in P /\ c6 \in P /\ c7 \in P /\ c10 \in P /\ c11 \in P
      BY <1>1, <1>2, <1>3, <1>4 DEF Windows!MaRatio, Windows!Rsi, Windows!Bollinger
    <2>4. Windows!TechnicalColumns(s, ret)
              = [f_ret_1d |-> ret, f_logret_1d |-> ret, f_ret_5d |-> c3, f_vol |-> c4, f_realized_vol |-> c4,
                 f_sharpe |-> c4, f_ma_ratio |-> c5, f_ema_ratio |-> c6, f_rsi |-> c7, f_macd |-> c8,
                 f_macd_signal |-> c9, f_bb_pctb |-> c10, f_mom |-> c11]
      BY DEF Windows!TechnicalColumns
    <2> HIDE DEF c3, c4, c5, c6, c7, c8, c9, c10, c11
    <2> QED
      BY <1>1, <2>1, <2>2, <2>3, <2>4
  <1>6. LET t == Windows!RiskColumns(s, ret, market) IN "target" \notin DOMAIN t /\ \A k \in DOMAIN t : t[k] \in P
    <2> DEFINE c1 == Windows!Momentum(s, W, Lag)
               c2 == Windows!Change(s, W)
               c3 == Windows!ZScore(s, W)
               c4 == Windows!Both(s, Windows!PartRolling(s, W))
               c5 == Windows!RollingBeta(ret, market, W)
               c6 == Windows!Drawdown(s)
               c7 == Windows!PartRolling(s, W)
    <2>1. c1 \in P /\ c2 \in P /\ c3 \in P /\ c4 \in P /\ c5 \in P /\ c6 \in P /\ c7 \in P
      BY <1>1, <1>2, <1>3, <1>4 DEF Windows!ZScore, Windows!Drawdown
    <2>2. Windows!RiskColumns(s, ret, market)
              = [f_mom_12_1 |-> c1, f_reversal_5 |-> c2, f_zscore_21 |-> c3, f_log_dollar_volume |-> s,
                 f_volume_zscore |-> c3, f_relative_volume |-> c4, f_beta |-> c5, f_drawdown |-> c6, f_max_dd |-> c7]
      BY DEF Windows!RiskColumns
    <2> HIDE DEF c1, c2, c3, c4, c5, c6, c7
    <2> QED
      BY <1>1, <2>1, <2>2
  <1>7. Windows!PipelineColumns(rows)
            = Windows!Beside(Windows!TechnicalColumns(s, ret),
                             Windows!Beside(Windows!RiskColumns(s, ret, market), [target |-> Windows!Label(s)]))
    BY DEF Windows!PipelineColumns, s, ret, market
  <1> DEFINE T == Windows!TechnicalColumns(s, ret)
             R == Windows!RiskColumns(s, ret, market)
             L == Windows!Label(s)
  <1> HIDE DEF T, R, L
  <1>8. /\ "target" \notin DOMAIN T /\ \A k \in DOMAIN T : T[k] \in P
        /\ "target" \notin DOMAIN R /\ \A k \in DOMAIN R : R[k] \in P
    BY <1>5, <1>6 DEF T, R
  <1>9. LET columns == Windows!Beside(T, Windows!Beside(R, [target |-> L])) IN
        /\ \A k \in DOMAIN columns : k # "target" => columns[k] \in P
        /\ "target" \in DOMAIN columns /\ columns["target"] = L
    BY <1>8 DEF Windows!Beside
  <1> QED
    BY <1>7, <1>9 DEF T, R, L, P, s

\* Each row of a frame is the values of one row of its columns, all of them there.
RowOf(columns, i) == [k \in DOMAIN columns |-> columns[k][i]]
RowDates(rows, S) == {rows[i] : i \in S}
WholeRows(columns, n) == {i \in 1..n : \A k \in DOMAIN columns : columns[k][i] # {}}

LEMMA FrameRows ==
    ASSUME NEW rows, NEW n, IsRows(rows, n)
    PROVE  LET columns == Windows!PipelineColumns(rows)
               table == Windows!Frame(rows)
           IN  /\ DOMAIN table = RowDates(rows, WholeRows(columns, n))
               /\ \A i \in WholeRows(columns, n) : table[rows[i]] = RowOf(columns, i)
  <1> DEFINE columns == Windows!PipelineColumns(rows)
             whole == {i \in 1..n : \A k \in DOMAIN columns : columns[k][i] # {}}
             table == Windows!Frame(rows)
             At(d) == CHOOSE j \in whole : rows[j] = d
  <1>1. Len(rows) = n /\ \A i, j \in 1..n : rows[i] = rows[j] => i = j
    <2>1. /\ n \in Nat /\ rows \in [1..n -> Nat \ {0}] /\ Len(rows) = n
          /\ \A i, j \in 1..n : i < j => rows[i] < rows[j]
      BY DEF IsRows
    <2>2. ASSUME NEW i \in 1..n, NEW j \in 1..n, i # j PROVE rows[i] # rows[j]
      <3>1. i < j \/ j < i
        BY <2>1, <2>2
      <3>2. rows[i] \in Nat /\ rows[j] \in Nat /\ (rows[i] < rows[j] \/ rows[j] < rows[i])
        BY <2>1, <3>1
      <3> QED
        BY <3>2
    <2> QED
      BY <2>1, <2>2
  <1>2. table = [d \in {rows[i] : i \in whole} |-> [k \in DOMAIN columns |-> columns[k][At(d)]]]
    BY <1>1 DEF Windows!Frame, Windows!NaN
  <1>3. whole \in SUBSET (1..n)
    OBVIOUS
  <1> HIDE DEF columns, whole, table
  <1>4. ASSUME NEW i \in whole PROVE At(rows[i]) = i
    <2>1. \E j \in whole : rows[j] = rows[i]
      OBVIOUS
    <2>2. At(rows[i]) \in whole /\ rows[At(rows[i])] = rows[i]
      BY <2>1
    <2> HIDE DEF At
    <2> QED
      BY <1>1, <1>3, <2>2
  <1> HIDE DEF At
  <1>5. DOMAIN table = {rows[i] : i \in whole} /\ \A i \in whole : table[rows[i]] = [k \in DOMAIN columns |-> columns[k][i]]
    BY <1>2, <1>4
  <1> QED
    BY <1>5 DEF columns, whole, table, WholeRows, RowOf, RowDates

-----------------------------------------------------------------------------
\* The value that is computed from the rows A back and the market B back: there is one if
\* all of them are there.

Whole(rows, n, i, A, B) ==
    /\ \A k \in A : i - k \in 1..n /\ rows[i - k] \notin gaps
    /\ \A k \in B : i - k \in 1..n /\ rows[i - k] # 1
Value(rows, i, A, B) == {rows[i - k] : k \in A} \cup UNION {{rows[i - k] - 1, rows[i - k]} : k \in B}
Of(rows, n, A, B) == [i \in 1..n |-> IF Whole(rows, n, i, A, B) THEN Value(rows, i, A, B) ELSE {}]

LEMMA OfIsThere ==
    ASSUME NEW rows, NEW n, NEW A \in SUBSET Nat, NEW B \in SUBSET Nat, A \cup B # {}, NEW i \in 1..n
    PROVE  Of(rows, n, A, B)[i] # {} <=> Whole(rows, n, i, A, B)
  <1>1. Value(rows, i, A, B) # {}
    <2>1. CASE A # {}
      <3>1. PICK k \in A : TRUE
        BY <2>1
      <3>2. rows[i - k] \in Value(rows, i, A, B)
        BY DEF Value
      <3> QED
        BY <3>2
    <2>2. CASE B # {}
      <3>1. PICK k \in B : TRUE
        BY <2>2
      <3>2. rows[i - k] \in Value(rows, i, A, B)
        BY DEF Value
      <3> QED
        BY <3>2
    <2> QED
      BY <2>1, <2>2
  <1> QED
    BY <1>1 DEF Of

\* Offsets k further back, and those of w rows in line.
Plus(A, k) == {a + k : a \in A}
Back(A, w) == {a + j : a \in A, j \in 0..(w - 1)}

LEMMA InBack == ASSUME NEW A, NEW w, NEW a \in A, NEW j \in 0..(w - 1) PROVE a + j \in Back(A, w)
  BY DEF Back

LEMMA OneRow ==
    ASSUME NEW rows, NEW n, IsRows(rows, n)
    PROVE  Windows!Observed(rows) = Of(rows, n, {0}, {}) /\ Windows!Market(rows) = Of(rows, n, {}, {0})
  <1>1. n \in Nat /\ Len(rows) = n /\ \A i \in 1..n : i - 0 = i
    BY DEF IsRows
  <1>2. ASSUME NEW i \in 1..n
        PROVE  /\ Whole(rows, n, i, {0}, {}) <=> rows[i] \notin gaps
               /\ Whole(rows, n, i, {}, {0}) <=> rows[i] # 1
               /\ Value(rows, i, {0}, {}) = {rows[i]} /\ Value(rows, i, {}, {0}) = {rows[i] - 1, rows[i]}
    BY <1>1 DEF Whole, Value
  <1> QED
    BY <1>1, <1>2 DEF Of, Windows!Observed, Windows!Market, Windows!NaN

LEMMA BothAreOf ==
    ASSUME NEW rows, NEW n, NEW A \in SUBSET Nat, NEW B \in SUBSET Nat, A \cup B # {},
           NEW C \in SUBSET Nat, NEW D \in SUBSET Nat, C \cup D # {}
    PROVE  Windows!Both(Of(rows, n, A, B), Of(rows, n, C, D)) = Of(rows, n, A \cup C, B \cup D)
  <1> DEFINE a == Of(rows, n, A, B)
             c == Of(rows, n, C, D)
  <1>1. ASSUME NEW i \in 1..n
        PROVE  /\ a[i] = IF Whole(rows, n, i, A, B) THEN Value(rows, i, A, B) ELSE {}
               /\ c[i] = IF Whole(rows, n, i, C, D) THEN Value(rows, i, C, D) ELSE {}
               /\ a[i] # {} <=> Whole(rows, n, i, A, B)
               /\ c[i] # {} <=> Whole(rows, n, i, C, D)
    <2>1. (a[i] # {} <=> Whole(rows, n, i, A, B)) /\ (c[i] # {} <=> Whole(rows, n, i, C, D))
      BY OfIsThere
    <2> QED
      BY <2>1 DEF Of
  <1>2. ASSUME NEW i \in 1..n
        PROVE  /\ Whole(rows, n, i, A \cup C, B \cup D) <=> Whole(rows, n, i, A, B) /\ Whole(rows, n, i, C, D)
               /\ Value(rows, i, A \cup C, B \cup D) = Value(rows, i, A, B) \cup Value(rows, i, C, D)
    <2>1. Whole(rows, n, i, A \cup C, B \cup D) <=> Whole(rows, n, i, A, B) /\ Whole(rows, n, i, C, D)
      BY DEF Whole
    <2>2. Value(rows, i, A \cup C, B \cup D) = Value(rows, i, A, B) \cup Value(rows, i, C, D)
      BY DEF Value
    <2> QED
      BY <2>1, <2>2
  <1>3. DOMAIN a = 1..n
    BY DEF Of
  <1> HIDE DEF a, c
  <1>4. Windows!Both(a, c) = [i \in 1..n |-> IF a[i] = {} \/ c[i] = {} THEN {} ELSE a[i] \cup c[i]]
    BY <1>3 DEF Windows!Both, Windows!NaN
  <1>5. ASSUME NEW i \in 1..n
        PROVE  (IF a[i] = {} \/ c[i] = {} THEN {} ELSE a[i] \cup c[i])
                   = IF Whole(rows, n, i, A \cup C, B \cup D) THEN Value(rows, i, A \cup C, B \cup D) ELSE {}
    BY <1>1, <1>2
  <1> QED
    BY <1>4, <1>5 DEF Of, a, c

LEMMA BothAreOfTheSame ==
    ASSUME NEW rows, NEW n
    PROVE  \A A, B \in SUBSET Nat : A # {} /\ B # {} =>
               /\ Windows!Both(Of(rows, n, A, {}), Of(rows, n, {}, B)) = Of(rows, n, A, B)
               /\ Windows!Both(Of(rows, n, A, B), Of(rows, n, A, B)) = Of(rows, n, A, B)
  <1> SUFFICES ASSUME NEW A \in SUBSET Nat, NEW B \in SUBSET Nat, A # {}, B # {}
               PROVE  /\ Windows!Both(Of(rows, n, A, {}), Of(rows, n, {}, B)) = Of(rows, n, A, B)
                      /\ Windows!Both(Of(rows, n, A, B), Of(rows, n, A, B)) = Of(rows, n, A, B)
    OBVIOUS
  <1>1. A \cup {} = A /\ {} \cup B = B /\ A \cup A = A /\ B \cup B = B /\ A \cup B # {} /\ {} \in SUBSET Nat
    OBVIOUS
  <1>2. Windows!Both(Of(rows, n, A, {}), Of(rows, n, {}, B)) = Of(rows, n, A \cup {}, {} \cup B)
    BY <1>1, BothAreOf
  <1>3. Windows!Both(Of(rows, n, A, B), Of(rows, n, A, B)) = Of(rows, n, A \cup A, B \cup B)
    BY <1>1, BothAreOf
  <1> QED
    BY <1>1, <1>2, <1>3

LEMMA ShiftIsOf ==
    ASSUME NEW rows, NEW n \in Nat, NEW A \in SUBSET Nat, NEW B \in SUBSET Nat, A \cup B # {}, NEW k \in Nat
    PROVE  Windows!Shift(Of(rows, n, A, B), k) = Of(rows, n, Plus(A, k), Plus(B, k))
  <1> DEFINE a == Of(rows, n, A, B)
  <1>1. Windows!Shift(a, k) = [i \in 1..n |-> IF i - k \in 1..n THEN a[i - k] ELSE {}]
    BY DEF Of, Windows!Shift, Windows!NaN
  <1>2. ASSUME NEW i \in 1..n, i - k \in 1..n
        PROVE  /\ Whole(rows, n, i, Plus(A, k), Plus(B, k)) <=> Whole(rows, n, i - k, A, B)
               /\ Value(rows, i, Plus(A, k), Plus(B, k)) = Value(rows, i - k, A, B)
    <2>1. \A x \in Nat : i - (x + k) = (i - k) - x
      BY <1>2
    <2>2. Whole(rows, n, i, Plus(A, k), Plus(B, k)) <=> Whole(rows, n, i - k, A, B)
      BY <2>1 DEF Whole, Plus
    <2>3. {rows[i - y] : y \in Plus(A, k)} = {rows[(i - k) - x] : x \in A}
      BY <2>1, ZenonT(40) DEF Plus
    <2>4. {{rows[i - y] - 1, rows[i - y]} : y \in Plus(B, k)} = {{rows[(i - k) - x] - 1, rows[(i - k) - x]} : x \in B}
      <3>1. \A x \in B : {rows[i - (x + k)] - 1, rows[i - (x + k)]} = {rows[(i - k) - x] - 1, rows[(i - k) - x]}
        BY <2>1
      <3>2. {{rows[i - y] - 1, rows[i - y]} : y \in Plus(B, k)} = {{rows[i - (x + k)] - 1, rows[i - (x + k)]} : x \in B}
        BY DEF Plus
      <3> QED
        BY <3>1, <3>2
    <2>5. Value(rows, i, Plus(A, k), Plus(B, k)) = Value(rows, i - k, A, B)
      BY <2>3, <2>4 DEF Value
    <2> QED
      BY <2>2, <2>5
  <1>3. ASSUME NEW i \in 1..n, ~(i - k \in 1..n) PROVE ~Whole(rows, n, i, Plus(A, k), Plus(B, k))
    <2>1. PICK x \in A \cup B : TRUE
      OBVIOUS
    <2>2. x \in Nat /\ x + k \in Plus(A, k) \cup Plus(B, k)
      BY DEF Plus
    <2>3. ~(i - (x + k) \in 1..n)
      BY <1>3, <2>2
    <2> QED
      BY <2>2, <2>3 DEF Whole
  <1>4. ASSUME NEW i \in 1..n, i - k \in 1..n
        PROVE  a[i - k] = IF Whole(rows, n, i - k, A, B) THEN Value(rows, i - k, A, B) ELSE {}
    BY <1>4 DEF Of
  <1> HIDE DEF a
  <1> QED
    BY <1>1, <1>2, <1>3, <1>4 DEF Of, a

\* A whole window is one of w observations.
LEMMA FullWindow ==
    ASSUME NEW lo \in Int, NEW hi \in Int, NEW S \in SUBSET (lo..hi), lo <= hi + 1
    PROVE  Cardinality(S) >= hi - lo + 1 <=> S = lo..hi
  <1>1. IsFiniteSet(lo..hi) /\ Cardinality(lo..hi) = hi - lo + 1
    BY FS_Interval
  <1>2. IsFiniteSet(S) /\ Cardinality(S) \in Nat /\ Cardinality(S) <= hi - lo + 1
        /\ (Cardinality(S) = Cardinality(lo..hi) => S = lo..hi)
    <2>1. IsFiniteSet(S) /\ Cardinality(S) <= Cardinality(lo..hi)
          /\ (Cardinality(S) = Cardinality(lo..hi) => S = lo..hi)
      BY <1>1, FS_Subset
    <2> QED
      BY <1>1, <2>1, FS_CardinalityType
  <1>3. CASE Cardinality(S) >= hi - lo + 1
    BY <1>1, <1>2, <1>3
  <1>4. CASE ~(Cardinality(S) >= hi - lo + 1)
    BY <1>1, <1>2, <1>4
  <1> QED
    BY <1>3, <1>4

LEMMA WindowIsOf ==
    ASSUME NEW rows, NEW n \in Nat, NEW A \in SUBSET Nat, NEW B \in SUBSET Nat, A \cup B # {}, NEW w \in Nat \ {0}
    PROVE  Windows!FullRolling(Of(rows, n, A, B), w) = Of(rows, n, Back(A, w), Back(B, w))
  <1> DEFINE a == Of(rows, n, A, B)
             Line(i) == (i - w + 1)..i
             Seen(i) == {j \in Line(i) \cap 1..n : a[j] # {}}
  <1>1. Windows!FullRolling(a, w)
            = [i \in 1..n |-> IF Cardinality(Seen(i)) >= w THEN UNION {a[j] : j \in Seen(i)} ELSE {}]
    BY SameWindowsCardinality DEF Of, Windows!FullRolling, Windows!Rolling, Windows!NaN
  <1>2. \A j \in 1..n : a[j] # {} <=> Whole(rows, n, j, A, B)
    BY OfIsThere
  <1>3. \A j \in 1..n : Whole(rows, n, j, A, B) => a[j] = Value(rows, j, A, B)
    BY DEF Of
  <1> HIDE DEF a
  <1>4. ASSUME NEW i \in 1..n PROVE Cardinality(Seen(i)) >= w <=> Seen(i) = Line(i)
    <2>1. i - w + 1 \in Int /\ i \in Int /\ i - w + 1 <= i + 1 /\ i - (i - w + 1) + 1 = w
      OBVIOUS
    <2>2. Seen(i) \in SUBSET Line(i)
      OBVIOUS
    <2> HIDE DEF Seen
    <2>3. Cardinality(Seen(i)) >= i - (i - w + 1) + 1 <=> Seen(i) = (i - w + 1)..i
      BY <2>1, <2>2, FullWindow
    <2> QED
      BY <2>1, <2>3
  <1>5. ASSUME NEW i \in 1..n
        PROVE  Seen(i) = Line(i) <=> \A t \in 0..(w - 1) : i - t \in 1..n /\ Whole(rows, n, i - t, A, B)
    <2>1. ASSUME Seen(i) = Line(i), NEW t \in 0..(w - 1) PROVE i - t \in 1..n /\ Whole(rows, n, i - t, A, B)
      <3>1. i - t \in Line(i)
        OBVIOUS
      <3> QED
        BY <1>2, <2>1, <3>1
    <2>2. ASSUME \A t \in 0..(w - 1) : i - t \in 1..n /\ Whole(rows, n, i - t, A, B), NEW j \in Line(i)
          PROVE  j \in Seen(i)
      <3>1. i - j \in 0..(w - 1) /\ i - (i - j) = j
        OBVIOUS
      <3>2. j \in 1..n /\ Whole(rows, n, j, A, B)
        BY <2>2, <3>1
      <3> QED
        BY <1>2, <3>2
    <2> QED
      BY <2>1, <2>2
  <1>6. ASSUME NEW i \in 1..n
        PROVE  (\A t \in 0..(w - 1) : i - t \in 1..n /\ Whole(rows, n, i - t, A, B))
                   <=> Whole(rows, n, i, Back(A, w), Back(B, w))
    <2>1. \A x \in Nat, t \in 0..(w - 1) : i - (x + t) = (i - t) - x
      OBVIOUS
    <2>2. ASSUME \A t \in 0..(w - 1) : i - t \in 1..n /\ Whole(rows, n, i - t, A, B)
          PROVE  Whole(rows, n, i, Back(A, w), Back(B, w))
      BY <2>1, <2>2 DEF Whole, Back
    <2>3. ASSUME Whole(rows, n, i, Back(A, w), Back(B, w)), NEW t \in 0..(w - 1)
          PROVE  i - t \in 1..n /\ Whole(rows, n, i - t, A, B)
      <3>1. /\ \A x \in A : (i - t) - x \in 1..n /\ rows[(i - t) - x] \notin gaps
            /\ \A x \in B : (i - t) - x \in 1..n /\ rows[(i - t) - x] # 1
        <4>1. ASSUME NEW x \in A PROVE x + t \in Back(A, w)
          BY InBack
        <4>2. ASSUME NEW x \in B PROVE x + t \in Back(B, w)
          BY InBack
        <4>3. /\ \A x \in A : i - (x + t) \in 1..n /\ rows[i - (x + t)] \notin gaps
              /\ \A x \in B : i - (x + t) \in 1..n /\ rows[i - (x + t)] # 1
          BY <2>3, <4>1, <4>2 DEF Whole
        <4>4. \A x \in A \cup B : i - (x + t) = (i - t) - x
          BY <2>1
        <4> QED
          BY <4>3, <4>4
      <3>2. PICK x \in A \cup B : TRUE
        OBVIOUS
      <3>3. x \in Nat /\ (i - t) - x \in 1..n
        BY <3>1
      <3>4. i - t \in 1..n
        BY <3>3
      <3> QED
        BY <3>1, <3>4 DEF Whole
    <2> QED
      BY <2>2, <2>3
  <1>7. ASSUME NEW i \in 1..n, Seen(i) = Line(i)
        PROVE  UNION {a[j] : j \in Seen(i)} = Value(rows, i, Back(A, w), Back(B, w))
    <2>1. \A t \in 0..(w - 1) : i - t \in Line(i) /\ i - (i - (i - t)) = i - t
      OBVIOUS
    <2>2. \A j \in Line(i) : i - j \in 0..(w - 1) /\ i - (i - j) = j
      OBVIOUS
    <2>3. \A t \in 0..(w - 1) : i - t \in 1..n /\ Whole(rows, n, i - t, A, B)
      <3> HIDE DEF Seen, Line
      <3> QED
        BY <1>5, <1>7
    <2>4. \A t \in 0..(w - 1) : a[i - t] = Value(rows, i - t, A, B)
      BY <1>3, <2>3
    <2>5. \A x \in Nat, t \in 0..(w - 1) : i - (x + t) = (i - t) - x
      OBVIOUS
    <2> HIDE DEF Seen, Line
    <2>6. ASSUME NEW v, NEW t \in 0..(w - 1), v \in Value(rows, i - t, A, B)
          PROVE  v \in Value(rows, i, Back(A, w), Back(B, w))
      <3>1. CASE \E x \in A : v = rows[(i - t) - x]
        <4>1. PICK x \in A : v = rows[(i - t) - x]
          BY <3>1
        <4>2. x + t \in Back(A, w) /\ i - (x + t) = (i - t) - x
          BY <2>5 DEF Back
        <4> QED
          BY <4>1, <4>2 DEF Value
      <3>2. CASE \E x \in B : v \in {rows[(i - t) - x] - 1, rows[(i - t) - x]}
        <4>1. PICK x \in B : v \in {rows[(i - t) - x] - 1, rows[(i - t) - x]}
          BY <3>2
        <4>2. x + t \in Back(B, w) /\ i - (x + t) = (i - t) - x
          BY <2>5 DEF Back
        <4> QED
          BY <4>1, <4>2 DEF Value
      <3> QED
        BY <2>6, <3>1, <3>2 DEF Value
    <2>7. ASSUME NEW v \in Value(rows, i, Back(A, w), Back(B, w))
          PROVE  \E t \in 0..(w - 1) : v \in Value(rows, i - t, A, B)
      <3>1. CASE \E y \in Back(A, w) : v = rows[i - y]
        <4>1. PICK x \in A, t \in 0..(w - 1) : v = rows[i - (x + t)]
          BY <3>1 DEF Back
        <4>2. v = rows[(i - t) - x]
          BY <2>5, <4>1
        <4> QED
          BY <4>2 DEF Value
      <3>2. CASE \E y \in Back(B, w) : v \in {rows[i - y] - 1, rows[i - y]}
        <4>1. PICK x \in B, t \in 0..(w - 1) : v \in {rows[i - (x + t)] - 1, rows[i - (x + t)]}
          BY <3>2 DEF Back
        <4>2. v \in {rows[(i - t) - x] - 1, rows[(i - t) - x]}
          BY <2>5, <4>1
        <4> QED
          BY <4>2 DEF Value
      <3> QED
        BY <3>1, <3>2 DEF Value
    <2>8. ASSUME NEW v PROVE v \in UNION {a[j] : j \in Seen(i)} <=> v \in Value(rows, i, Back(A, w), Back(B, w))
      <3>1. ASSUME v \in UNION {a[j] : j \in Seen(i)} PROVE v \in Value(rows, i, Back(A, w), Back(B, w))
        <4>1. PICK j \in Line(i) : v \in a[j]
          BY <1>7, <3>1
        <4>2. i - j \in 0..(w - 1) /\ v \in Value(rows, i - (i - j), A, B)
          BY <2>2, <2>4, <4>1
        <4> QED
          BY <2>6, <4>2
      <3>2. ASSUME v \in Value(rows, i, Back(A, w), Back(B, w)) PROVE v \in UNION {a[j] : j \in Seen(i)}
        <4>1. PICK t \in 0..(w - 1) : v \in Value(rows, i - t, A, B)
          BY <2>7, <3>2
        <4>2. i - t \in Seen(i) /\ v \in a[i - t]
          BY <1>7, <2>1, <2>4, <4>1
        <4> QED
          BY <4>2
      <3> QED
        BY <3>1, <3>2
    <2> QED
      BY <2>8
  <1> HIDE DEF Seen, Line
  <1>8. ASSUME NEW i \in 1..n
        PROVE  (IF Cardinality(Seen(i)) >= w THEN UNION {a[j] : j \in Seen(i)} ELSE {})
                   = IF Whole(rows, n, i, Back(A, w), Back(B, w)) THEN Value(rows, i, Back(A, w), Back(B, w)) ELSE {}
    BY <1>4, <1>5, <1>6, <1>7
  <1> QED
    BY <1>1, <1>8 DEF Of, a

\* The mask hides nothing of a window that reaches as far.
LEMMA MaskedIsOf ==
    ASSUME NEW rows, NEW n \in Nat, NEW A \in SUBSET Nat, NEW B \in SUBSET Nat, NEW m \in Nat,
           NEW a \in A \cup B, m - 1 <= a
    PROVE  Windows!Masked(Of(rows, n, A, B), m) = Of(rows, n, A, B)
  <1>1. ASSUME NEW i \in 1..n, i < m PROVE ~Whole(rows, n, i, A, B)
    <2>1. ~(i - a \in 1..n)
      BY <1>1
    <2> QED
      BY <2>1 DEF Whole
  <1> QED
    BY <1>1 DEF Of, Windows!Masked, Windows!NaN

LEMMA BackOfRange ==
    ASSUME NEW lo \in Nat, NEW hi \in Nat, lo <= hi, NEW w \in Nat \ {0}
    PROVE  Back(lo..hi, w) = lo..(hi + w - 1)
  <1>1. ASSUME NEW y \in lo..(hi + w - 1) PROVE y \in Back(lo..hi, w)
    <2>1. CASE y <= hi
      <3>1. y \in lo..hi /\ 0 \in 0..(w - 1) /\ y = y + 0
        BY <2>1
      <3> QED
        BY <3>1, InBack
    <2>2. CASE ~(y <= hi)
      <3>1. hi \in lo..hi /\ y - hi \in 0..(w - 1) /\ y = hi + (y - hi)
        BY <2>2
      <3> QED
        BY <3>1, InBack
    <2> QED
      BY <2>1, <2>2
  <1>2. ASSUME NEW a \in lo..hi, NEW j \in 0..(w - 1) PROVE a + j \in lo..(hi + w - 1)
    OBVIOUS
  <1>3. ASSUME NEW y \in Back(lo..hi, w) PROVE y \in lo..(hi + w - 1)
    <2>1. PICK a \in lo..hi, j \in 0..(w - 1) : y = a + j
      BY DEF Back
    <2> QED
      BY <1>2, <2>1
  <1> QED
    BY <1>1, <1>3

LEMMA BackOfUnion == \A A, B, w : Back(A \cup B, w) = Back(A, w) \cup Back(B, w)
  BY DEF Back

LEMMA NothingBack == \A w : Back({}, w) = {} /\ Plus({}, w) = {}
  BY DEF Back, Plus

LEMMA PlusOfRange ==
    ASSUME NEW lo \in Nat, NEW hi \in Nat, NEW k \in Nat
    PROVE  Plus(lo..hi, k) = (lo + k)..(hi + k)
  <1>1. ASSUME NEW y \in (lo + k)..(hi + k) PROVE y - k \in lo..hi /\ y = (y - k) + k
    OBVIOUS
  <1>2. ASSUME NEW a \in lo..hi PROVE a + k \in (lo + k)..(hi + k)
    OBVIOUS
  <1> QED
    BY <1>1, <1>2 DEF Plus

\* What the primitives read of an asset's observations and of the market.
LEMMA WindowsRead ==
    ASSUME NEW rows, NEW n, IsRows(rows, n)
    PROVE  LET s == Windows!Observed(rows)
               market == Windows!Market(rows)
               ret == Windows!Change(s, 1)
           IN  /\ s = Of(rows, n, {0}, {})
               /\ \A k \in Nat : Windows!Change(s, k) = Of(rows, n, {0, k}, {})
               /\ \A k, w \in Nat : Windows!Momentum(s, w, k) = Of(rows, n, {k, w}, {})
               /\ Windows!FullRolling(s, W) = Of(rows, n, 0..(W - 1), {})
               /\ Windows!FullRolling(ret, W) = Of(rows, n, 0..W, {})
               /\ Windows!FullRolling(market, W) = Of(rows, n, {}, 0..(W - 1))
               /\ \A k \in 1..(W - 1) : Windows!Autocorrelation(ret, W, k) = Of(rows, n, 0..(W + k), {})
               /\ Windows!Pearson(ret, market, W) = Of(rows, n, 0..W, 0..(W - 1))
               /\ Windows!FullRolling(Windows!Both(ret, Windows!Shift(ret, 1)), W) = Of(rows, n, 0..(W + 1), {})
  <1> DEFINE s == Windows!Observed(rows)
             market == Windows!Market(rows)
             ret == Windows!Change(s, 1)
             V(A, B) == Of(rows, n, A, B)
  <1>1. n \in Nat /\ W \in Nat \ {0} /\ W >= 3
    BY WindowsAssumption DEF IsRows
  <1>2. s = V({0}, {}) /\ market = V({}, {0})
    BY OneRow
  <1>3. \A A, C \in SUBSET Nat : A # {} /\ C # {} => Windows!Both(V(A, {}), V(C, {})) = V(A \cup C, {})
    BY BothAreOf
  <1>4. \A A \in SUBSET Nat, k \in Nat : A # {} => Windows!Shift(V(A, {}), k) = V(Plus(A, k), {})
    BY <1>1, ShiftIsOf, NothingBack
  <1>5. \A A \in SUBSET Nat : A # {} => Windows!FullRolling(V(A, {}), W) = V(Back(A, W), {})
    BY <1>1, WindowIsOf, NothingBack
  <1>6. Windows!FullRolling(market, W) = V({}, Back({0}, W))
    BY <1>1, <1>2, WindowIsOf, NothingBack
  <1>7. Windows!Both(V(0..1, {}), market) = V(0..1, {0})
    BY <1>2, BothAreOf
  <1>8. Windows!FullRolling(V(0..1, {0}), W) = V(Back(0..1, W), Back({0}, W))
    BY <1>1, WindowIsOf
  <1>9. Back({0}, W) = 0..(W - 1) /\ Back(0..1, W) = 0..W
    <2>1. Back(0..0, W) = 0..(0 + W - 1) /\ Back(0..1, W) = 0..(1 + W - 1)
      <3>1. \A lo, hi \in Nat : lo <= hi => Back(lo..hi, W) = lo..(hi + W - 1)
        BY <1>1, BackOfRange
      <3>2. 0 \in Nat /\ 1 \in Nat /\ 0 <= 0 /\ 0 <= 1
        OBVIOUS
      <3> QED
        BY Zenon, <3>1, <3>2
    <2>2. {0} = 0..0 /\ 0 + W - 1 = W - 1 /\ 1 + W - 1 = W
      BY <1>1
    <2> QED
      BY <2>1, <2>2
  <1>10. Windows!Both(V(0..W, {}), V({}, 0..(W - 1))) = V(0..W, 0..(W - 1))
    <2>1. 0 \in 0..W /\ 0 \in 0..(W - 1) /\ 0..W \in SUBSET Nat /\ 0..(W - 1) \in SUBSET Nat
      BY <1>1
    <2>2. \A A, B \in SUBSET Nat : A # {} /\ B # {} =>
              /\ Windows!Both(Of(rows, n, A, {}), Of(rows, n, {}, B)) = Of(rows, n, A, B)
              /\ Windows!Both(Of(rows, n, A, B), Of(rows, n, A, B)) = Of(rows, n, A, B)
      BY BothAreOfTheSame
    <2> QED
      BY <2>1, <2>2
  <1>11. Windows!Both(V(0..W, 0..(W - 1)), V(0..W, 0..(W - 1))) = V(0..W, 0..(W - 1))
    <2>1. 0 \in 0..W /\ 0 \in 0..(W - 1) /\ 0..W \in SUBSET Nat /\ 0..(W - 1) \in SUBSET Nat
      BY <1>1
    <2>2. \A A, B \in SUBSET Nat : A # {} /\ B # {} =>
              /\ Windows!Both(Of(rows, n, A, {}), Of(rows, n, {}, B)) = Of(rows, n, A, B)
              /\ Windows!Both(Of(rows, n, A, B), Of(rows, n, A, B)) = Of(rows, n, A, B)
      BY BothAreOfTheSame
    <2> QED
      BY <2>1, <2>2
  <1> HIDE DEF s, market, V
  <1>12. \A k \in Nat : Windows!Shift(s, k) = V({k}, {})
    <2>1. \A k \in Nat : Plus({0}, k) = {k}
      BY DEF Plus
    <2> QED
      BY <1>2, <1>4, <2>1
  <1>13. \A k \in Nat : Windows!Change(s, k) = V({0, k}, {})
    <2>1. \A k \in Nat : {0} \cup {k} = {0, k} /\ {0} \in SUBSET Nat /\ {k} \in SUBSET Nat
      OBVIOUS
    <2> QED
      BY <1>2, <1>3, <1>12, <2>1 DEF Windows!Change
  <1>14. \A k, w \in Nat : Windows!Momentum(s, w, k) = V({k, w}, {})
    <2> SUFFICES ASSUME NEW k \in Nat, NEW w \in Nat PROVE Windows!Momentum(s, w, k) = V({k, w}, {})
      OBVIOUS
    <2>1. {k} \cup {w} = {k, w} /\ {w} \in SUBSET Nat /\ {k} \in SUBSET Nat /\ {k} # {} /\ {w} # {}
      OBVIOUS
    <2>2. Windows!Both(V({k}, {}), V({w}, {})) = V({k} \cup {w}, {})
      BY <1>3, <2>1
    <2> QED
      BY <1>12, <2>1, <2>2 DEF Windows!Momentum
  <1>15. ret = V(0..1, {})
    <2>1. {0, 1} = 0..1
      OBVIOUS
    <2> QED
      BY <1>13, <2>1
  <1> HIDE DEF ret
  <1>16. Windows!FullRolling(s, W) = V(0..(W - 1), {}) /\ Windows!FullRolling(ret, W) = V(0..W, {})
    <2>1. {0} \in SUBSET Nat /\ 0..1 \in SUBSET Nat /\ 0 \in 0..1
      OBVIOUS
    <2> QED
      BY <1>2, <1>5, <1>9, <1>15, <2>1
  <1>17. \A k \in Nat : Windows!Shift(ret, k) = V(k..(k + 1), {})
    <2>1. ASSUME NEW k \in Nat PROVE Plus(0..1, k) = k..(k + 1)
      <3>1. Plus(0..1, k) = (0 + k)..(1 + k)
        BY PlusOfRange
      <3>2. 0 + k = k /\ 1 + k = k + 1
        OBVIOUS
      <3> QED
        BY <3>1, <3>2
    <2>2. 0..1 \in SUBSET Nat /\ 0 \in 0..1
      OBVIOUS
    <2> QED
      BY <1>4, <1>15, <2>1, <2>2
  <1>18. ASSUME NEW k \in 1..(W - 1)
         PROVE  Windows!FullRolling(Windows!Both(ret, Windows!Shift(ret, k)), W) = V(0..(W + k), {})
    <2>1. k \in Nat /\ k..(k + 1) \in SUBSET Nat /\ k \in k..(k + 1) /\ 0..1 \in SUBSET Nat /\ 0 \in 0..1
      BY <1>1
    <2>2. Windows!Both(ret, Windows!Shift(ret, k)) = V((0..1) \cup (k..(k + 1)), {})
      BY <1>3, <1>15, <1>17, <2>1
    <2>3. Back((0..1) \cup (k..(k + 1)), W) = 0..(W + k)
      <3>1. Back(k..(k + 1), W) = k..(k + 1 + W - 1)
        <4>1. k <= k + 1 /\ k + 1 \in Nat
          BY <2>1
        <4> QED
          BY <1>1, <2>1, <4>1, BackOfRange
      <3>2. (0..W) \cup (k..(k + 1 + W - 1)) = 0..(W + k)
        BY <1>1
      <3> QED
        <4>1. Back((0..1) \cup (k..(k + 1)), W) = Back(0..1, W) \cup Back(k..(k + 1), W)
          BY BackOfUnion
        <4> QED
          BY <1>9, <3>1, <3>2, <4>1
    <2>4. (0..1) \cup (k..(k + 1)) \in SUBSET Nat /\ (0..1) \cup (k..(k + 1)) # {}
      BY <2>1
    <2> QED
      BY <1>5, <2>2, <2>3, <2>4
  <1>19. ASSUME NEW k \in 1..(W - 1) PROVE Windows!Autocorrelation(ret, W, k) = V(0..(W + k), {})
    <2>1. Windows!FullRolling(Windows!Shift(ret, k), W) = V(k..(W + k), {})
      <3>1. Back(k..(k + 1), W) = k..(W + k)
        <4>1. k \in Nat /\ k <= k + 1 /\ k + 1 \in Nat /\ k + 1 + W - 1 = W + k
          BY <1>1
        <4> QED
          BY <1>1, <4>1, BackOfRange
      <3>2. k \in Nat /\ k..(k + 1) \in SUBSET Nat /\ k \in k..(k + 1)
        BY <1>1
      <3> QED
        BY <1>5, <1>17, <3>1, <3>2
    <2>2. /\ 0..W \in SUBSET Nat /\ 0 \in 0..W /\ k..(W + k) \in SUBSET Nat /\ k \in k..(W + k)
          /\ 0..(W + k) \in SUBSET Nat /\ 0 \in 0..(W + k)
          /\ (0..W) \cup (k..(W + k)) = 0..(W + k) /\ (0..(W + k)) \cup (0..(W + k)) = 0..(W + k)
      BY <1>1
    <2>3. Windows!Both(V(0..W, {}), V(k..(W + k), {})) = V(0..(W + k), {})
      BY <1>3, <2>2
    <2>4. Windows!Both(V(0..(W + k), {}), V(0..(W + k), {})) = V(0..(W + k), {})
      BY <1>3, <2>2
    <2> QED
      BY <1>16, <1>18, <2>1, <2>3, <2>4 DEF Windows!Autocorrelation, Windows!Pearson
  <1>20. Windows!Pearson(ret, market, W) = V(0..W, 0..(W - 1))
    BY <1>6, <1>7, <1>8, <1>9, <1>10, <1>11, <1>15, <1>16 DEF Windows!Pearson
  <1>21. Windows!FullRolling(Windows!Both(ret, Windows!Shift(ret, 1)), W) = V(0..(W + 1), {})
    BY <1>1, <1>18
  <1> QED
    BY <1>2, <1>6, <1>9, <1>13, <1>14, <1>16, <1>19, <1>20, <1>21 DEF s, market, ret, V

-----------------------------------------------------------------------------
\* Every contract is of the rows its definition names.

Exempt == Windows!Recursive \cup Windows!Lenient
Wide(name) == IF name \in {"corr_mkt", "mutual_info"} THEN 0..(W - 1) ELSE {}
IsNamed(name, v, rows, n) == name \in Exempt \/ v = Of(rows, n, Windows!WindowOf(name), Wide(name))
AreNamed(t, rows, n) == \A name \in DOMAIN t : IsNamed(name, t[name], rows, n)

LEMMA BesideIsNamed ==
    ASSUME NEW rows, NEW n, NEW f, NEW g, AreNamed(f, rows, n), AreNamed(g, rows, n)
    PROVE  AreNamed(Windows!Beside(f, g), rows, n)
  BY DEF AreNamed, Windows!Beside

LEMMA NamesAndWindows ==
    /\ \A name \in {"ret", "roc", "mom", "reversal", "cs_rank_mom", "cs_z_mom"} : Windows!WindowOf(name) = {0, W}
    /\ \A name \in {"logret", "volume_change"} : Windows!WindowOf(name) = {0, 1}
    /\ Windows!WindowOf("mom_skip") = {Lag, W}
    /\ \A name \in {"vwap_dev", "resid", "parkinson", "garman_klass", "rogers_satchell", "hurst",
                    "dollar_volume", "rel_volume", "turnover"} : Windows!WindowOf(name) = 0..(W - 1)
    /\ \A name \in {"skew", "kurt", "downside_dev", "mad", "var_ratio", "corr_mkt", "mutual_info",
                    "corwin_schultz"} : Windows!WindowOf(name) = 0..W
    /\ Windows!WindowOf("autocorr") = 0..(W + Lag)
    /\ Windows!WindowOf("pacf") = 0..(W + 2)
    /\ Windows!WindowOf("roll_spread") = 0..(W + 1)
    /\ {"ma_dist", "zscore", "beta_mkt", "amihud", "volume_imbalance", "ema_dist", "ewma_vol"} \subseteq Exempt
  BY DEF Windows!WindowOf, Exempt, Windows!Recursive, Windows!Lenient

LEMMA ContractsAreNamed ==
    ASSUME NEW rows, NEW n, IsRows(rows, n), rows = Windows!RowsOf(1, Last)
    PROVE  AreNamed(Windows!ContractColumns, rows, n)
  <1> DEFINE s == Windows!Observed(rows)
             market == Windows!Market(rows)
             ret == Windows!Change(s, 1)
             V(A) == Of(rows, n, A, {})
             Named(name) == Of(rows, n, Windows!WindowOf(name), Wide(name))
  <1>1. /\ n \in Nat /\ W \in Nat \ {0} /\ W >= 3 /\ Lag \in 1..(W - 1) /\ Lag \in Nat
        /\ 2 \in 1..(W - 1) /\ 1 \in 1..(W - 1)
    BY WindowsAssumption DEF IsRows
  <1>2. /\ s = V({0})
        /\ \A k \in Nat : Windows!Change(s, k) = V({0, k})
        /\ \A k, w \in Nat : Windows!Momentum(s, w, k) = V({k, w})
        /\ Windows!FullRolling(s, W) = V(0..(W - 1)) /\ Windows!FullRolling(ret, W) = V(0..W)
        /\ Windows!FullRolling(market, W) = Of(rows, n, {}, 0..(W - 1))
        /\ \A k \in 1..(W - 1) : Windows!Autocorrelation(ret, W, k) = V(0..(W + k))
        /\ Windows!Pearson(ret, market, W) = Of(rows, n, 0..W, 0..(W - 1))
        /\ Windows!FullRolling(Windows!Both(ret, Windows!Shift(ret, 1)), W) = V(0..(W + 1))
    BY WindowsRead
  <1>3. \A A \in SUBSET Nat, B \in SUBSET Nat, m \in Nat, a \in Nat : a \in A /\ m - 1 <= a =>
            Windows!Masked(Of(rows, n, A, B), m) = Of(rows, n, A, B)
    BY <1>1, MaskedIsOf
  <1>4. \A A, C \in SUBSET Nat : A # {} /\ C # {} => Windows!Both(V(A), V(C)) = V(A \cup C)
    BY BothAreOf
  <1>5. \A name : name \notin {"corr_mkt", "mutual_info"} => Named(name) = V(Windows!WindowOf(name))
    BY DEF Wide
  <1>6. ASSUME NEW k \in Nat, NEW m \in Nat, m - 1 <= k, NEW j \in Nat
        PROVE  Windows!Masked(V({j, k}), m) = V({j, k})
    <2>1. {j, k} \in SUBSET Nat /\ {} \in SUBSET Nat /\ k \in {j, k}
      OBVIOUS
    <2> HIDE DEF V
    <2> QED
      BY <1>3, <1>6, <2>1 DEF V
  <1>7. ASSUME NEW k \in Nat, NEW m \in Nat, m - 1 <= k PROVE Windows!Masked(V(0..k), m) = V(0..k)
    <2>1. 0..k \in SUBSET Nat /\ {} \in SUBSET Nat /\ k \in 0..k
      OBVIOUS
    <2> HIDE DEF V
    <2> QED
      BY <1>3, <1>7, <2>1 DEF V
  <1>8. W - 1 \in Nat /\ W + 1 \in Nat /\ W + 2 \in Nat /\ W + Lag \in Nat /\ W \in Nat
    BY <1>1
  <1>9. Windows!Both(s, Windows!FullRolling(s, W)) = V(0..(W - 1))
    <2>1. {0} \cup (0..(W - 1)) = 0..(W - 1) /\ {0} \in SUBSET Nat /\ 0..(W - 1) \in SUBSET Nat /\ 0 \in 0..(W - 1)
      BY <1>1
    <2> HIDE DEF V, s
    <2> QED
      BY <1>2, <1>4, <2>1
  <1> HIDE DEF s, market, ret, V
  <1>10. AreNamed(Windows!MomentumContracts(s), rows, n)
    <2> DEFINE c1 == Windows!Masked(Windows!Change(s, W), W)
               c2 == Windows!Masked(Windows!Change(s, 1), 1)
               c3 == Windows!Masked(Windows!Momentum(s, W, 0), W)
               c4 == Windows!Masked(Windows!Momentum(s, W, Lag), W)
    <2>1. c1 = V({0, W}) /\ c2 = V({0, 1}) /\ c3 = V({0, W}) /\ c4 = V({Lag, W})
      <3>1. W - 1 <= W /\ 1 - 1 <= 1 /\ 0 \in Nat /\ 1 \in Nat
        BY <1>1
      <3>2. Windows!Masked(V({0, W}), W) = V({0, W}) /\ Windows!Masked(V({Lag, W}), W) = V({Lag, W})
        BY <1>1, <1>6, <1>8, <3>1
      <3>3. Windows!Masked(V({0, 1}), 1) = V({0, 1})
        BY <1>6, <3>1
      <3>4. Windows!Change(s, W) = V({0, W}) /\ Windows!Change(s, 1) = V({0, 1})
        BY <1>2, <1>8, <3>1
      <3>5. Windows!Momentum(s, W, 0) = V({0, W}) /\ Windows!Momentum(s, W, Lag) = V({Lag, W})
        BY <1>1, <1>2, <1>8, <3>1
      <3> QED
        BY <3>2, <3>3, <3>4, <3>5
    <2>2. Windows!MomentumContracts(s) = [ret |-> c1, logret |-> c2, roc |-> c1, mom |-> c3, mom_skip |-> c4]
      BY DEF Windows!MomentumContracts
    <2> HIDE DEF c1, c2, c3, c4
    <2>3. c1 = Named("ret") /\ c2 = Named("logret") /\ c1 = Named("roc") /\ c3 = Named("mom") /\ c4 = Named("mom_skip")
      BY <1>5, <2>1, NamesAndWindows
    <2> QED
      BY <2>2, <2>3 DEF AreNamed, IsNamed
  <1>11. AreNamed(Windows!PriceContracts(s), rows, n)
    <2> DEFINE c1 == Windows!Masked(Windows!MaRatio(s, W), W)
               c2 == Windows!Masked(Windows!Both(s, Windows!Ema(s, W)), W)
               c3 == Windows!Masked(Windows!ZScore(s, W), W)
               c4 == Windows!Masked(Windows!Change(s, W), W)
               c5 == Windows!Masked(Windows!VwapDeviation(s, W), W)
               c6 == Windows!RegressionResidual(s, W)
    <2>1. c4 = V({0, W}) /\ c5 = V(0..(W - 1)) /\ c6 = V(0..(W - 1))
      <3>1. W - 1 <= W /\ 0 \in Nat /\ W - 1 <= W - 1
        BY <1>1
      <3>2. c4 = V({0, W})
        <4>1. Windows!Masked(V({0, W}), W) = V({0, W})
          BY <1>6, <1>8, <3>1
        <4>2. Windows!Change(s, W) = V({0, W})
          BY <1>2, <1>8
        <4> QED
          BY <4>1, <4>2
      <3> QED
        BY <1>2, <1>7, <1>8, <1>9, <3>1, <3>2 DEF Windows!VwapDeviation, Windows!RegressionResidual
    <2>2. Windows!PriceContracts(s)
              = [ma_dist |-> c1, ema_dist |-> c2, zscore |-> c3, reversal |-> c4, vwap_dev |-> c5, resid |-> c6]
      BY DEF Windows!PriceContracts
    <2> HIDE DEF c1, c2, c3, c4, c5, c6
    <2>3. /\ c4 = Named("reversal") /\ c5 = Named("vwap_dev") /\ c6 = Named("resid")
          /\ "ma_dist" \in Exempt /\ "ema_dist" \in Exempt /\ "zscore" \in Exempt
      BY <1>5, <2>1, NamesAndWindows
    <2> QED
      BY <2>2, <2>3 DEF AreNamed, IsNamed
  <1>12. AreNamed(Windows!CrossSectionalContracts(s), rows, n)
    <2> DEFINE c1 == Windows!Masked(Windows!Momentum(s, W, 0), W)
    <2>1. c1 = V({0, W})
      <3>1. W - 1 <= W /\ 0 \in Nat
        BY <1>1
      <3>2. Windows!Masked(V({0, W}), W) = V({0, W})
        BY <1>6, <1>8, <3>1
      <3>3. Windows!Momentum(s, W, 0) = V({0, W})
        BY <1>2, <1>8, <3>1
      <3> QED
        BY <3>2, <3>3
    <2>2. Windows!CrossSectionalContracts(s) = [cs_rank_mom |-> c1, cs_z_mom |-> c1]
      BY DEF Windows!CrossSectionalContracts
    <2> HIDE DEF c1
    <2>3. c1 = Named("cs_rank_mom") /\ c1 = Named("cs_z_mom")
      BY <1>5, <2>1, NamesAndWindows
    <2> QED
      BY <2>2, <2>3 DEF AreNamed, IsNamed
  <1>13. AreNamed(Windows!VolatilityContracts(s), rows, n)
    <2> DEFINE c1 == Windows!Masked(Windows!FullRolling(s, W), W)
               c2 == Windows!Masked(Windows!Smoothed(Windows!Change(s, 1), W), W)
    <2>1. c1 = V(0..(W - 1))
      BY <1>2, <1>7, <1>8
    <2>2. Windows!VolatilityContracts(s)
              = [parkinson |-> c1, garman_klass |-> c1, rogers_satchell |-> c1, ewma_vol |-> c2]
      BY DEF Windows!VolatilityContracts
    <2> HIDE DEF c1, c2
    <2>3. c1 = Named("parkinson") /\ c1 = Named("garman_klass") /\ c1 = Named("rogers_satchell") /\ "ewma_vol" \in Exempt
      BY <1>5, <2>1, NamesAndWindows
    <2> QED
      BY <2>2, <2>3 DEF AreNamed, IsNamed
  <1>14. AreNamed(Windows!DistributionContracts(s), rows, n)
    <2> DEFINE c1 == Windows!Masked(Windows!FullRolling(ret, W), W)
    <2>1. c1 = V(0..W)
      <3>1. W - 1 <= W
        BY <1>1
      <3> QED
        BY <1>2, <1>7, <1>8, <3>1
    <2>2. Windows!DistributionContracts(s) = [name \in {"skew", "kurt", "downside_dev", "mad"} |-> c1]
      BY DEF Windows!DistributionContracts, ret
    <2> HIDE DEF c1
    <2>3. \A name \in {"skew", "kurt", "downside_dev", "mad"} : c1 = Named(name)
      BY <1>5, <2>1, NamesAndWindows
    <2> QED
      BY <2>2, <2>3 DEF AreNamed, IsNamed
  <1>15. AreNamed(Windows!DependenceContracts(s), rows, n)
    <2> DEFINE c1 == Windows!Masked(Windows!Autocorrelation(ret, W, Lag), W + Lag)
               c2 == Windows!Masked(Windows!PartialAutocorrelation(ret, W), W + 2)
               c3 == Windows!Masked(Windows!FullRolling(s, W), W)
               c4 == Windows!Masked(Windows!FullRolling(ret, W), W)
    <2>1. c1 = V(0..(W + Lag)) /\ c3 = V(0..(W - 1)) /\ c4 = V(0..W)
      <3>1. W - 1 <= W /\ W - 1 <= W - 1 /\ W + Lag - 1 <= W + Lag
        BY <1>1
      <3> QED
        BY <1>1, <1>2, <1>7, <1>8, <3>1
    <2>2. c2 = V(0..(W + 2))
      <3>1. /\ (0..(W + 1)) \cup (0..(W + 2)) = 0..(W + 2) /\ 0..(W + 1) \in SUBSET Nat /\ 0..(W + 2) \in SUBSET Nat
            /\ 0 \in 0..(W + 1) /\ 0 \in 0..(W + 2) /\ W + 2 - 1 <= W + 2
        BY <1>1
      <3>2. Windows!Both(V(0..(W + 1)), V(0..(W + 2))) = V(0..(W + 2))
        BY <1>4, <3>1
      <3>3. Windows!PartialAutocorrelation(ret, W) = V(0..(W + 2))
        BY <1>1, <1>2, <3>2 DEF Windows!PartialAutocorrelation
      <3> QED
        BY <1>7, <1>8, <3>1, <3>3
    <2>3. Windows!DependenceContracts(s) = [autocorr |-> c1, pacf |-> c2, hurst |-> c3, var_ratio |-> c4]
      BY DEF Windows!DependenceContracts, ret
    <2> HIDE DEF c1, c2, c3, c4
    <2>4. c1 = Named("autocorr") /\ c2 = Named("pacf") /\ c3 = Named("hurst") /\ c4 = Named("var_ratio")
      BY <1>5, <2>1, <2>2, NamesAndWindows
    <2> QED
      BY <2>3, <2>4 DEF AreNamed, IsNamed
  <1>16. AreNamed(Windows!MarketContracts(s, market), rows, n)
    <2> DEFINE c1 == Windows!Masked(Windows!RollingBeta(ret, market, W), W + 1)
               c2 == Windows!Masked(Windows!Pearson(ret, market, W), W + 1)
               c3 == Windows!Masked(Windows!Both(Windows!FullRolling(ret, W), Windows!FullRolling(market, W)), W + 1)
               wide == Of(rows, n, 0..W, 0..(W - 1))
    <2>1. /\ 0..W \in SUBSET Nat /\ 0..(W - 1) \in SUBSET Nat /\ 0 \in 0..W /\ 0 \in 0..(W - 1)
          /\ W \in 0..W /\ W + 1 - 1 <= W
      BY <1>1
    <2>2. Windows!Masked(wide, W + 1) = wide
      <3>1. \A m, a \in Nat : a \in 0..W /\ m - 1 <= a => Windows!Masked(wide, m) = wide
        BY <1>3, <2>1
      <3> QED
        BY <1>8, <2>1, <3>1
    <2>3. c2 = wide
      BY <1>2, <2>2
    <2>4. c3 = wide
      <3>1. \A A, B \in SUBSET Nat : A # {} /\ B # {} =>
                Windows!Both(Of(rows, n, A, {}), Of(rows, n, {}, B)) = Of(rows, n, A, B)
        BY BothAreOfTheSame
      <3>2. Windows!Both(V(0..W), Of(rows, n, {}, 0..(W - 1))) = wide
        BY <2>1, <3>1 DEF V
      <3> QED
        BY <1>2, <2>2, <3>2
    <2>5. Windows!MarketContracts(s, market) = [beta_mkt |-> c1, corr_mkt |-> c2, mutual_info |-> c3]
      BY DEF Windows!MarketContracts, ret
    <2>6. Named("corr_mkt") = wide /\ Named("mutual_info") = wide /\ "beta_mkt" \in Exempt
      BY NamesAndWindows DEF Wide
    <2> HIDE DEF c1, c2, c3
    <2> QED
      BY <2>3, <2>4, <2>5, <2>6 DEF AreNamed, IsNamed
  <1>17. AreNamed(Windows!VolumeContracts(s), rows, n)
    <2> DEFINE c1 == Windows!Masked(Windows!Change(s, 1), 2)
               c2 == Windows!Masked(Windows!FullRolling(s, W), W)
               c3 == Windows!Masked(Windows!Both(s, Windows!FullRolling(s, W)), W)
    <2>1. c1 = V({0, 1})
      <3>1. 2 - 1 <= 1 /\ 0 \in Nat /\ 1 \in Nat /\ 2 \in Nat
        OBVIOUS
      <3> QED
        BY <1>2, <1>6, <3>1
    <2>2. c2 = V(0..(W - 1)) /\ c3 = V(0..(W - 1))
      BY <1>2, <1>7, <1>8, <1>9
    <2>3. Windows!VolumeContracts(s) = [volume_change |-> c1, dollar_volume |-> c2, rel_volume |-> c3, turnover |-> c2]
      BY DEF Windows!VolumeContracts
    <2> HIDE DEF c1, c2, c3
    <2>4. /\ c1 = Named("volume_change") /\ c2 = Named("dollar_volume")
          /\ c3 = Named("rel_volume") /\ c2 = Named("turnover")
      BY <1>5, <2>1, <2>2, NamesAndWindows
    <2> QED
      BY <2>3, <2>4 DEF AreNamed, IsNamed
  <1>18. AreNamed(Windows!ImpactContracts(s), rows, n)
    <2> DEFINE c1 == Windows!Masked(Windows!Amihud(s, W), W + 1)
               c2 == Windows!Masked(Windows!VolumeImbalance(s, W), W + 1)
               c3 == Windows!Masked(Windows!CorwinSchultz(s, W), W + 1)
               c4 == Windows!Masked(Windows!RollSpread(s, W), W + 2)
    <2>1. Windows!CorwinSchultz(s, W) = V(0..W) /\ Windows!RollSpread(s, W) = V(0..(W + 1))
      BY <1>2 DEF Windows!CorwinSchultz, Windows!RollSpread, Windows!Change, ret
    <2>2. c3 = V(0..W) /\ c4 = V(0..(W + 1))
      <3>1. W + 1 - 1 <= W /\ W + 2 - 1 <= W + 1
        BY <1>1
      <3> QED
        BY <1>7, <1>8, <2>1, <3>1
    <2>3. Windows!ImpactContracts(s)
              = [amihud |-> c1, volume_imbalance |-> c2, corwin_schultz |-> c3, roll_spread |-> c4]
      BY DEF Windows!ImpactContracts
    <2> HIDE DEF c1, c2, c3, c4
    <2>4. /\ c3 = Named("corwin_schultz") /\ c4 = Named("roll_spread")
          /\ "amihud" \in Exempt /\ "volume_imbalance" \in Exempt
      BY <1>5, <2>2, NamesAndWindows
    <2> QED
      BY <2>3, <2>4 DEF AreNamed, IsNamed
  <1>19. Windows!ContractColumns
             = Windows!Beside(Windows!MomentumContracts(s), Windows!Beside(Windows!PriceContracts(s),
               Windows!Beside(Windows!CrossSectionalContracts(s), Windows!Beside(Windows!VolatilityContracts(s),
               Windows!Beside(Windows!DistributionContracts(s), Windows!Beside(Windows!DependenceContracts(s),
               Windows!Beside(Windows!MarketContracts(s, market), Windows!Beside(Windows!VolumeContracts(s),
               Windows!ImpactContracts(s)))))))))
    BY DEF Windows!ContractColumns, s, market
  <1> QED
    BY <1>10, <1>11, <1>12, <1>13, <1>14, <1>15, <1>16, <1>17, <1>18, <1>19, BesideIsNamed

-----------------------------------------------------------------------------
\* Columns of the first m rows are the first m rows of the columns.

Series(n) == [1..n -> SUBSET Nat]
Prefix(s, m) == [i \in 1..m |-> s[i]]

LEMMA PrefixOperations ==
    ASSUME NEW n \in Nat, NEW m \in 0..n
    PROVE  /\ \A a, b \in Series(n) : /\ Windows!Both(a, b) \in Series(n)
                                      /\ Prefix(Windows!Both(a, b), m) = Windows!Both(Prefix(a, m), Prefix(b, m))
           /\ \A a \in Series(n), k \in Nat : /\ Windows!Shift(a, k) \in Series(n)
                                              /\ Prefix(Windows!Shift(a, k), m) = Windows!Shift(Prefix(a, m), k)
           /\ \A a \in Series(n), w, least \in Nat :
                  /\ Windows!Rolling(a, w, least) \in Series(n)
                  /\ Prefix(Windows!Rolling(a, w, least), m) = Windows!Rolling(Prefix(a, m), w, least)
           /\ \A a \in Series(n), least \in Nat :
                  /\ Windows!Smoothed(a, least) \in Series(n)
                  /\ Prefix(Windows!Smoothed(a, least), m) = Windows!Smoothed(Prefix(a, m), least)
  <1>1. m \in Nat /\ \A i \in 1..m : i \in 1..n
    OBVIOUS
  <1>2. \A a \in Series(n) : a \in [1..n -> SUBSET Nat] /\ DOMAIN a = 1..n /\ Prefix(a, m) \in Series(m)
                             /\ DOMAIN Prefix(a, m) = 1..m /\ \A i \in 1..m : Prefix(a, m)[i] = a[i]
    BY <1>1 DEF Series, Prefix
  <1>3. ASSUME NEW a \in Series(n), NEW b \in Series(n)
        PROVE  /\ Windows!Both(a, b) \in Series(n)
               /\ Prefix(Windows!Both(a, b), m) = Windows!Both(Prefix(a, m), Prefix(b, m))
    BY <1>1, <1>2 DEF Series, Prefix, Windows!Both, Windows!NaN
  <1>4. ASSUME NEW a \in Series(n), NEW k \in Nat
        PROVE  /\ Windows!Shift(a, k) \in Series(n)
               /\ Prefix(Windows!Shift(a, k), m) = Windows!Shift(Prefix(a, m), k)
    <2>1. Windows!Shift(a, k) = [i \in 1..n |-> IF i - k \in 1..n THEN a[i - k] ELSE {}]
      BY <1>2 DEF Windows!Shift, Windows!NaN
    <2>2. Windows!Shift(Prefix(a, m), k) = [i \in 1..m |-> IF i - k \in 1..m THEN Prefix(a, m)[i - k] ELSE {}]
      BY <1>2 DEF Windows!Shift, Windows!NaN
    <2>3. \A i \in 1..m : i - k \in 1..n <=> i - k \in 1..m
      OBVIOUS
    <2>4. Windows!Shift(a, k) \in Series(n)
      BY <1>2, <2>1 DEF Series
    <2>5. Prefix(Windows!Shift(a, k), m) = [i \in 1..m |-> IF i - k \in 1..n THEN a[i - k] ELSE {}]
      BY <1>1, <2>1 DEF Prefix
    <2>6. \A i \in 1..m : (IF i - k \in 1..n THEN a[i - k] ELSE {}) = IF i - k \in 1..m THEN Prefix(a, m)[i - k] ELSE {}
      BY <1>2, <2>3
    <2> QED
      BY <2>2, <2>4, <2>5, <2>6
  <1> DEFINE Seen(a, from, i, k) == {j \in from..i \cap 1..k : a[j] # {}}
             Rolled(a, from, i, k, least) ==
                 IF Cardinality(Seen(a, from, i, k)) >= least THEN UNION {a[j] : j \in Seen(a, from, i, k)} ELSE {}
  <1>5. ASSUME NEW a \in Series(n), NEW w \in Nat, NEW least \in Nat
        PROVE  /\ Windows!Rolling(a, w, least) = [i \in 1..n |-> Rolled(a, i - w + 1, i, n, least)]
               /\ Windows!Rolling(Prefix(a, m), w, least) = [i \in 1..m |-> Rolled(Prefix(a, m), i - w + 1, i, m, least)]
    BY <1>2, SameWindowsCardinality DEF Windows!Rolling, Windows!NaN
  <1>6. ASSUME NEW a \in Series(n), NEW from \in Int, NEW i \in 1..n, NEW least PROVE Rolled(a, from, i, n, least) \in SUBSET Nat
    <2>1. \A j \in Seen(a, from, i, n) : a[j] \in SUBSET Nat
      BY <1>2
    <2> HIDE DEF Seen
    <2> QED
      BY <2>1
  <1>7. ASSUME NEW a \in Series(n), NEW from \in Int, NEW i \in 1..m, NEW least
        PROVE  Rolled(Prefix(a, m), from, i, m, least) = Rolled(a, from, i, n, least)
    <2>1. Seen(Prefix(a, m), from, i, m) = Seen(a, from, i, n)
      BY <1>1, <1>2
    <2>2. \A j \in Seen(a, from, i, n) : Prefix(a, m)[j] = a[j]
      BY <1>2
    <2> HIDE DEF Seen
    <2>3. {Prefix(a, m)[j] : j \in Seen(a, from, i, n)} = {a[j] : j \in Seen(a, from, i, n)}
      BY <2>2
    <2> QED
      BY <2>1, <2>3
  <1>8. ASSUME NEW a \in Series(n), NEW i \in 1..m, NEW least PROVE Rolled(a, i - m + 1, i, n, least) = Rolled(a, i - n + 1, i, n, least)
    <2>1. Seen(a, i - m + 1, i, n) = Seen(a, i - n + 1, i, n)
      OBVIOUS
    <2> HIDE DEF Seen
    <2> QED
      BY <2>1
  <1> HIDE DEF Rolled, Seen
  <1>9. ASSUME NEW a \in Series(n), NEW w \in Nat, NEW least \in Nat
        PROVE  /\ Windows!Rolling(a, w, least) \in Series(n)
               /\ Prefix(Windows!Rolling(a, w, least), m) = Windows!Rolling(Prefix(a, m), w, least)
    <2> DEFINE f(i) == Rolled(a, i - w + 1, i, n, least)
               g(i) == Rolled(Prefix(a, m), i - w + 1, i, m, least)
    <2>1. ASSUME NEW i \in 1..n PROVE f(i) \in SUBSET Nat
      <3>1. i - w + 1 \in Int
        OBVIOUS
      <3> QED
        BY <1>6, <3>1
    <2>2. ASSUME NEW i \in 1..m PROVE g(i) = f(i)
      <3>1. i - w + 1 \in Int
        OBVIOUS
      <3> QED
        BY <1>7, <3>1
    <2>3. /\ Windows!Rolling(a, w, least) = [i \in 1..n |-> f(i)]
          /\ Windows!Rolling(Prefix(a, m), w, least) = [i \in 1..m |-> g(i)]
      BY <1>5
    <2> HIDE DEF f, g
    <2>4. Windows!Rolling(a, w, least) \in Series(n)
      BY <2>1, <2>3 DEF Series
    <2>5. Prefix(Windows!Rolling(a, w, least), m) = [i \in 1..m |-> f(i)]
      BY <1>1, <2>3 DEF Prefix
    <2> QED
      BY <2>2, <2>3, <2>4, <2>5
  <1>10. ASSUME NEW a \in Series(n), NEW least \in Nat
         PROVE  /\ Windows!Smoothed(a, least) \in Series(n)
                /\ Prefix(Windows!Smoothed(a, least), m) = Windows!Smoothed(Prefix(a, m), least)
    <2>1. Len(a) = n /\ Len(Prefix(a, m)) = m
      BY <1>1, <1>2 DEF Series
    <2>2. /\ Windows!Smoothed(a, least) = Windows!Rolling(a, n, least)
          /\ Windows!Smoothed(Prefix(a, m), least) = Windows!Rolling(Prefix(a, m), m, least)
      BY <2>1 DEF Windows!Smoothed
    <2>3. Prefix(Windows!Rolling(a, m, least), m) = Windows!Rolling(Prefix(a, m), m, least)
      BY <1>1, <1>9
    <2>4. /\ Windows!Rolling(a, m, least) = [i \in 1..n |-> Rolled(a, i - m + 1, i, n, least)]
          /\ Windows!Rolling(a, n, least) = [i \in 1..n |-> Rolled(a, i - n + 1, i, n, least)]
      BY <1>1, <1>5
    <2>5. \A i \in 1..m : Rolled(a, i - m + 1, i, n, least) = Rolled(a, i - n + 1, i, n, least)
      BY <1>8
    <2>6. Prefix(Windows!Rolling(a, m, least), m) = Prefix(Windows!Rolling(a, n, least), m)
      BY <1>1, <2>4, <2>5 DEF Prefix
    <2> QED
      BY <1>9, <2>2, <2>3, <2>6
  <1> QED
    BY <1>3, <1>4, <1>9, <1>10

LEMMA PrefixPrimitives ==
    ASSUME NEW n \in Nat, NEW m \in 0..n
    PROVE  LET S == Series(n) IN
           /\ \A a \in S, w \in Nat : /\ Windows!PartRolling(a, w) \in S
                                      /\ Prefix(Windows!PartRolling(a, w), m) = Windows!PartRolling(Prefix(a, m), w)
           /\ \A a \in S, k \in Nat : /\ Windows!Change(a, k) \in S /\ Windows!Ema(a, k) \in S
                                      /\ Prefix(Windows!Change(a, k), m) = Windows!Change(Prefix(a, m), k)
                                      /\ Prefix(Windows!Ema(a, k), m) = Windows!Ema(Prefix(a, m), k)
           /\ \A a \in S, w, k \in Nat : /\ Windows!Momentum(a, w, k) \in S
                                         /\ Prefix(Windows!Momentum(a, w, k), m) = Windows!Momentum(Prefix(a, m), w, k)
           /\ \A a, b \in S, w \in Nat : /\ Windows!RollingBeta(a, b, w) \in S
                                         /\ Prefix(Windows!RollingBeta(a, b, w), m) = Windows!RollingBeta(Prefix(a, m), Prefix(b, m), w)
  <1> DEFINE S == Series(n)
  <1>1. /\ \A a, b \in S : Windows!Both(a, b) \in S /\ Prefix(Windows!Both(a, b), m) = Windows!Both(Prefix(a, m), Prefix(b, m))
        /\ \A a \in S, k \in Nat : Windows!Shift(a, k) \in S /\ Prefix(Windows!Shift(a, k), m) = Windows!Shift(Prefix(a, m), k)
        /\ \A a \in S, w, least \in Nat :
               /\ Windows!Rolling(a, w, least) \in S
               /\ Prefix(Windows!Rolling(a, w, least), m) = Windows!Rolling(Prefix(a, m), w, least)
        /\ \A a \in S, least \in Nat :
               /\ Windows!Smoothed(a, least) \in S
               /\ Prefix(Windows!Smoothed(a, least), m) = Windows!Smoothed(Prefix(a, m), least)
    BY PrefixOperations
  <1> HIDE DEF S
  <1>2. \A a \in S, w \in Nat : /\ Windows!PartRolling(a, w) \in S
                                /\ Prefix(Windows!PartRolling(a, w), m) = Windows!PartRolling(Prefix(a, m), w)
    BY <1>1, HalfWindow DEF Windows!PartRolling
  <1>3. \A a \in S, k \in Nat : /\ Windows!Change(a, k) \in S /\ Windows!Ema(a, k) \in S
                                /\ Prefix(Windows!Change(a, k), m) = Windows!Change(Prefix(a, m), k)
                                /\ Prefix(Windows!Ema(a, k), m) = Windows!Ema(Prefix(a, m), k)
    <2>1. ASSUME NEW a \in S, NEW k \in Nat
          PROVE  Windows!Change(a, k) \in S /\ Prefix(Windows!Change(a, k), m) = Windows!Change(Prefix(a, m), k)
      BY <1>1 DEF Windows!Change
    <2>2. ASSUME NEW a \in S, NEW k \in Nat
          PROVE  Windows!Ema(a, k) \in S /\ Prefix(Windows!Ema(a, k), m) = Windows!Ema(Prefix(a, m), k)
      BY <1>1, HalfWindow DEF Windows!Ema
    <2> QED
      BY <2>1, <2>2
  <1>4. \A a \in S, w, k \in Nat : /\ Windows!Momentum(a, w, k) \in S
                                   /\ Prefix(Windows!Momentum(a, w, k), m) = Windows!Momentum(Prefix(a, m), w, k)
    BY <1>1 DEF Windows!Momentum
  <1>5. \A a, b \in S, w \in Nat :
            /\ Windows!RollingBeta(a, b, w) \in S
            /\ Prefix(Windows!RollingBeta(a, b, w), m) = Windows!RollingBeta(Prefix(a, m), Prefix(b, m), w)
    BY <1>1, <1>2 DEF Windows!RollingBeta
  <1> QED
    BY <1>2, <1>3, <1>4, <1>5 DEF S

-----------------------------------------------------------------------------
\* A partition has the values of the whole panel, if the asset has a row on every date.

\* Every date has its row, and the i-th row is of date i.
LEMMA RowsWithoutHoles ==
    ASSUME holes = {}, NEW to \in Nat
    PROVE  Windows!RowsOf(1, to) = [i \in 1..to |-> i] /\ IsRows(Windows!RowsOf(1, to), to)
  <1>1. (1..to) \ holes = 1..to /\ Cardinality(1..to) = to /\ IsFiniteSet(1..to)
    <2>1. (1..to) \ holes = 1..to
      OBVIOUS
    <2>2. IsFiniteSet(1..to) /\ Cardinality(1..to) = to
      BY FS_Interval
    <2> QED
      BY <2>1, <2>2
  <1>2. ASSUME NEW d \in 1..to PROVE Cardinality({e \in 1..to : e < d}) = d - 1
    <2>1. {e \in 1..to : e < d} = 1..(d - 1)
      OBVIOUS
    <2>2. Cardinality(1..(d - 1)) = d - 1
      <3>1. 1 \in Int /\ d - 1 \in Int /\ (d - 1) - 1 + 1 = d - 1 /\ (1 > d - 1 => d - 1 = 0)
        OBVIOUS
      <3> QED
        BY <3>1, FS_Interval
    <2> QED
      BY <2>1, <2>2
  <1>3. Windows!RowsOf(1, to) = [i \in 1..to |-> CHOOSE d \in 1..to : Cardinality({e \in 1..to : e < d}) = i - 1]
    <2>1. Windows!RowsOf(1, to) = Windows!InOrder(1..to)
      BY <1>1 DEF Windows!RowsOf
    <2>2. Windows!InOrder(1..to)
              = [i \in 1..Windows!Cardinality(1..to) |->
                    CHOOSE d \in 1..to : Windows!Cardinality({e \in 1..to : e < d}) = i - 1]
      BY DEF Windows!InOrder
    <2>3. \A d : Windows!Cardinality({e \in 1..to : e < d}) = Cardinality({e \in 1..to : e < d})
      BY SameWindowsCardinality
    <2>4. Windows!Cardinality(1..to) = to
      BY <1>1, SameWindowsCardinality
    <2> QED
      BY <2>1, <2>2, <2>3, <2>4, ZenonT(40)
  <1>4. ASSUME NEW i \in 1..to PROVE Windows!RowsOf(1, to)[i] = i
    <2> DEFINE Is(d) == Cardinality({e \in 1..to : e < d}) = i - 1
    <2>1. Is(i) /\ \A d \in 1..to : Is(d) => d = i
      BY <1>2
    <2>2. Windows!RowsOf(1, to)[i] = CHOOSE d \in 1..to : Is(d)
      BY <1>3
    <2> HIDE DEF Is
    <2> QED
      BY <2>1, <2>2
  <1>5. Windows!RowsOf(1, to) = [i \in 1..to |-> i]
    BY <1>3, <1>4
  <1>6. IsRows([i \in 1..to |-> i], to)
    <2>1. [i \in 1..to |-> i] \in [1..to -> Nat \ {0}]
      OBVIOUS
    <2>2. Len([i \in 1..to |-> i]) = to
      BY <2>1
    <2> QED
      BY <2>1, <2>2 DEF IsRows
  <1> QED
    BY <1>5, <1>6

\* Tables of which one has the first m rows of the other's columns.
Begins(t, u, m) == DOMAIN u = DOMAIN t /\ \A k \in DOMAIN t : u[k] = Prefix(t[k], m)

LEMMA BesideBegins ==
    ASSUME NEW m, NEW f, NEW g, NEW u, NEW v, Begins(f, u, m), Begins(g, v, m)
    PROVE  Begins(Windows!Beside(f, g), Windows!Beside(u, v), m)
  BY DEF Begins, Windows!Beside

LEMMA TechnicalColumnsBegin ==
    ASSUME NEW n \in Nat, NEW m \in 0..n, NEW s \in Series(n), NEW ret \in Series(n)
    PROVE  Begins(Windows!TechnicalColumns(s, ret), Windows!TechnicalColumns(Prefix(s, m), Prefix(ret, m)), m)
  <1> DEFINE S == Series(n)
             c3(a) == Windows!Change(a, W)
             c4(b) == Windows!PartRolling(b, W)
             c5(a) == Windows!MaRatio(a, W)
             c6(a) == Windows!Both(a, Windows!Ema(a, W))
             c7(a) == Windows!Rsi(a, W)
             c8(a) == Windows!MacdLine(a, W - 1, W)
             c9(a) == Windows!MacdSignal(a, W - 1, W, W - 1)
             c10(a) == Windows!Bollinger(a, W)
             c11(a) == Windows!Momentum(a, W, 0)
             p == Prefix(s, m)
             q == Prefix(ret, m)
  <1>1. W \in Nat /\ W - 1 \in Nat /\ 0 \in Nat /\ 1 \in Nat
    BY WindowsAssumption
  <1>2. /\ \A a, b \in S : Windows!Both(a, b) \in S /\ Prefix(Windows!Both(a, b), m) = Windows!Both(Prefix(a, m), Prefix(b, m))
        /\ \A a \in S, least \in Nat :
               /\ Windows!Smoothed(a, least) \in S
               /\ Prefix(Windows!Smoothed(a, least), m) = Windows!Smoothed(Prefix(a, m), least)
    BY PrefixOperations
  <1>3. /\ \A a \in S, w \in Nat : /\ Windows!PartRolling(a, w) \in S
                                   /\ Prefix(Windows!PartRolling(a, w), m) = Windows!PartRolling(Prefix(a, m), w)
        /\ \A a \in S, k \in Nat : /\ Windows!Change(a, k) \in S /\ Windows!Ema(a, k) \in S
                                   /\ Prefix(Windows!Change(a, k), m) = Windows!Change(Prefix(a, m), k)
                                   /\ Prefix(Windows!Ema(a, k), m) = Windows!Ema(Prefix(a, m), k)
        /\ \A a \in S, w, k \in Nat : /\ Windows!Momentum(a, w, k) \in S
                                      /\ Prefix(Windows!Momentum(a, w, k), m) = Windows!Momentum(Prefix(a, m), w, k)
        /\ \A a, b \in S, w \in Nat : /\ Windows!RollingBeta(a, b, w) \in S
                                      /\ Prefix(Windows!RollingBeta(a, b, w), m) = Windows!RollingBeta(Prefix(a, m), Prefix(b, m), w)
    BY PrefixPrimitives
  <1> HIDE DEF S
  <1>4. s \in S /\ ret \in S
    BY DEF S
  <1>5. Prefix(c3(s), m) = c3(p) /\ Prefix(c4(ret), m) = c4(q) /\ Prefix(c11(s), m) = c11(p)
    BY <1>1, <1>3, <1>4
  <1>6. Prefix(c5(s), m) = c5(p) /\ Prefix(c10(s), m) = c10(p)
    BY <1>1, <1>2, <1>3, <1>4 DEF Windows!MaRatio, Windows!Bollinger
  <1>7. Prefix(c6(s), m) = c6(p) /\ Prefix(c7(s), m) = c7(p)
    <2>1. /\ Windows!Ema(s, W) \in S /\ Prefix(Windows!Ema(s, W), m) = Windows!Ema(p, W)
          /\ Windows!Change(s, 1) \in S /\ Prefix(Windows!Change(s, 1), m) = Windows!Change(p, 1)
      BY <1>1, <1>3, <1>4
    <2>2. Prefix(c6(s), m) = c6(p)
      BY <1>2, <1>4, <2>1
    <2>3. Prefix(c7(s), m) = c7(p)
      BY <1>1, <1>2, <2>1 DEF Windows!Rsi
    <2> QED
      BY <2>2, <2>3
  <1>8. Prefix(c8(s), m) = c8(p) /\ c8(s) \in S
    <2>1. /\ Windows!Ema(s, W) \in S /\ Prefix(Windows!Ema(s, W), m) = Windows!Ema(p, W)
          /\ Windows!Ema(s, W - 1) \in S /\ Prefix(Windows!Ema(s, W - 1), m) = Windows!Ema(p, W - 1)
      BY <1>1, <1>3, <1>4
    <2> QED
      BY <1>2, <2>1 DEF Windows!MacdLine
  <1>9. Prefix(c9(s), m) = c9(p)
    BY <1>1, <1>2, <1>8 DEF Windows!MacdSignal
  <1>10. ASSUME NEW a, NEW b
         PROVE  Windows!TechnicalColumns(a, b)
                    = [f_ret_1d |-> b, f_logret_1d |-> b, f_ret_5d |-> c3(a), f_vol |-> c4(b), f_realized_vol |-> c4(b),
                       f_sharpe |-> c4(b), f_ma_ratio |-> c5(a), f_ema_ratio |-> c6(a), f_rsi |-> c7(a), f_macd |-> c8(a),
                       f_macd_signal |-> c9(a), f_bb_pctb |-> c10(a), f_mom |-> c11(a)]
    BY DEF Windows!TechnicalColumns
  <1> HIDE DEF c3, c4, c5, c6, c7, c8, c9, c10, c11
  <1> QED
    BY <1>5, <1>6, <1>7, <1>8, <1>9, <1>10 DEF Begins

LEMMA RiskColumnsBegin ==
    ASSUME NEW n \in Nat, NEW m \in 0..n, NEW s \in Series(n), NEW ret \in Series(n), NEW market \in Series(n)
    PROVE  Begins(Windows!RiskColumns(s, ret, market),
                  Windows!RiskColumns(Prefix(s, m), Prefix(ret, m), Prefix(market, m)), m)
  <1> DEFINE S == Series(n)
             c1(a) == Windows!Momentum(a, W, Lag)
             c2(a) == Windows!Change(a, W)
             c3(a) == Windows!ZScore(a, W)
             c4(a) == Windows!Both(a, Windows!PartRolling(a, W))
             c5(b, c) == Windows!RollingBeta(b, c, W)
             c6(a) == Windows!Drawdown(a)
             c7(a) == Windows!PartRolling(a, W)
             p == Prefix(s, m)
             q == Prefix(ret, m)
             o == Prefix(market, m)
  <1>1. W \in Nat /\ Lag \in Nat /\ 1 \in Nat
    BY WindowsAssumption
  <1>2. /\ \A a, b \in S : Windows!Both(a, b) \in S /\ Prefix(Windows!Both(a, b), m) = Windows!Both(Prefix(a, m), Prefix(b, m))
        /\ \A a \in S, least \in Nat :
               /\ Windows!Smoothed(a, least) \in S
               /\ Prefix(Windows!Smoothed(a, least), m) = Windows!Smoothed(Prefix(a, m), least)
    BY PrefixOperations
  <1>3. /\ \A a \in S, w \in Nat : /\ Windows!PartRolling(a, w) \in S
                                   /\ Prefix(Windows!PartRolling(a, w), m) = Windows!PartRolling(Prefix(a, m), w)
        /\ \A a \in S, k \in Nat : /\ Windows!Change(a, k) \in S /\ Windows!Ema(a, k) \in S
                                   /\ Prefix(Windows!Change(a, k), m) = Windows!Change(Prefix(a, m), k)
                                   /\ Prefix(Windows!Ema(a, k), m) = Windows!Ema(Prefix(a, m), k)
        /\ \A a \in S, w, k \in Nat : /\ Windows!Momentum(a, w, k) \in S
                                      /\ Prefix(Windows!Momentum(a, w, k), m) = Windows!Momentum(Prefix(a, m), w, k)
        /\ \A a, b \in S, w \in Nat : /\ Windows!RollingBeta(a, b, w) \in S
                                      /\ Prefix(Windows!RollingBeta(a, b, w), m) = Windows!RollingBeta(Prefix(a, m), Prefix(b, m), w)
    BY PrefixPrimitives
  <1> HIDE DEF S
  <1>4. s \in S /\ ret \in S /\ market \in S
    BY DEF S
  <1>5. Prefix(c1(s), m) = c1(p) /\ Prefix(c2(s), m) = c2(p) /\ Prefix(c5(ret, market), m) = c5(q, o) /\ Prefix(c7(s), m) = c7(p)
    BY <1>1, <1>3, <1>4, ZenonT(40)
  <1>6. Prefix(c3(s), m) = c3(p) /\ Prefix(c4(s), m) = c4(p)
    BY <1>1, <1>2, <1>3, <1>4 DEF Windows!ZScore
  <1>7. Prefix(c6(s), m) = c6(p)
    BY <1>1, <1>2, <1>4 DEF Windows!Drawdown
  <1>8. ASSUME NEW a, NEW b, NEW c
        PROVE  Windows!RiskColumns(a, b, c)
                   = [f_mom_12_1 |-> c1(a), f_reversal_5 |-> c2(a), f_zscore_21 |-> c3(a), f_log_dollar_volume |-> a,
                      f_volume_zscore |-> c3(a), f_relative_volume |-> c4(a), f_beta |-> c5(b, c),
                      f_drawdown |-> c6(a), f_max_dd |-> c7(a)]
    BY DEF Windows!RiskColumns
  <1> HIDE DEF c1, c2, c3, c4, c5, c6, c7
  <1> QED
    BY <1>5, <1>6, <1>7, <1>8 DEF Begins
\* The label of a row whose future the prefix holds.
LEMMA LabelBegins ==
    ASSUME NEW n \in Nat, NEW m \in 0..n, NEW s \in Series(n), NEW i \in 1..m, i + Horizon \in 1..m
    PROVE  Windows!Label(Prefix(s, m))[i] = Windows!Label(s)[i]
  <1>1. i \in 1..n /\ i + Horizon \in 1..n /\ Horizon \in Nat /\ i - (-Horizon) = i + Horizon
    BY WindowsAssumption
  <1>2. DOMAIN s = 1..n /\ DOMAIN Prefix(s, m) = 1..m /\ Prefix(s, m)[i] = s[i] /\ Prefix(s, m)[i + Horizon] = s[i + Horizon]
    BY DEF Series, Prefix
  <1>3. ASSUME NEW k, NEW a, DOMAIN a = 1..k, i \in 1..k, i + Horizon \in 1..k
        PROVE  Windows!Label(a)[i] = IF a[i + Horizon] = {} \/ a[i] = {} THEN {} ELSE a[i + Horizon] \cup a[i]
    <2> DEFINE b == Windows!Shift(a, -Horizon)
    <2>1. DOMAIN b = 1..k /\ b[i] = a[i + Horizon]
      BY <1>1, <1>3 DEF Windows!Shift
    <2> HIDE DEF b
    <2> QED
      BY <1>3, <2>1 DEF Windows!Label, Windows!Both, Windows!NaN, b
  <1>4. Windows!Label(s)[i] = IF s[i + Horizon] = {} \/ s[i] = {} THEN {} ELSE s[i + Horizon] \cup s[i]
    BY <1>1, <1>2, <1>3
  <1>5. Windows!Label(Prefix(s, m))[i]
            = IF Prefix(s, m)[i + Horizon] = {} \/ Prefix(s, m)[i] = {} THEN {} ELSE Prefix(s, m)[i + Horizon] \cup Prefix(s, m)[i]
    BY <1>2, <1>3
  <1> QED
    BY <1>2, <1>4, <1>5

LEMMA ColumnsOfPartition ==
    ASSUME holes = {}, NEW to \in 1..Last
    PROVE  LET c == Windows!PipelineColumns(Windows!RowsOf(1, to))
               u == Windows!PipelineColumns(Windows!RowsOf(1, Last))
           IN  /\ DOMAIN c = DOMAIN u
               /\ \A k \in DOMAIN u : k # "target" => \A i \in 1..to : c[k][i] = u[k][i]
               /\ \A i \in 1..to : i + Horizon <= to => c["target"][i] = u["target"][i]
  <1> DEFINE rows == Windows!RowsOf(1, to)
             all == Windows!RowsOf(1, Last)
             s == Windows!Observed(all)
             market == Windows!Market(all)
             ret == Windows!Change(s, 1)
             c == Windows!PipelineColumns(rows)
             u == Windows!PipelineColumns(all)
  <1>1. Last \in Nat /\ to \in Nat /\ to \in 0..Last /\ Horizon \in Nat /\ 1 \in Nat /\ \A i \in 1..to : i \in 1..Last
    BY WindowsAssumption
  <1>2. /\ rows = [i \in 1..to |-> i] /\ Len(rows) = to
        /\ all = [i \in 1..Last |-> i] /\ Len(all) = Last
    <2>1. \A k \in Nat : Windows!RowsOf(1, k) = [i \in 1..k |-> i] /\ IsRows(Windows!RowsOf(1, k), k)
      BY RowsWithoutHoles
    <2> QED
      BY <1>1, <2>1 DEF IsRows
  <1> HIDE DEF rows, all
  <1>3. /\ s = [i \in 1..Last |-> IF i \in gaps THEN {} ELSE {i}]
        /\ Windows!Observed(rows) = [i \in 1..to |-> IF i \in gaps THEN {} ELSE {i}]
        /\ market = [i \in 1..Last |-> IF i = 1 THEN {} ELSE {i - 1, i}]
        /\ Windows!Market(rows) = [i \in 1..to |-> IF i = 1 THEN {} ELSE {i - 1, i}]
    BY <1>2 DEF Windows!Observed, Windows!Market, Windows!NaN
  <1>4. /\ s \in Series(Last) /\ market \in Series(Last)
        /\ Windows!Observed(rows) = Prefix(s, to) /\ Windows!Market(rows) = Prefix(market, to)
    <2>1. s \in Series(Last) /\ market \in Series(Last)
      BY <1>1, <1>3 DEF Series
    <2> QED
      BY <1>1, <1>3, <2>1 DEF Prefix
  <1> HIDE DEF s, market
  <1>5. ret \in Series(Last)
    <2>1. \A a \in Series(Last), k \in Nat :
              /\ Windows!Change(a, k) \in Series(Last) /\ Windows!Ema(a, k) \in Series(Last)
              /\ Prefix(Windows!Change(a, k), to) = Windows!Change(Prefix(a, to), k)
              /\ Prefix(Windows!Ema(a, k), to) = Windows!Ema(Prefix(a, to), k)
      BY <1>1, PrefixPrimitives
    <2> QED
      BY <1>1, <1>4, <2>1
  <1>6. Windows!Returns(all) = ret /\ Windows!Returns(rows) = Prefix(ret, to)
    <2> DEFINE At(v) == CHOOSE j \in 1..Len(all) : all[j] = v
    <2>1. \A x : Windows!Returns(x) = [i \in 1..Len(x) |-> ret[At(x[i])]]
      BY DEF Windows!Returns, s, ret, all
    <2>2. ASSUME NEW i \in 1..Last PROVE At(i) = i
      <3>1. i \in 1..Len(all) /\ all[i] = i /\ \A j \in 1..Len(all) : all[j] = i => j = i
        BY <1>2
      <3> QED
        BY <3>1
    <2> HIDE DEF At
    <2>3. Windows!Returns(all) = [i \in 1..Last |-> ret[i]]
      <3>1. Windows!Returns(all) = [i \in 1..Last |-> ret[At(all[i])]]
        BY <1>2, <2>1
      <3>2. \A i \in 1..Last : At(all[i]) = i
        BY <1>2, <2>2
      <3> QED
        BY <3>1, <3>2
    <2>4. Windows!Returns(rows) = [i \in 1..to |-> ret[i]]
      <3>1. Windows!Returns(rows) = [i \in 1..to |-> ret[At(rows[i])]]
        BY <1>2, <2>1
      <3>2. \A i \in 1..to : At(rows[i]) = i
        BY <1>1, <1>2, <2>2
      <3> QED
        BY <3>1, <3>2
    <2> QED
      BY <1>5, <2>3, <2>4 DEF Series, Prefix
  <1> HIDE DEF ret
  <1> DEFINE T == Windows!TechnicalColumns(s, ret)
             R == Windows!RiskColumns(s, ret, market)
             T1 == Windows!TechnicalColumns(Prefix(s, to), Prefix(ret, to))
             R1 == Windows!RiskColumns(Prefix(s, to), Prefix(ret, to), Prefix(market, to))
  <1>7. /\ u = Windows!Beside(T, Windows!Beside(R, [target |-> Windows!Label(s)]))
        /\ c = Windows!Beside(T1, Windows!Beside(R1, [target |-> Windows!Label(Prefix(s, to))]))
    BY <1>4, <1>6 DEF Windows!PipelineColumns, s, market
  <1>8. Begins(T, T1, to) /\ Begins(R, R1, to)
    BY <1>1, <1>4, <1>5, TechnicalColumnsBegin, RiskColumnsBegin
  <1>9. "target" \notin DOMAIN T /\ "target" \notin DOMAIN R
    BY DEF Windows!TechnicalColumns, Windows!RiskColumns
  <1> HIDE DEF T, R, T1, R1, c, u
  <1>10. ASSUME NEW i \in 1..to, i + Horizon <= to PROVE Windows!Label(Prefix(s, to))[i] = Windows!Label(s)[i]
    <2>1. i + Horizon \in 1..to
      BY <1>1, <1>10
    <2> QED
      BY <1>1, <1>4, <2>1, LabelBegins
  <1>11. DOMAIN c = DOMAIN u /\ \A k \in DOMAIN u : k # "target" => \A i \in 1..to : c[k][i] = u[k][i]
    <2>1. \A f, i : i \in 1..to => Prefix(f, to)[i] = f[i]
      BY DEF Prefix
    <2> QED
      BY <1>7, <1>8, <2>1 DEF Begins, Windows!Beside
  <1>12. c["target"] = Windows!Label(Prefix(s, to)) /\ u["target"] = Windows!Label(s)
    BY <1>7, <1>8, <1>9 DEF Begins, Windows!Beside
  <1> QED
    BY <1>10, <1>11, <1>12 DEF c, u, rows, all

LEMMA PartitionsAreOfThePanel ==
    ASSUME holes = {}, NEW first \in 1..Last, NEW last \in 1..Last
    PROVE  Windows!InRange(Windows!Frame(Windows!LoadedRows(first, last)), first, last)
               = Windows!InRange(Windows!Frame(Windows!RowsOf(1, Last)), first, last)
  <1> DEFINE to == Until(last)
             rows == Windows!RowsOf(1, to)
             all == Windows!RowsOf(1, Last)
             c == Windows!PipelineColumns(rows)
             u == Windows!PipelineColumns(all)
             f == Windows!Frame(rows)
             g == Windows!Frame(all)
             Whole1 == WholeRows(c, to)
             Whole2 == WholeRows(u, Last)
  <1>1. Windows!LoadedRows(first, last) = rows /\ to \in last..Last /\ Last \in Nat /\ Horizon \in Nat
    BY LoadedRowsAreFirst, WindowsAssumption
  <1>2. CASE to = Last
    BY <1>1, <1>2
  <1>3. CASE to # Last
    <2>1. to = last + Horizon
      BY <1>3 DEF Until
    <2>2. to \in 1..Last /\ to \in Nat /\ \A i \in first..last : i \in 1..to /\ i \in 1..Last /\ i + Horizon <= to
      BY <1>1, <2>1
    <2> HIDE DEF to
    <2>3. /\ DOMAIN c = DOMAIN u
          /\ \A k \in DOMAIN u : k # "target" => \A i \in 1..to : c[k][i] = u[k][i]
          /\ \A i \in 1..to : i + Horizon <= to => c["target"][i] = u["target"][i]
      BY <2>2, ColumnsOfPartition
    <2>4. \A k \in DOMAIN u, i \in first..last : c[k][i] = u[k][i]
      BY <2>2, <2>3
    <2>5. /\ \A i \in 1..to : rows[i] = i
          /\ \A i \in 1..Last : all[i] = i
          /\ IsRows(rows, to) /\ IsRows(all, Last)
      <3>1. \A k \in Nat : Windows!RowsOf(1, k) = [i \in 1..k |-> i] /\ IsRows(Windows!RowsOf(1, k), k)
        BY RowsWithoutHoles
      <3> QED
        BY <1>1, <2>2, <3>1
    <2>6. /\ DOMAIN f = RowDates(rows, Whole1) /\ \A i \in Whole1 : f[rows[i]] = RowOf(c, i)
          /\ DOMAIN g = RowDates(all, Whole2) /\ \A i \in Whole2 : g[all[i]] = RowOf(u, i)
      BY <2>5, FrameRows
    <2>7. \A i \in first..last : i \in Whole1 <=> i \in Whole2
      BY <2>2, <2>3, <2>4 DEF WholeRows
    <2>8. Whole1 \in SUBSET (1..to) /\ Whole2 \in SUBSET (1..Last)
      BY DEF WholeRows
    <2> HIDE DEF rows, all, c, u, f, g, Whole1, Whole2
    <2>9. /\ DOMAIN f = Whole1 /\ \A i \in Whole1 : f[i] = RowOf(c, i)
          /\ DOMAIN g = Whole2 /\ \A i \in Whole2 : g[i] = RowOf(u, i)
      <3>1. (\A i \in Whole1 : rows[i] = i) /\ \A i \in Whole2 : all[i] = i
        BY <2>5, <2>8
      <3>2. RowDates(rows, Whole1) = Whole1 /\ RowDates(all, Whole2) = Whole2
        BY <3>1 DEF RowDates
      <3> QED
        BY <2>6, <3>1, <3>2
    <2>10. \A i \in first..last : RowOf(c, i) = RowOf(u, i)
      BY <2>3, <2>4 DEF RowOf
    <2>11. DOMAIN f \cap first..last = DOMAIN g \cap first..last /\ \A i \in DOMAIN f \cap first..last : f[i] = g[i]
      BY <2>7, <2>9, <2>10
    <2>12. Windows!InRange(f, first, last) = Windows!InRange(g, first, last)
      BY <2>11 DEF Windows!InRange
    <2> QED
      BY <1>1, <2>12 DEF f, g, rows, all
  <1> QED
    BY <1>2, <1>3

-----------------------------------------------------------------------------
\* Contracts are defined exactly where their windows were observed.

LEMMA DefinitionIsOf ==
    ASSUME NEW rows, NEW n, IsRows(rows, n), rows = Windows!RowsOf(1, Last), NEW name, NEW i \in 1..n
    PROVE  Windows!ByDefinition(name, i)
               = IF Whole(rows, n, i, Windows!WindowOf(name), {}) THEN Value(rows, i, Windows!WindowOf(name), {}) ELSE {}
  <1> DEFINE A == Windows!WindowOf(name)
             named == {i - k : k \in A}
  <1>1. Len(rows) = n
    BY DEF IsRows
  <1>2. Windows!ByDefinition(name, i)
            = IF named \subseteq 1..n /\ \A j \in named : rows[j] \notin gaps THEN {rows[j] : j \in named} ELSE {}
    BY <1>1 DEF Windows!ByDefinition, Windows!NaN
  <1> HIDE DEF A
  <1>3. (named \subseteq 1..n /\ \A j \in named : rows[j] \notin gaps) <=> Whole(rows, n, i, A, {})
    BY DEF Whole
  <1>4. {rows[j] : j \in named} = Value(rows, i, A, {})
    BY DEF Value
  <1> QED
    BY <1>2, <1>3, <1>4 DEF A

\* A window that is observed starts after the first date, and so does its market.
LEMMA MarketIsThere ==
    ASSUME NEW rows, NEW n, IsRows(rows, n), NEW i \in 1..n
    PROVE  Whole(rows, n, i, 0..W, {}) <=> Whole(rows, n, i, 0..W, 0..(W - 1))
  <1>1. /\ n \in Nat /\ rows \in [1..n -> Nat \ {0}] /\ W \in Nat \ {0}
        /\ \A k, j \in 1..n : k < j => rows[k] < rows[j]
    BY WindowsAssumption DEF IsRows
  <1>2. ASSUME Whole(rows, n, i, 0..W, {}), NEW k \in 0..(W - 1) PROVE i - k \in 1..n /\ rows[i - k] # 1
    <2>1. k \in 0..W /\ W \in 0..W /\ k \in Nat /\ k < W
      BY <1>1
    <2>2. i - k \in 1..n /\ i - W \in 1..n
      BY <1>2, <2>1 DEF Whole
    <2>3. rows[i - W] < rows[i - k] /\ rows[i - W] \in Nat \ {0} /\ rows[i - k] \in Nat
      <3>1. i - W < i - k
        BY <1>1, <2>1
      <3> QED
        BY <1>1, <2>2, <3>1
    <2> QED
      BY <2>2, <2>3
  <1> QED
    BY <1>2 DEF Whole

LEMMA ContractsAreWhole ==
    ASSUME built = Windows!ContractColumns
    PROVE  Windows!WindowsAreWhole
  <1> DEFINE rows == Windows!RowsOf(1, Last)
             n == Cardinality((1..Last) \ holes)
             C == Windows!ContractColumns
  <1>1. IsRows(rows, n)
    <2>1. Last \in Nat /\ 1 \in Nat \ {0}
      BY WindowsAssumption
    <2> QED
      BY <2>1, RowsAreInOrder
  <1>2. AreNamed(C, rows, n)
    BY <1>1, ContractsAreNamed
  <1> SUFFICES ASSUME NEW name \in DOMAIN C, name \notin Windows!Recursive, name \notin Windows!Lenient,
                      NEW i \in DOMAIN C[name]
               PROVE  LET market == IF name \in {"corr_mkt", "mutual_info", "beta_mkt"} /\ C[name][i] # {}
                                    THEN UNION {Windows!MarketDates(i - k) : k \in 0..(W - 1)} ELSE {}
                      IN  C[name][i] = Windows!ByDefinition(name, i) \cup market
    BY DEF Windows!WindowsAreWhole, Windows!WindowIsWhole, Windows!NaN
  <1> HIDE DEF C, n
  <1> DEFINE A == Windows!WindowOf(name)
  <1>3. C[name] = Of(rows, n, A, Wide(name))
    BY <1>2 DEF AreNamed, IsNamed, Exempt
  <1>4. i \in 1..n /\ C[name][i] = IF Whole(rows, n, i, A, Wide(name)) THEN Value(rows, i, A, Wide(name)) ELSE {}
    BY <1>3 DEF Of
  <1>5. Windows!ByDefinition(name, i) = IF Whole(rows, n, i, A, {}) THEN Value(rows, i, A, {}) ELSE {}
    BY <1>1, <1>4, DefinitionIsOf
  <1>6. CASE name \notin {"corr_mkt", "mutual_info"}
    <2>1. Wide(name) = {} /\ name \notin {"corr_mkt", "mutual_info", "beta_mkt"}
      BY <1>6 DEF Wide, Windows!Lenient
    <2> QED
      BY <1>4, <1>5, <2>1
  <1>7. CASE name \in {"corr_mkt", "mutual_info"}
    <2> DEFINE market == UNION {Windows!MarketDates(i - k) : k \in 0..(W - 1)}
    <2>1. Wide(name) = 0..(W - 1) /\ A = 0..W
      BY <1>7, NamesAndWindows DEF Wide
    <2>2. Whole(rows, n, i, A, {}) <=> Whole(rows, n, i, A, Wide(name))
      BY <1>1, <1>4, <2>1, MarketIsThere
    <2>3. Value(rows, i, A, Wide(name)) = Value(rows, i, A, {}) \cup market
      <3>1. market = UNION {{rows[i - k] - 1, rows[i - k]} : k \in 0..(W - 1)}
        BY DEF Windows!MarketDates
      <3> HIDE DEF market
      <3> QED
        BY <2>1, <3>1 DEF Value
    <2>4. Value(rows, i, A, Wide(name)) # {}
      <3>1. 0 \in A
        BY <2>1, WindowsAssumption
      <3> QED
        BY <3>1 DEF Value
    <2> HIDE DEF market, A
    <2>5. CASE Whole(rows, n, i, A, {})
      <3>1. C[name][i] = Value(rows, i, A, {}) \cup market /\ C[name][i] # {}
        BY <1>4, <2>2, <2>3, <2>4, <2>5
      <3> QED
        BY <1>5, <1>7, <2>5, <3>1 DEF market
    <2>6. CASE ~Whole(rows, n, i, A, {})
      BY <1>4, <1>5, <2>2, <2>6
    <2> QED
      BY <2>5, <2>6
  <1> QED
    BY <1>6, <1>7

-----------------------------------------------------------------------------
\* The feature windows (FeatureWindows).

LEMMA ContractsAreNotAhead ==
    ASSUME built = Windows!ContractColumns, range = <<>>
    PROVE  Windows!NothingIsReadAhead
  <1> DEFINE rows == Windows!RowsOf(1, Last)
             n == Cardinality((1..Last) \ holes)
  <1>1. IsRows(rows, n)
    <2>1. Last \in Nat /\ 1 \in Nat \ {0}
      BY WindowsAssumption
    <2> QED
      BY <2>1, RowsAreInOrder
  <1>2. \A name \in DOMAIN built : built[name] \in Past(rows, n)
    BY <1>1, ContractsArePast
  <1> HIDE DEF n, rows
  <1>3. \A name \in DOMAIN built : \A i \in DOMAIN built[name] : \A d \in built[name][i] : d <= rows[i]
    BY <1>2 DEF Past
  <1> QED
    BY <1>3 DEF Windows!NothingIsReadAhead, Windows!PartitionBuilt, rows

LEMMA PartitionsAreNotAhead ==
    ASSUME NEW first \in 1..Last, NEW last \in 1..Last, range = <<first, last>>,
           built = Windows!InRange(Windows!Frame(Windows!LoadedRows(first, last)), first, last)
    PROVE  Windows!NothingIsReadAhead
  <1> DEFINE to == Until(last)
             rows == Windows!RowsOf(1, to)
             n == Cardinality((1..to) \ holes)
             columns == Windows!PipelineColumns(rows)
             table == Windows!Frame(rows)
  <1>1. Windows!LoadedRows(first, last) = rows /\ to \in 1..Last /\ to \in Nat /\ 1 \in Nat \ {0}
    <2>1. Windows!LoadedRows(first, last) = rows /\ to \in last..Last /\ Last \in Nat
      BY LoadedRowsAreFirst, WindowsAssumption
    <2> QED
      BY <2>1
  <1> HIDE DEF to
  <1>2. IsRows(rows, n)
    BY <1>1, RowsAreInOrder
  <1>3. Windows!Returns(rows) \in Past(rows, n)
    BY <1>1, <1>2, ReturnsArePast
  <1> HIDE DEF rows, n
  <1>4. /\ \A k \in DOMAIN columns : k # "target" => columns[k] \in Past(rows, n)
        /\ "target" \in DOMAIN columns /\ columns["target"] = Windows!Label(Windows!Observed(rows))
    BY <1>2, <1>3, PipelineIsPast
  <1>5. /\ DOMAIN table = RowDates(rows, WholeRows(columns, n))
        /\ \A i \in WholeRows(columns, n) : table[rows[i]] = RowOf(columns, i)
    BY <1>2, FrameRows
  <1>6. built = [d \in DOMAIN table \cap first..last |-> table[d]]
    BY <1>1 DEF Windows!InRange
  <1> HIDE DEF columns, table
  <1>7. ASSUME NEW d \in DOMAIN built, NEW name \in DOMAIN built[d]
        PROVE  IF name = "target" THEN built[d][name] \ {d} # {} /\ \A e \in built[d][name] : e >= d
               ELSE \A e \in built[d][name] : e <= d
    <2>1. PICK i \in WholeRows(columns, n) : d = rows[i]
      BY <1>5, <1>6 DEF RowDates
    <2>2. i \in 1..n /\ \A k \in DOMAIN columns : columns[k][i] # {}
      BY DEF WholeRows
    <2>3. built[d] = RowOf(columns, i)
      BY <1>5, <1>6, <2>1
    <2>4. name \in DOMAIN columns /\ built[d][name] = columns[name][i]
      BY <2>3 DEF RowOf
    <2>5. CASE name = "target"
      <3>1. Windows!Label(Windows!Observed(rows))[i] # {}
        BY <1>4, <2>2
      <3>2. LET v == Windows!Label(Windows!Observed(rows))[i]
            IN  v \ {rows[i]} # {} /\ \A e \in v : e >= rows[i]
        BY <1>2, <2>2, <3>1, LabelIsAhead
      <3> QED
        BY <1>4, <2>1, <2>4, <2>5, <3>2
    <2>6. CASE name # "target"
      <3>1. \A e \in columns[name][i] : e <= rows[i]
        BY <1>4, <2>2, <2>4, <2>6 DEF Past
      <3> QED
        BY <2>1, <2>4, <2>6, <3>1
    <2> QED
      BY <2>5, <2>6
  <1> QED
    BY <1>7 DEF Windows!NothingIsReadAhead, Windows!ContractsBuilt

\* What is built is the contracts' columns or a partition's frame.
Loaded(rows, first, last) ==
    /\ rows = Windows!LoadedRows(first, last) /\ range = <<first, last>>
    /\ built = Windows!InRange(Windows!Frame(rows), first, last)
WindowInv ==
    \/ built = <<>> /\ range = <<>>
    \/ built = Windows!ContractColumns /\ range = <<>>
    \/ \E first, last \in 1..Last : \E rows : Loaded(rows, first, last)

LEMMA ColumnsStay ==
    ASSUME holes' = holes, gaps' = gaps
    PROVE  Windows!ContractColumns' = Windows!ContractColumns
  BY DEF Windows!ContractColumns, Windows!RowsOf, Windows!Observed, Windows!Market

LEMMA FrameStays ==
    ASSUME holes' = holes, gaps' = gaps, NEW rows
    PROVE  Windows!Frame(rows)' = Windows!Frame(rows)
  <1>1. Windows!Returns(rows)' = Windows!Returns(rows)
    BY DEF Windows!Returns, Windows!RowsOf, Windows!Observed
  <1>2. Windows!PipelineColumns(rows)' = Windows!PipelineColumns(rows)
    BY <1>1 DEF Windows!PipelineColumns, Windows!Observed
  <1> QED
    BY <1>2 DEF Windows!Frame

LEMMA RowsStay ==
    ASSUME holes' = holes, NEW first, NEW last
    PROVE  Windows!LoadedRows(first, last)' = Windows!LoadedRows(first, last)
  BY DEF Windows!LoadedRows, Windows!RowsOf

LEMMA WindowInit == Windows!Init => WindowInv
  BY DEF Windows!Init, Windows!Start, WindowInv

LEMMA WindowNext == WindowInv /\ Windows!Next => WindowInv'
  <1>1. ASSUME Windows!BuildContracts PROVE WindowInv'
    <2>1. built' = Windows!ContractColumns /\ range' = <<>> /\ holes' = holes /\ gaps' = gaps
      BY <1>1 DEF Windows!BuildContracts
    <2>2. built' = Windows!ContractColumns'
      BY <2>1, ColumnsStay
    <2> QED
      BY <2>1, <2>2 DEF WindowInv
  <1>2. ASSUME NEW first \in Windows!Dates, NEW last \in Windows!Dates, Windows!LoadPartition(first, last) PROVE WindowInv'
    <2>1. /\ built' = Windows!InRange(Windows!Frame(Windows!LoadedRows(first, last)), first, last)
          /\ range' = <<first, last>> /\ holes' = holes /\ gaps' = gaps /\ first \in 1..Last /\ last \in 1..Last
      BY <1>2 DEF Windows!LoadPartition, Windows!Dates
    <2>2. PICK rows : rows = Windows!LoadedRows(first, last)
      OBVIOUS
    <2>3. Windows!Frame(rows)' = Windows!Frame(rows) /\ Windows!LoadedRows(first, last)' = rows
      BY <2>1, <2>2, FrameStays, RowsStay
    <2>4. Loaded(rows, first, last)'
      BY <2>1, <2>2, <2>3 DEF Loaded, Windows!InRange
    <2> QED
      BY <2>1, <2>4 DEF WindowInv
  <1> QED
    BY <1>1, <1>2 DEF Windows!Next

LEMMA WindowStays == WindowInv /\ UNCHANGED windowVars => WindowInv'
  <1> SUFFICES ASSUME WindowInv, UNCHANGED windowVars PROVE WindowInv'
    OBVIOUS
  <1>1. holes' = holes /\ gaps' = gaps /\ built' = built /\ range' = range
    BY DEF windowVars
  <1>2. Windows!ContractColumns' = Windows!ContractColumns
    BY <1>1, ColumnsStay
  <1>3. ASSUME NEW rows, NEW first, NEW last, Loaded(rows, first, last) PROVE Loaded(rows, first, last)'
    <2>1. Windows!Frame(rows)' = Windows!Frame(rows) /\ Windows!LoadedRows(first, last)' = Windows!LoadedRows(first, last)
      BY <1>1, FrameStays, RowsStay
    <2> QED
      BY <1>1, <1>3, <2>1 DEF Loaded, Windows!InRange
  <1> QED
    BY <1>1, <1>2, <1>3 DEF WindowInv

LEMMA WindowPromise ==
    WindowInv => Windows!WindowsAreWhole /\ Windows!NothingIsReadAhead /\ Windows!PartitionsAgreeOnFullRows
  <1>1. CASE built = <<>> /\ range = <<>>
    BY <1>1 DEF Windows!WindowsAreWhole, Windows!NothingIsReadAhead, Windows!PartitionsAgreeOnFullRows,
                Windows!PartitionsAgree, Windows!ContractsBuilt, Windows!PartitionBuilt
  <1>2. CASE built = Windows!ContractColumns /\ range = <<>>
    <2>1. Windows!PartitionsAgreeOnFullRows
      BY <1>2 DEF Windows!PartitionsAgreeOnFullRows, Windows!PartitionsAgree, Windows!PartitionBuilt
    <2> QED
      BY <1>2, <2>1, ContractsAreWhole, ContractsAreNotAhead
  <1>3. ASSUME NEW first \in 1..Last, NEW last \in 1..Last, NEW rows, Loaded(rows, first, last)
        PROVE  Windows!WindowsAreWhole /\ Windows!NothingIsReadAhead /\ Windows!PartitionsAgreeOnFullRows
    <2>0. range = <<first, last>> /\ built = Windows!InRange(Windows!Frame(Windows!LoadedRows(first, last)), first, last)
      BY <1>3 DEF Loaded
    <2>1. Windows!WindowsAreWhole
      BY <2>0 DEF Windows!WindowsAreWhole, Windows!ContractsBuilt
    <2>2. Windows!NothingIsReadAhead
      BY <2>0, PartitionsAreNotAhead
    <2>3. ASSUME holes = {} PROVE built = Windows!InRange(Windows!Frame(Windows!RowsOf(1, Last)), range[1], range[2])
      <3>1. range[1] = first /\ range[2] = last
        BY <2>0
      <3>2. built = Windows!InRange(Windows!Frame(Windows!RowsOf(1, Last)), first, last)
        BY <2>0, <2>3, PartitionsAreOfThePanel
      <3> QED
        BY <3>1, <3>2
    <2> QED
      BY <2>1, <2>2, <2>3 DEF Windows!PartitionsAgreeOnFullRows, Windows!PartitionsAgree
  <1> QED
    BY <1>1, <1>2, <1>3 DEF WindowInv

-----------------------------------------------------------------------------
\* The theorems of the evaluation, and of the whole pipeline.

\* For any panel with missing rows, any scheme, family of models, folds, embargo and lag, no
\* forecast, choice or position rests on what it forecasts; and for any days, outcomes,
\* corrections, tests and policy, a promotion rests on pairs neither arm could have read, a
\* bootstrap that draws each day alike and a family that all of closed testing rejects.
THEOREM EvaluationIsFair == ResearchSpec => []EvaluationIsOutOfSample
  <1> DEFINE Inv == /\ subject = "walk" => WalkInv
                    /\ subject = "promotion" => PromotionInv
  <1>1. ResearchInit => Inv
    BY WalkInit, PromotionInit DEF ResearchInit
  <1>2. Inv /\ [ResearchNext]_researchVars => Inv'
    BY WalkNext, WalkStays, PromotionNext, PromotionStays DEF ResearchNext, researchVars, OthersThanBackfill
  <1>3. Inv => EvaluationIsOutOfSample
    BY WalkPromise, PromotionPromise DEF EvaluationIsOutOfSample
  <1> QED
    BY <1>1, <1>2, <1>3, PTL DEF ResearchSpec

\* For any window, lag, label horizon, gaps and missing rows, every contract of a full window is
\* defined exactly where the window was observed and from it alone, nothing is read ahead but
\* the label, and a partition of an asset without missing rows has the whole panel's values.
THEOREM FeatureValues == ResearchSpec => []FeaturesAreSound
  <1> DEFINE Inv == subject = "windows" => WindowInv
  <1>1. ResearchInit => Inv
    BY WindowInit DEF ResearchInit
  <1>2. Inv /\ [ResearchNext]_researchVars => Inv'
    BY WindowNext, WindowStays DEF ResearchNext, researchVars, OthersThanBackfill
  <1>3. Inv => FeaturesAreSound
    BY WindowPromise DEF FeaturesAreSound
  <1> QED
    BY <1>1, <1>2, <1>3, PTL DEF ResearchSpec

\* Every part of the pipeline keeps its types, the feature stores also where the machine
\* loses its power.
THEOREM ResearchTypes == ResearchSpec => []ResearchTypeOK
  <1> DEFINE Inv == /\ subject = "backfill" => BackfillInv
                    /\ subject = "download" => DownloadInv
                    /\ subject = "panel" => PanelInv
                    /\ subject = "objects" => ObjectsWide
                    /\ subject = "walk" => WalkInv
                    /\ subject = "bundle" => BundleInv
                    /\ subject = "promotion" => PromotionInv
  <1>1. ResearchInit => Inv
    BY BackfillInit, DownloadInit, PanelInit, WideInit, WalkInit, BundleInit, PromotionInit DEF ResearchInit
  <1>2. Inv /\ [ResearchNext]_researchVars => Inv'
    BY BackfillNext, BackfillStays, DownloadNext, DownloadStays, PanelNext, PanelStays, WideNext, WideStays, WalkNext,
       WalkStays, BundleNext, BundleStays, PromotionNext, PromotionStays
       DEF ResearchNext, researchVars, OthersThanBackfill
  <1>3. Inv => ResearchTypeOK
    BY BackfillPromise, DownloadPromise, PanelPromise, WideTypes, WalkPromise, BundlePromise, PromotionPromise
       DEF ResearchTypeOK
  <1> QED
    BY <1>1, <1>2, <1>3, PTL DEF ResearchSpec
=============================================================================
