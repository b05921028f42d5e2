--------------------------- MODULE RetentionProofs ---------------------------
(***************************************************************************)
(* What holds of RetentionControl for any artifacts, controllers, plans,    *)
(* policies, stores and clock values: AuthorityInv is the inductive         *)
(* invariant of RetentionAuthority (what is signed stays signed as it was,  *)
(* what is staged was confirmed, what a controller executes is staged),     *)
(* RaceInv that of Retention.                                               *)
(***************************************************************************)
EXTENDS RetentionControl, FiniteSetTheorems, TLAPS

AuthorityPlan == Authority!PlanNumber
IsSigned(p) == signed[p] # Authority!Unsigned
CandsOf(p) == DOMAIN signed[p].cands
CutoffOf(p) == signed[p].at - signed[p].policy.grace

\* Numbers are given out in order, without gaps.
NumbersAreConsecutive ==
    \E k \in 0..MaxSigned : \A m \in AuthorityPlan : IsSigned(m) <=> m <= k

\* A signed plan was made for the bound store under an enabled policy, of content old enough.
SignedPlansAreSound ==
    \A p \in AuthorityPlan : IsSigned(p) =>
        /\ signed[p].at \in Authority!Time /\ signed[p].policy \in Policies
        /\ signed[p].policy.enabled /\ signed[p].at >= signed[p].policy.grace
        /\ signed[p].store = bound /\ bound \in Stores
        /\ CandsOf(p) # {} /\ CandsOf(p) \subseteq Artifacts
        /\ \A d \in CandsOf(p) : signed[p].cands[d].changed <= CutoffOf(p)

\* A stored plan was confirmed within its policy, and its tombstones are its candidates'.
StoredPlansAreConfirmed ==
    \A p \in envelopes :
        /\ IsSigned(p)
        /\ Authority!Cardinality(CandsOf(p)) <= signed[p].policy.count
        /\ Authority!Total(CandsOf(p)) <= signed[p].policy.total
        /\ \A d \in CandsOf(p) : created[d] <= CutoffOf(p) /\ d \notin used
        /\ {d \in Artifacts : deleted[d].plan = p} = CandsOf(p)
        /\ \A d \in CandsOf(p) : deleted[d].at = Authority!Never \/ signed[p].at <= deleted[d].at

TombstonesHavePlans ==
    \A d \in Artifacts : deleted[d] # Authority!Unmarked => deleted[d].plan \in envelopes

\* What a controller executes is stored, and signed under its own policy and for its store.
ControllerExecutesItsPlan ==
    controller.plan # Authority!None =>
        /\ controller.plan \in envelopes
        /\ signed[controller.plan].policy = controller.policy /\ controller.policy.enabled
        /\ controller.store = bound

AuthorityInv ==
    /\ Authority!TypeOK
    /\ signed = [p \in AuthorityPlan |-> signed[p]]
    /\ NumbersAreConsecutive /\ SignedPlansAreSound /\ StoredPlansAreConfirmed
    /\ TombstonesHavePlans /\ ControllerExecutesItsPlan

-----------------------------------------------------------------------------
LEMMA PolicyType == \A p \in Policies : p.grace \in Nat /\ p.count \in Nat /\ p.total \in Nat
  BY AuthorityAssumption

LEMMA ControlTimes == /\ MaxTime \in Nat /\ Authority!Never = MaxTime + 1 /\ Authority!Time = 0..MaxTime
               /\ Authority!None = 0 /\ Authority!PlanNumber = 1..MaxSigned
               /\ Authority!Unmarked = [plan |-> 0, at |-> MaxTime + 1]
               /\ Authority!Unsigned.at = MaxTime + 1
               /\ Authority!Absent = [gen |-> 0, changed |-> MaxTime + 1]
               /\ 0 \notin Stores /\ MaxSigned \in Nat /\ MaxMade \in Nat /\ MaxSetBacks \in Nat
  BY AuthorityAssumption DEF Authority!Never, Authority!Time, Authority!None, Authority!PlanNumber,
     Authority!Unmarked, Authority!Unsigned, Authority!Absent

LEMMA AuthorityInitially == Authority!Init => AuthorityInv
  <1> SUFFICES ASSUME Authority!Init PROVE AuthorityInv
    OBVIOUS
  <1> USE ControlTimes DEF Authority!Init
  <1>1. Authority!TypeOK
    BY DEF Authority!TypeOK
  <1>2. signed = [p \in AuthorityPlan |-> signed[p]] /\ \A p \in AuthorityPlan : ~IsSigned(p)
    BY DEF AuthorityPlan, IsSigned
  <1>3. NumbersAreConsecutive
    <2>1. 0 \in 0..MaxSigned /\ \A m \in AuthorityPlan : IsSigned(m) <=> m <= 0
      BY <1>2 DEF AuthorityPlan
    <2> QED
      BY <2>1 DEF NumbersAreConsecutive
  <1>4. SignedPlansAreSound /\ StoredPlansAreConfirmed /\ TombstonesHavePlans /\ ControllerExecutesItsPlan
    BY <1>2 DEF SignedPlansAreSound, StoredPlansAreConfirmed, TombstonesHavePlans, ControllerExecutesItsPlan
  <1> QED
    BY <1>1, <1>2, <1>3, <1>4 DEF AuthorityInv

\* The clock moves.
LEMMA ClockKeeps ==
    ASSUME AuthorityInv, Authority!Pass \/ Authority!SetBack
    PROVE  AuthorityInv'
  <1>1. UNCHANGED <<present, made, created, used, bound, controller, signed, envelopes, deleted>>
    BY DEF Authority!Pass, Authority!SetBack
  <1>2. now' \in Authority!Time /\ setBacks' \in 0..MaxSetBacks
    BY ControlTimes, SMTT(30) DEF AuthorityInv, Authority!TypeOK, Authority!Pass, Authority!SetBack
  <1>3. (Authority!TypeOK)'
    BY <1>1, <1>2 DEF AuthorityInv, Authority!TypeOK
  <1>4. /\ NumbersAreConsecutive' /\ SignedPlansAreSound' /\ StoredPlansAreConfirmed'
        /\ TombstonesHavePlans' /\ ControllerExecutesItsPlan'
    BY <1>1 DEF AuthorityInv, NumbersAreConsecutive, SignedPlansAreSound, StoredPlansAreConfirmed,
       TombstonesHavePlans, ControllerExecutesItsPlan, AuthorityPlan, IsSigned, CandsOf, CutoffOf
  <1> QED
    BY <1>1, <1>3, <1>4 DEF AuthorityInv, AuthorityPlan

\* A candidate of a stored plan has a row, under a tombstone.
LEMMA CandidatesAreMarked ==
    ASSUME AuthorityInv, NEW p \in envelopes, NEW d \in CandsOf(p)
    PROVE  /\ d \in Artifacts /\ created[d] # Authority!Never /\ deleted[d] # Authority!Unmarked
           /\ deleted[d].plan = p
  <1>1. p \in AuthorityPlan /\ IsSigned(p)
    BY DEF AuthorityInv, Authority!TypeOK, StoredPlansAreConfirmed, AuthorityPlan
  <1>2. d \in Artifacts /\ deleted[d].plan = p /\ created[d] <= CutoffOf(p)
    BY DEF AuthorityInv, StoredPlansAreConfirmed
  <1>3. CutoffOf(p) \in Int /\ CutoffOf(p) <= MaxTime
    BY <1>1, ControlTimes, PolicyType DEF AuthorityInv, SignedPlansAreSound, CutoffOf
  <1>4. created[d] # Authority!Never
    BY <1>2, <1>3, ControlTimes
  <1>5. p # 0 /\ Authority!Unmarked.plan = 0
    BY <1>1, ControlTimes DEF AuthorityPlan
  <1> QED
    BY <1>2, <1>4, <1>5

\* Content comes, comes back, or is used: no tombstone is touched, and no marked artifact linked.
LEMMA ContentKeeps ==
    ASSUME AuthorityInv, NEW d \in Artifacts,
           Authority!Publish(d) \/ Authority!Restore(d) \/ Authority!Link(d)
    PROVE  AuthorityInv'
  <1>1. UNCHANGED <<setBacks, bound, controller, signed, envelopes, deleted>>
    BY DEF Authority!Publish, Authority!Restore, Authority!Link
  <1>2. \A e \in Artifacts : created[e] # Authority!Never => created'[e] = created[e]
    BY DEF Authority!Publish, Authority!Restore, Authority!Link, AuthorityInv, Authority!TypeOK
  <1>3. \A e \in Artifacts : deleted[e] # Authority!Unmarked /\ e \notin used => e \notin used'
    BY DEF Authority!Publish, Authority!Restore, Authority!Link, AuthorityInv, Authority!TypeOK
  <1>4. (Authority!TypeOK)'
    <2> USE DEF AuthorityInv, Authority!TypeOK
    <2>1. CASE Authority!Link(d)
      BY <1>1, <2>1 DEF Authority!Link
    <2>2. CASE Authority!Publish(d) \/ Authority!Restore(d)
      <3>1. made' \in 0..MaxMade /\ made + 1 \in 0..MaxMade /\ UNCHANGED <<now, used>>
        BY <2>2, ControlTimes DEF Authority!Publish, Authority!Restore
      <3>2. present' = [present EXCEPT ![d] = [gen |-> made + 1, changed |-> now]]
        BY <2>2 DEF Authority!Publish, Authority!Restore
      <3>3. created' = created \/ created' = [created EXCEPT ![d] = IF @ = Authority!Never THEN now ELSE @]
        BY <2>2 DEF Authority!Publish, Authority!Restore
      <3>4. present' \in [Artifacts -> [gen : 0..MaxMade, changed : Authority!Time \cup {Authority!Never}]]
        BY <3>1, <3>2
      <3>5. created' \in [Artifacts -> Authority!Time \cup {Authority!Never}]
        BY <3>3
      <3> QED
        BY <1>1, <3>1, <3>4, <3>5
    <2> QED
      BY <2>1, <2>2
  <1>5. StoredPlansAreConfirmed'
    <2> SUFFICES ASSUME NEW p \in envelopes, NEW e \in CandsOf(p)
                 PROVE  created'[e] <= CutoffOf(p) /\ e \notin used'
      BY <1>1 DEF AuthorityInv, StoredPlansAreConfirmed, CandsOf, CutoffOf, IsSigned
    <2> QED
      BY <1>2, <1>3, CandidatesAreMarked DEF AuthorityInv, StoredPlansAreConfirmed
  <1> QED
    BY <1>1, <1>4, <1>5 DEF AuthorityInv, NumbersAreConsecutive, SignedPlansAreSound, TombstonesHavePlans,
       ControllerExecutesItsPlan, AuthorityPlan, IsSigned, CandsOf, CutoffOf

LEMMA ControllerKeeps ==
    ASSUME AuthorityInv,
           Authority!Leave \/ \E p \in Policies, s \in Stores : Authority!Construct(p, s)
    PROVE  AuthorityInv'
  <1>1. UNCHANGED <<now, setBacks, present, made, created, used, signed, envelopes, deleted>>
    BY DEF Authority!Leave, Authority!Construct
  <1>2. bound' = bound \/ (bound = 0 /\ bound' \in Stores)
    BY ControlTimes DEF Authority!Leave, Authority!Construct
  <1>3. controller' \in [policy : Policies, store : Stores, plan : {0}]
    BY ControlTimes, SMTT(30) DEF Authority!Leave, Authority!Construct, AuthorityInv, Authority!TypeOK
  <1>4. (Authority!TypeOK)'
    BY <1>1, <1>2, <1>3, ControlTimes DEF AuthorityInv, Authority!TypeOK
  <1>5. SignedPlansAreSound'
    BY <1>1, <1>2, ControlTimes DEF AuthorityInv, SignedPlansAreSound, AuthorityPlan, IsSigned, CandsOf, CutoffOf
  <1> QED
    BY <1>1, <1>3, <1>4, <1>5, ControlTimes DEF AuthorityInv, NumbersAreConsecutive, StoredPlansAreConfirmed,
       TombstonesHavePlans, ControllerExecutesItsPlan, AuthorityPlan, IsSigned, CandsOf, CutoffOf

LEMMA SameCardinality == \A S : Authority!Cardinality(S) = Cardinality(S)
  BY DEF Authority!Cardinality, Cardinality, Authority!IsFiniteSet, IsFiniteSet

\* The number of a new plan is the next one.
LEMMA NextNumber ==
    ASSUME AuthorityInv
    PROVE  \E k \in 0..MaxSigned :
             /\ \A m \in AuthorityPlan : IsSigned(m) <=> m <= k
             /\ Authority!Cardinality({m \in Authority!PlanNumber : signed[m] # Authority!Unsigned}) = k
  <1>1. PICK k \in 0..MaxSigned : \A m \in AuthorityPlan : IsSigned(m) <=> m <= k
    BY DEF AuthorityInv, NumbersAreConsecutive
  <1>2. {m \in Authority!PlanNumber : signed[m] # Authority!Unsigned} = 1..k
    BY <1>1, ControlTimes DEF AuthorityPlan, IsSigned
  <1>3. k \in Int /\ Cardinality(1..k) = IF 1 > k THEN 0 ELSE k - 1 + 1
    BY <1>1, ControlTimes, FS_Interval
  <1>4. Cardinality(1..k) = k
    BY <1>1, <1>3, ControlTimes
  <1> QED
    BY <1>1, <1>2, <1>4, SameCardinality

\* A plan that was signed keeps what it says; the new one is sound.
LEMMA PlanningKeeps ==
    ASSUME AuthorityInv, Authority!MakePlan
    PROVE  AuthorityInv'
  <1> DEFINE cutoff == now - controller.policy.grace
             rows == Authority!Selected(cutoff)
             cands == {d \in rows : present[d].changed <= cutoff}
             n == Authority!Cardinality({m \in Authority!PlanNumber : signed[m] # Authority!Unsigned}) + 1
             new == [at |-> now, policy |-> controller.policy, store |-> controller.store,
                     cands |-> [d \in cands |-> present[d]]]
  <1>1. /\ controller.policy.enabled /\ controller.plan = Authority!None /\ bound = controller.store
        /\ now >= controller.policy.grace /\ n \in Authority!PlanNumber /\ cands # {}
        /\ signed' = [signed EXCEPT ![n] = new]
        /\ UNCHANGED <<now, setBacks, present, made, created, used, bound, controller, envelopes, deleted>>
    BY DEF Authority!MakePlan
  <1>2. cands \subseteq Artifacts
    BY DEF Authority!Selected, Authority!Rows
  <1>3. controller.policy \in Policies /\ controller.store \in Stores /\ now \in 0..MaxTime
    BY ControlTimes DEF AuthorityInv, Authority!TypeOK
  <1>4. PICK k \in 0..MaxSigned : /\ \A m \in AuthorityPlan : IsSigned(m) <=> m <= k
                                  /\ n = k + 1
    BY NextNumber
  <1> HIDE DEF n, rows, cands
  <1>5. ~IsSigned(n) /\ n \in AuthorityPlan
    BY <1>1, <1>4, ControlTimes DEF AuthorityPlan
  <1>6. signed' = [p \in AuthorityPlan |-> IF p = n THEN new ELSE signed[p]]
    BY <1>1 DEF AuthorityInv
  <1>7. new # Authority!Unsigned /\ new.at = now /\ new.policy = controller.policy
        /\ new.store = controller.store /\ new.cands = [d \in cands |-> present[d]]
    BY <1>3, ControlTimes
  <1> HIDE DEF new
  <1>8. (Authority!TypeOK)' /\ signed' = [p \in AuthorityPlan |-> signed'[p]]
    BY <1>1, <1>6 DEF AuthorityInv, Authority!TypeOK
  <1>9. NumbersAreConsecutive'
    <2>1. k + 1 \in 0..MaxSigned
      BY <1>4, <1>5, ControlTimes DEF AuthorityPlan
    <2>2. \A m \in AuthorityPlan : (IsSigned(m))' <=> m <= k + 1
      BY <1>4, <1>6, <1>7, ControlTimes DEF IsSigned, AuthorityPlan
    <2> QED
      BY <2>1, <2>2 DEF NumbersAreConsecutive, AuthorityPlan
  <1>10. SignedPlansAreSound'
    <2> SUFFICES ASSUME NEW p \in AuthorityPlan, (IsSigned(p))'
                 PROVE  /\ signed'[p].at \in Authority!Time /\ signed'[p].policy \in Policies
                        /\ signed'[p].policy.enabled /\ signed'[p].at >= signed'[p].policy.grace
                        /\ signed'[p].store = bound /\ bound \in Stores
                        /\ DOMAIN signed'[p].cands # {} /\ DOMAIN signed'[p].cands \subseteq Artifacts
                        /\ \A d \in DOMAIN signed'[p].cands :
                              signed'[p].cands[d].changed <= signed'[p].at - signed'[p].policy.grace
      BY <1>1 DEF SignedPlansAreSound, CandsOf, CutoffOf, AuthorityPlan
    <2>1. CASE p # n
      <3>1. signed'[p] = signed[p] /\ IsSigned(p)
        BY <1>6, <2>1 DEF IsSigned
      <3> QED
        BY <3>1 DEF AuthorityInv, SignedPlansAreSound, CandsOf, CutoffOf
    <2>2. CASE p = n
      <3>1. signed'[p] = new
        BY <1>6, <2>2
      <3>2. new.cands = [d \in cands |-> present[d]] /\ \A d \in cands : present[d].changed <= cutoff
        BY <1>7 DEF cands
      <3> QED
        BY <1>1, <1>2, <1>3, <1>7, <3>1, <3>2, ControlTimes
    <2> QED
      BY <2>1, <2>2
  <1>11. \A p \in envelopes : p \in AuthorityPlan /\ signed'[p] = signed[p]
    <2>1. \A p \in envelopes : p \in AuthorityPlan /\ IsSigned(p)
      BY DEF AuthorityInv, Authority!TypeOK, StoredPlansAreConfirmed, AuthorityPlan
    <2> QED
      BY <1>5, <1>6, <2>1
  <1>12. StoredPlansAreConfirmed'
    BY <1>1, <1>11, ZenonT(40) DEF AuthorityInv, StoredPlansAreConfirmed, IsSigned, CandsOf, CutoffOf
  <1>13. TombstonesHavePlans' /\ ControllerExecutesItsPlan'
    BY <1>1 DEF AuthorityInv, TombstonesHavePlans, ControllerExecutesItsPlan
  <1> QED
    BY <1>8, <1>9, <1>10, <1>12, <1>13 DEF AuthorityInv, AuthorityPlan


\* Staging or resuming a plan: confirmed, and then stored with its tombstones.
LEMMA ExecutingKeeps ==
    ASSUME AuthorityInv, NEW p \in Authority!PlanNumber, Authority!Execute(p)
    PROVE  AuthorityInv'
  <1>1. /\ IsSigned(p) /\ controller.policy.enabled
        /\ signed[p].store = controller.store /\ bound = controller.store
        /\ Authority!Cardinality(CandsOf(p)) <= controller.policy.count
        /\ Authority!Total(CandsOf(p)) <= controller.policy.total
        /\ signed[p].policy = controller.policy
        /\ \A d \in CandsOf(p) : created[d] <= CutoffOf(p) /\ d \notin used
        /\ p \notin envelopes => \A d \in CandsOf(p) : deleted[d] = Authority!Unmarked
    BY DEF Authority!Execute, Authority!Confirmed, Authority!StillEligible, Authority!Cands, Authority!Cutoff,
           IsSigned, CandsOf, CutoffOf
  <1>2. /\ envelopes' = envelopes \cup {p}
        /\ deleted' = [d \in Artifacts |-> IF d \in CandsOf(p) /\ p \notin envelopes
                                           THEN [plan |-> p, at |-> Authority!Never] ELSE deleted[d]]
        /\ controller' = [controller EXCEPT !.plan = p]
        /\ UNCHANGED <<now, setBacks, present, made, created, used, bound, signed>>
    BY DEF Authority!Execute, Authority!Cands, CandsOf
  <1>3. p \in AuthorityPlan /\ p # 0 /\ CandsOf(p) \subseteq Artifacts
    BY <1>1, ControlTimes DEF AuthorityPlan, AuthorityInv, SignedPlansAreSound
  <1>4. (Authority!TypeOK)'
    <2>1. deleted' \in [Artifacts -> [plan : Authority!PlanNumber \cup {Authority!None},
                                      at : Authority!Time \cup {Authority!Never}]]
      BY <1>2 DEF AuthorityInv, Authority!TypeOK
    <2>2. controller' \in [policy : Policies, store : Stores, plan : Authority!PlanNumber \cup {Authority!None}]
      BY <1>2 DEF AuthorityInv, Authority!TypeOK
    <2> QED
      BY <1>2, <2>1, <2>2 DEF AuthorityInv, Authority!TypeOK
  <1>5. p \notin envelopes => \A d \in Artifacts : deleted[d].plan # p
    BY <1>3, ControlTimes DEF AuthorityInv, TombstonesHavePlans
  <1>6. \A q \in envelopes : q # p => /\ q # 0 /\ {d \in Artifacts : deleted'[d].plan = q} = CandsOf(q)
                                      /\ \A d \in CandsOf(q) : deleted'[d].at = deleted[d].at
    <2> SUFFICES ASSUME NEW q \in envelopes, q # p
                 PROVE  /\ q # 0 /\ {d \in Artifacts : deleted'[d].plan = q} = CandsOf(q)
                        /\ \A d \in CandsOf(q) : deleted'[d].at = deleted[d].at
      OBVIOUS
    <2>1. q # 0 /\ q \in AuthorityPlan
      BY ControlTimes DEF AuthorityInv, Authority!TypeOK, AuthorityPlan
    <2>2. {d \in Artifacts : deleted[d].plan = q} = CandsOf(q)
      BY DEF AuthorityInv, StoredPlansAreConfirmed
    <2>3. \A d \in Artifacts : \/ deleted'[d] = deleted[d]
                               \/ deleted'[d].plan = p /\ deleted[d].plan = 0
      BY <1>1, <1>2, ControlTimes
    <2> QED
      BY <2>1, <2>2, <2>3
  <1>7. {d \in Artifacts : deleted'[d].plan = p} = CandsOf(p)
    <2>1. CASE p \in envelopes
      BY <1>2, <2>1 DEF AuthorityInv, StoredPlansAreConfirmed
    <2>2. CASE p \notin envelopes
      BY <1>2, <1>3, <1>5, <2>2
    <2> QED
      BY <2>1, <2>2
  <1>8. \A d \in CandsOf(p) : deleted'[d].at = Authority!Never \/ signed[p].at <= deleted'[d].at
    <2>1. CASE p \in envelopes
      BY <1>2, <1>3, <2>1 DEF AuthorityInv, StoredPlansAreConfirmed
    <2>2. CASE p \notin envelopes
      BY <1>2, <1>3, <2>2
    <2> QED
      BY <2>1, <2>2
  <1>9. StoredPlansAreConfirmed'
    <2> SUFFICES ASSUME NEW q \in envelopes \cup {p}
                 PROVE  /\ IsSigned(q)
                        /\ Authority!Cardinality(CandsOf(q)) <= signed[q].policy.count
                        /\ Authority!Total(CandsOf(q)) <= signed[q].policy.total
                        /\ \A d \in CandsOf(q) : created[d] <= CutoffOf(q) /\ d \notin used
                        /\ {d \in Artifacts : deleted'[d].plan = q} = CandsOf(q)
                        /\ \A d \in CandsOf(q) : deleted'[d].at = Authority!Never \/ signed[q].at <= deleted'[d].at
      BY <1>2 DEF StoredPlansAreConfirmed, IsSigned, CandsOf, CutoffOf
    <2>1. CASE q = p
      BY <1>1, <1>7, <1>8, <2>1
    <2>2. CASE q # p
      BY <1>6, <2>2 DEF AuthorityInv, StoredPlansAreConfirmed
    <2> QED
      BY <2>1, <2>2
  <1>10. TombstonesHavePlans'
    BY <1>2 DEF AuthorityInv, TombstonesHavePlans
  <1>11. ControllerExecutesItsPlan'
    BY <1>1, <1>2 DEF AuthorityInv, Authority!TypeOK, ControllerExecutesItsPlan
  <1>12. NumbersAreConsecutive' /\ SignedPlansAreSound'
    BY <1>2 DEF AuthorityInv, NumbersAreConsecutive, SignedPlansAreSound, AuthorityPlan, IsSigned, CandsOf, CutoffOf
  <1> QED
    BY <1>2, <1>4, <1>9, <1>10, <1>11, <1>12 DEF AuthorityInv, AuthorityPlan

\* Removing bytes: a candidate of the stored plan, under the policy that confirmed it.
LEMMA RemovalIsWithinPolicy ==
    ASSUME AuthorityInv, NEW d \in Artifacts, Authority!Finalize(d)
    PROVE  LET p == controller.plan
           IN  /\ p \in envelopes /\ d \in CandsOf(p) /\ signed[p].at <= now
               /\ controller.policy.enabled /\ controller.store = bound /\ d \notin used
               /\ present[d].changed + controller.policy.grace <= now
               /\ created[d] + controller.policy.grace <= now
               /\ present' = [present EXCEPT ![d] = Authority!Absent]
               /\ deleted' = [deleted EXCEPT ![d].at = now]
               /\ Authority!Total({e \in Artifacts : deleted'[e].plan = p}) <= controller.policy.total
  <1> DEFINE p == controller.plan
  <1>1. /\ p # Authority!None /\ d \in CandsOf(p) /\ present[d].changed <= CutoffOf(p)
        /\ created[d] <= CutoffOf(p) /\ d \notin used /\ signed[p].at <= now
        /\ present' = [present EXCEPT ![d] = Authority!Absent]
        /\ deleted' = [deleted EXCEPT ![d].at = now]
    BY DEF Authority!Finalize, Authority!Cands, Authority!SameGeneration, Authority!StillEligible, Authority!Cutoff,
           CandsOf, CutoffOf
  <1>2. p \in envelopes /\ signed[p].policy = controller.policy /\ controller.policy.enabled
        /\ controller.store = bound
    BY <1>1 DEF AuthorityInv, ControllerExecutesItsPlan
  <1>3. IsSigned(p) /\ p \in AuthorityPlan /\ {e \in Artifacts : deleted[e].plan = p} = CandsOf(p)
        /\ Authority!Total(CandsOf(p)) <= controller.policy.total
    BY <1>2 DEF AuthorityInv, Authority!TypeOK, StoredPlansAreConfirmed, AuthorityPlan
  <1>4. {e \in Artifacts : deleted'[e].plan = p} = CandsOf(p)
    <2>1. \A e \in Artifacts : deleted'[e].plan = deleted[e].plan
      BY <1>1 DEF AuthorityInv, Authority!TypeOK
    <2> QED
      BY <1>3, <2>1
  <1>5. present[d].changed + controller.policy.grace <= now /\ created[d] + controller.policy.grace <= now
    <2>1. signed[p].at \in Nat /\ controller.policy.grace \in Nat /\ now \in Nat
      BY <1>3, PolicyType, ControlTimes DEF AuthorityInv, SignedPlansAreSound, Authority!TypeOK
    <2>2. present[d].changed \in Nat /\ created[d] \in Nat
      BY ControlTimes DEF AuthorityInv, Authority!TypeOK
    <2> QED
      BY <1>1, <1>2, <2>1, <2>2 DEF CutoffOf
  <1> QED
    BY <1>1, <1>2, <1>3, <1>4, <1>5

LEMMA FinalizingKeeps ==
    ASSUME AuthorityInv, NEW d \in Artifacts, Authority!Finalize(d)
    PROVE  AuthorityInv'
  <1> DEFINE p == controller.plan
  <1>1. /\ p \in envelopes /\ d \in CandsOf(p) /\ signed[p].at <= now
        /\ present' = [present EXCEPT ![d] = Authority!Absent]
        /\ deleted' = [deleted EXCEPT ![d].at = now]
    BY RemovalIsWithinPolicy
  <1>2. UNCHANGED <<now, setBacks, made, created, used, bound, controller, signed, envelopes>>
    BY DEF Authority!Finalize
  <1>3. (Authority!TypeOK)'
    <2>1. deleted' \in [Artifacts -> [plan : Authority!PlanNumber \cup {Authority!None},
                                      at : Authority!Time \cup {Authority!Never}]]
      <3>1. [deleted[d] EXCEPT !.at = now] \in [plan : Authority!PlanNumber \cup {Authority!None},
                                                at : Authority!Time \cup {Authority!Never}]
        BY DEF AuthorityInv, Authority!TypeOK
      <3> QED
        BY <1>1, <3>1 DEF AuthorityInv, Authority!TypeOK
    <2>2. Authority!Absent \in [gen : 0..MaxMade, changed : Authority!Time \cup {Authority!Never}]
      BY ControlTimes
    <2>3. present' \in [Artifacts -> [gen : 0..MaxMade, changed : Authority!Time \cup {Authority!Never}]]
      BY <1>1, <2>2 DEF AuthorityInv, Authority!TypeOK
    <2> QED
      BY <1>2, <2>1, <2>3 DEF AuthorityInv, Authority!TypeOK
  <1>4. \A e \in Artifacts : /\ deleted'[e].plan = deleted[e].plan
                             /\ deleted'[e].at = deleted[e].at \/ (e = d /\ deleted'[e].at = now)
    BY <1>1 DEF AuthorityInv, Authority!TypeOK
  <1>5. deleted[d].plan = p
    BY <1>1, CandidatesAreMarked
  <1>6. StoredPlansAreConfirmed'
    <2> SUFFICES ASSUME NEW q \in envelopes
                 PROVE  /\ {e \in Artifacts : deleted'[e].plan = q} = CandsOf(q)
                        /\ \A e \in CandsOf(q) : deleted'[e].at = Authority!Never \/ signed[q].at <= deleted'[e].at
      BY <1>2 DEF AuthorityInv, StoredPlansAreConfirmed, IsSigned, CandsOf, CutoffOf
    <2>1. {e \in Artifacts : deleted[e].plan = q} = CandsOf(q)
          /\ \A e \in CandsOf(q) : deleted[e].at = Authority!Never \/ signed[q].at <= deleted[e].at
      BY DEF AuthorityInv, StoredPlansAreConfirmed
    <2> QED
      BY <1>1, <1>4, <1>5, <2>1
  <1>7. TombstonesHavePlans'
    BY <1>1, <1>2, <1>4, <1>5 DEF AuthorityInv, TombstonesHavePlans
  <1>8. NumbersAreConsecutive' /\ SignedPlansAreSound' /\ ControllerExecutesItsPlan'
    BY <1>2 DEF AuthorityInv, NumbersAreConsecutive, SignedPlansAreSound, ControllerExecutesItsPlan,
       AuthorityPlan, IsSigned, CandsOf, CutoffOf
  <1> QED
    BY <1>2, <1>3, <1>6, <1>7, <1>8 DEF AuthorityInv, AuthorityPlan

LEMMA AuthorityKeeps ==
    ASSUME AuthorityInv, Authority!Next
    PROVE  AuthorityInv'
  BY ClockKeeps, ContentKeeps, ControllerKeeps, PlanningKeeps, ExecutingKeeps, FinalizingKeeps DEF Authority!Next

LEMMA AuthorityStutters ==
    ASSUME AuthorityInv, UNCHANGED authorityVars
    PROVE  AuthorityInv'
  <1> USE DEF authorityVars, AuthorityInv, AuthorityPlan, IsSigned, CandsOf, CutoffOf
  <1>1. (Authority!TypeOK)' /\ signed' = [p \in AuthorityPlan |-> signed'[p]]
    BY DEF Authority!TypeOK
  <1>2. NumbersAreConsecutive' /\ SignedPlansAreSound'
    BY DEF NumbersAreConsecutive, SignedPlansAreSound
  <1>3. StoredPlansAreConfirmed' /\ TombstonesHavePlans' /\ ControllerExecutesItsPlan'
    BY DEF StoredPlansAreConfirmed, TombstonesHavePlans, ControllerExecutesItsPlan
  <1> QED
    BY <1>1, <1>2, <1>3

\* The registry's verifier accepts every state of the invariant.
LEMMA AuthorityIsAccepted == AuthorityInv => Authority!ReadinessAcceptsRetention
  <1> SUFFICES ASSUME AuthorityInv PROVE Authority!ReadinessAcceptsRetention
    OBVIOUS
  <1>1. ASSUME NEW p \in envelopes
        PROVE  /\ signed[p].store = bound /\ Authority!PlanIsValid(p) /\ Authority!TombstonesVerify(p)
               /\ \A d \in Authority!Cands(p) : Authority!CandidateVerifies(p, d)
    <2>1. p \in AuthorityPlan /\ IsSigned(p)
      BY DEF AuthorityInv, Authority!TypeOK, StoredPlansAreConfirmed, AuthorityPlan
    <2> QED
      BY <2>1 DEF AuthorityInv, StoredPlansAreConfirmed, SignedPlansAreSound, CandsOf, CutoffOf,
         Authority!PlanIsValid, Authority!TombstonesVerify, Authority!CandidateVerifies, Authority!Cands, Authority!Cutoff
  <1> QED
    BY <1>1 DEF Authority!ReadinessAcceptsRetention, Authority!PlansVerify, AuthorityInv, TombstonesHavePlans

\* The only step that takes bytes away is the removal by a controller.
LEMMA OnlyRemovalsTakeBytes ==
    ASSUME AuthorityInv, Authority!Next, NEW d \in Artifacts,
           present[d] # Authority!Absent, present'[d] = Authority!Absent
    PROVE  Authority!Finalize(d)
  <1>1. \A e \in Artifacts : ~(present'[d] # present[d] /\ (Authority!Publish(e) \/ Authority!Restore(e)))
    <2> SUFFICES ASSUME NEW e \in Artifacts, Authority!Publish(e) \/ Authority!Restore(e), present'[d] # present[d]
                 PROVE  FALSE
      OBVIOUS
    <2>1. present' = [present EXCEPT ![e] = [gen |-> made + 1, changed |-> now]]
      BY DEF Authority!Publish, Authority!Restore
    <2>2. present'[d].gen = made + 1 /\ made \in Nat
      BY <2>1, ControlTimes DEF AuthorityInv, Authority!TypeOK
    <2> QED
      BY <2>2, ControlTimes
  <1>2. PICK e \in Artifacts : Authority!Finalize(e)
    BY <1>1 DEF Authority!Next, Authority!Pass, Authority!SetBack, Authority!MakePlan, Authority!Leave,
       Authority!Link, Authority!Construct, Authority!Execute
  <1>3. present' = [present EXCEPT ![e] = Authority!Absent]
    BY <1>2 DEF Authority!Finalize
  <1> QED
    BY <1>2, <1>3 DEF AuthorityInv, Authority!TypeOK

-----------------------------------------------------------------------------
\* The race of controllers and workers (Retention).

Committed == {"read", "recheck", "loop", "unlink", "finalize"}

\* A signed plan names generations that were published.
PlansAreSigned ==
    /\ \A d \in Digests : bytes[d] <= generations[d]
    /\ \A p \in PlanId : plans[p] # Unplanned =>
          /\ plans[p].candidates # {}
          /\ \A d \in plans[p].candidates : 1 <= plans[p].gen[d] /\ plans[p].gen[d] <= generations[d]

\* A plan's tombstones are staged together, and a digest has one plan.
TombsAreStaged ==
    \A d \in Digests :
        /\ tombs[d].done => tombs[d].plan # NoPlan
        /\ tombs[d].plan # NoPlan => /\ d \in plans[tombs[d].plan].candidates
                                     /\ \A e \in plans[tombs[d].plan].candidates : tombs[e].plan = tombs[d].plan

\* A controller past phase A works on staged candidates of its plan.
Follows(place) ==
    /\ place.pc # "idle" => /\ place.plan \in PlanId
                            /\ plans[place.plan] # Unplanned
                            /\ place.todo \subseteq plans[place.plan].candidates
    /\ place.pc \in Committed => \A d \in plans[place.plan].candidates : tombs[d].plan = place.plan
    /\ place.target \subseteq place.todo
    /\ IF place.pc \in {"unlink", "finalize"} THEN \E d \in Digests : place.target = {d}
       ELSE place.target = {}
    /\ place.pc = "finalize" => \A d \in place.target : bytes[d] = 0

ControllersFollowPlans == \A c \in Controllers : Follows(ctl[c])

\* What is linked, or about to be, has bytes and no tombstone.
LinksAreSafe ==
    /\ \A d \in linked : bytes[d] # 0 /\ d \notin Tombed
    /\ \A d \in call.links : d \in registered /\ (d \in Tombed \/ bytes[d] # 0)

Place == [pc : Pcs, plan : {NoPlan} \cup PlanId, todo : SUBSET Digests, target : SUBSET Digests]

RaceInv ==
    /\ TypeOK /\ PlansAreSigned /\ TombsAreStaged /\ ControllersFollowPlans /\ LinksAreSafe
    /\ PendingExcludesRunning /\ DeletionRecordsAreTrue

-----------------------------------------------------------------------------
LEMMA NoPlanIsNoNumber == NoPlan \notin PlanId
  BY RetentionAssumption DEF NoPlan, PlanId

LEMMA RaceInitially == Init => RaceInv
  <1> SUFFICES ASSUME Init PROVE RaceInv
    OBVIOUS
  <1>1. TypeOK
    BY RetentionAssumption DEF Init, TypeOK, Unplanned, Untombed, Idle, NoCall, NoPlan, Pcs
  <1>2. PlansAreSigned /\ TombsAreStaged /\ ControllersFollowPlans
    BY DEF Init, PlansAreSigned, TombsAreStaged, ControllersFollowPlans, Follows, Untombed, Idle, NoPlan, Committed
  <1>3. LinksAreSafe /\ PendingExcludesRunning /\ DeletionRecordsAreTrue
    BY DEF Init, LinksAreSafe, PendingExcludesRunning, DeletionRecordsAreTrue, NoCall, Untombed,
           Tombed, Pending, Finalized
  <1> QED
    BY <1>1, <1>2, <1>3 DEF RaceInv

\* Workers: only bytes, links and the running attempt change.
LEMMA WorkerKeeps ==
    ASSUME RaceInv,
           \/ \E d \in Digests : RegisterArtifact(d)
           \/ Claim \/ LoseLease \/ CommitRun
           \/ \E links \in SUBSET Digests \ {{}} : PreflightLinks(links)
    PROVE  RaceInv'
  <1> USE DEF RaceInv, PlansAreSigned, TombsAreStaged, ControllersFollowPlans, Follows, LinksAreSafe,
              PendingExcludesRunning, DeletionRecordsAreTrue, Tombed, Pending, Finalized, NoPlan
  <1>1. ASSUME NEW d \in Digests, RegisterArtifact(d) PROVE RaceInv'
    BY <1>1 DEF RegisterArtifact, store, TypeOK
  <1>2. CASE Claim
    BY <1>2, RetentionAssumption DEF Claim, ClaimsOpen, store, TypeOK
  <1>3. CASE LoseLease
    BY <1>3, RetentionAssumption DEF LoseLease, store, TypeOK
  <1>4. CASE CommitRun
    BY <1>4, RetentionAssumption DEF CommitRun, NoCall, store, TypeOK
  <1>5. ASSUME NEW links \in SUBSET Digests \ {{}}, PreflightLinks(links) PROVE RaceInv'
    BY <1>5 DEF PreflightLinks, store, TypeOK
  <1> QED
    BY <1>1, <1>2, <1>3, <1>4, <1>5

LEMMA PublishKeeps ==
    ASSUME RaceInv, NEW d \in Digests, Publish(d)
    PROVE  RaceInv'
  <1> USE DEF RaceInv, TypeOK
  <1>1. TypeOK'
    BY RetentionAssumption DEF Publish, registry
  <1>2. PlansAreSigned'
    BY RetentionAssumption DEF Publish, registry, PlansAreSigned
  <1>3. TombsAreStaged' /\ ControllersFollowPlans' /\ PendingExcludesRunning'
    BY DEF Publish, registry, TombsAreStaged, ControllersFollowPlans, Follows,
           PendingExcludesRunning, Pending, Committed
  <1>4. LinksAreSafe'
    BY DEF Publish, registry, LinksAreSafe, Tombed, Pending, Finalized
  <1>5. DeletionRecordsAreTrue'
    <2>1. \A e \in Finalized : /\ tombs[e].plan \in PlanId /\ plans[tombs[e].plan] # Unplanned
                               /\ e \in plans[tombs[e].plan].candidates
      BY DEF Finalized, TombsAreStaged, Unplanned, NoPlan
    <2>2. \A e \in Finalized : plans[tombs[e].plan].gen[e] <= generations[e]
                               /\ plans[tombs[e].plan].gen[e] \in Nat
      BY <2>1, RetentionAssumption DEF PlansAreSigned
    <2> QED
      BY <2>2, RetentionAssumption DEF Publish, registry, DeletionRecordsAreTrue, Finalized
  <1> QED
    BY <1>1, <1>2, <1>3, <1>4, <1>5

LEMMA MakePlanKeeps ==
    ASSUME RaceInv, NEW p \in PlanId, MakePlan(p)
    PROVE  RaceInv'
  <1> USE DEF RaceInv, TypeOK
  <1>1. PICK candidates \in SUBSET {d \in Digests : Eligible(d) /\ d \notin Tombed /\ bytes[d] # 0} :
          /\ candidates # {}
          /\ plans' = [plans EXCEPT ![p] =
                [candidates |-> candidates,
                 gen |-> [d \in Digests |-> IF d \in candidates THEN bytes[d] ELSE 0]]]
    BY DEF MakePlan
  <1>2. UNCHANGED <<bytes, generations, registered, linked, running, attempts, call, tombs, ctl, stops>>
    BY DEF MakePlan, store, registry
  <1>3. plans[p] = Unplanned /\ plans[p].candidates = {}
    BY DEF MakePlan, Unplanned
  <1>4. TypeOK'
    BY <1>1, <1>2, RetentionAssumption
  <1>5. PlansAreSigned'
    BY <1>1, <1>2, RetentionAssumption DEF PlansAreSigned
  <1>6. \A q \in PlanId : plans[q] # Unplanned => plans'[q] = plans[q]
    BY <1>1, <1>3
  <1>7. \A d \in Digests : tombs[d].plan # NoPlan => plans'[tombs[d].plan] = plans[tombs[d].plan]
    BY <1>3, <1>6 DEF TombsAreStaged, NoPlan
  <1>8. TombsAreStaged'
    BY <1>2, <1>7 DEF TombsAreStaged
  <1>9. ControllersFollowPlans'
    BY <1>2, <1>6 DEF ControllersFollowPlans, Follows, Committed
  <1>10. LinksAreSafe' /\ PendingExcludesRunning'
    BY <1>2 DEF LinksAreSafe, PendingExcludesRunning, Tombed, Pending, Finalized
  <1>11. DeletionRecordsAreTrue'
    BY <1>2, <1>7 DEF DeletionRecordsAreTrue, Finalized, TombsAreStaged
  <1> QED
    BY <1>4, <1>5, <1>8, <1>9, <1>10, <1>11

\* Steps that only move a controller.
LEMMA ControllerMoves ==
    ASSUME RaceInv, NEW c \in Controllers,
           UNCHANGED <<bytes, generations, registry, plans, tombs>>, stops' \in 0..MaxStops,
           NEW place, ctl' = [ctl EXCEPT ![c] = place],
           place \in Place,
           Follows(place)
    PROVE  RaceInv'
  <1> USE DEF RaceInv, TypeOK, registry
  <1>1. TypeOK'
    BY DEF Place
  <1>2. ControllersFollowPlans'
    <2>1. SUFFICES ASSUME NEW k \in Controllers PROVE Follows(ctl[k])'
      BY DEF ControllersFollowPlans
    <2>2. CASE k = c
      BY <2>2 DEF Follows
    <2>3. CASE k # c
      BY <2>3 DEF Follows, ControllersFollowPlans
    <2> QED
      BY <2>2, <2>3
  <1>3. PlansAreSigned' /\ TombsAreStaged' /\ LinksAreSafe' /\ PendingExcludesRunning' /\ DeletionRecordsAreTrue'
    BY DEF PlansAreSigned, TombsAreStaged, LinksAreSafe, PendingExcludesRunning,
           DeletionRecordsAreTrue, Tombed, Pending, Finalized
  <1> QED
    BY <1>1, <1>2, <1>3

LEMMA BeginKeeps ==
    ASSUME RaceInv, NEW c \in Controllers, NEW p \in PlanId, Begin(c, p)
    PROVE  RaceInv'
  <1> DEFINE place == [Idle EXCEPT !.plan = p, !.pc = IF Staged(p) THEN "stage" ELSE "inspect"]
  <1>1. ctl' = [ctl EXCEPT ![c] = place] /\ plans[p] # Unplanned
        /\ UNCHANGED <<bytes, generations, registry, plans, tombs>> /\ stops' \in 0..MaxStops
    BY DEF Begin, store, RaceInv, TypeOK
  <1>2. /\ place \in Place
        /\ Follows(place)
    BY <1>1 DEF Idle, Place, Pcs, Follows, Committed
  <1> QED
    BY <1>1, <1>2, ControllerMoves

\* A controller that gives up, or goes on to another step of its pass, changes nothing else.
LEMMA GiveUpKeeps ==
    ASSUME RaceInv, NEW c \in Controllers, GiveUp(c),
           UNCHANGED <<bytes, generations, registry, plans, tombs>>, stops' \in 0..MaxStops
    PROVE  RaceInv'
  <1>1. /\ Idle \in Place
        /\ Follows(Idle)
    BY DEF Idle, Place, Pcs, Follows, Committed
  <1> QED
    BY <1>1, ControllerMoves DEF GiveUp

LEMMA GotoKeeps ==
    ASSUME RaceInv, NEW c \in Controllers, NEW pc \in {"stage", "recheck", "loop"}, Goto(c, pc),
           ctl[c].pc \notin {"idle", "unlink", "finalize"}, pc = "stage" \/ ctl[c].pc \in Committed,
           UNCHANGED <<bytes, generations, registry, plans, tombs>>, stops' \in 0..MaxStops
    PROVE  RaceInv'
  <1> DEFINE place == [ctl[c] EXCEPT !.pc = pc]
  <1>1. ctl' = [ctl EXCEPT ![c] = place] /\ Follows(ctl[c])
        /\ ctl[c] \in Place
    BY DEF Goto, RaceInv, TypeOK, Place, ControllersFollowPlans
  <1>2. /\ place \in Place
        /\ Follows(place)
    BY <1>1 DEF Place, Pcs, Follows, Committed
  <1> QED
    BY <1>1, <1>2, ControllerMoves

LEMMA PassKeeps ==
    ASSUME RaceInv, NEW c \in Controllers, InspectNew(c) \/ ReadIntent(c) \/ Recheck(c) \/ Stop(c)
    PROVE  RaceInv'
  <1>1. stops \in 0..MaxStops /\ MaxStops \in Nat
    BY RetentionAssumption DEF RaceInv, TypeOK
  <1>2. CASE InspectNew(c)
    BY <1>1, <1>2, GotoKeeps, GiveUpKeeps DEF InspectNew, store
  <1>3. CASE Recheck(c)
    BY <1>1, <1>3, GotoKeeps, GiveUpKeeps DEF Recheck, store, Committed
  <1>4. CASE Stop(c)
    BY <1>1, <1>4, GiveUpKeeps DEF Stop, store
  <1>5. CASE ReadIntent(c)
    <2> DEFINE mine == plans[ctl[c].plan].candidates
               place == [ctl[c] EXCEPT !.pc = "recheck", !.todo = mine \ Finalized]
    <2>1. CASE GiveUp(c)
      BY <1>1, <1>5, <2>1, GiveUpKeeps DEF ReadIntent, store
    <2>2. CASE ctl' = [ctl EXCEPT ![c] = place]
      <3>1. ctl[c].pc = "read" /\ UNCHANGED <<bytes, generations, registry, plans, tombs, stops>>
        BY <1>5 DEF ReadIntent, store
      <3>2. Follows(ctl[c]) /\ ctl[c].plan \in PlanId /\ mine \subseteq Digests
            /\ ctl[c] \in Place
        BY <3>1 DEF RaceInv, TypeOK, Place, ControllersFollowPlans, Follows
      <3>3. /\ place \in Place
            /\ Follows(place)
        BY <3>1, <3>2 DEF Place, Pcs, Follows, Committed
      <3> QED
        BY <1>1, <2>2, <3>1, <3>3, ControllerMoves
    <2> QED
      BY <1>5, <2>1, <2>2 DEF ReadIntent
  <1> QED
    BY <1>2, <1>3, <1>4, <1>5

LEMMA NextCandidateKeeps ==
    ASSUME RaceInv, NEW c \in Controllers, NextCandidate(c)
    PROVE  RaceInv'
  <1>1. ctl[c].pc = "loop" /\ UNCHANGED <<bytes, generations, registry, plans, tombs>> /\ stops' \in 0..MaxStops
    BY DEF NextCandidate, store, RaceInv, TypeOK
  <1>2. Follows(ctl[c])
        /\ ctl[c] \in Place
    BY DEF RaceInv, TypeOK, Place, ControllersFollowPlans
  <1>3. CASE GiveUp(c)
    BY <1>1, <1>3, GiveUpKeeps
  <1>4. ASSUME NEW d \in ctl[c].todo, ctl' = [ctl EXCEPT ![c].pc = "unlink", ![c].target = {d}]
        PROVE  RaceInv'
    <2> DEFINE place == [ctl[c] EXCEPT !.pc = "unlink", !.target = {d}]
    <2>1. ctl' = [ctl EXCEPT ![c] = place]
      BY <1>4
    <2>2. /\ place \in Place
          /\ Follows(place)
      BY <1>1, <1>2 DEF Place, Pcs, Follows, Committed
    <2> QED
      BY <1>1, <2>1, <2>2, ControllerMoves
  <1>5. ASSUME NEW d \in ctl[c].todo, ctl' = [ctl EXCEPT ![c].todo = @ \ {d}]
        PROVE  RaceInv'
    <2> DEFINE place == [ctl[c] EXCEPT !.todo = @ \ {d}]
    <2>1. ctl' = [ctl EXCEPT ![c] = place]
      BY <1>5
    <2>2. /\ place \in Place
          /\ Follows(place)
      BY <1>1, <1>2 DEF Place, Pcs, Follows, Committed
    <2> QED
      BY <1>1, <2>1, <2>2, ControllerMoves
  <1> QED
    BY <1>3, <1>4, <1>5 DEF NextCandidate

\* Phase A: the only step that stages tombstones.
LEMMA StageKeeps ==
    ASSUME RaceInv, NEW c \in Controllers, Stage(c)
    PROVE  RaceInv'
  <1> DEFINE p == ctl[c].plan
             staged == [d \in Digests |-> IF ~Staged(p) /\ d \in plans[p].candidates
                                          THEN [plan |-> p, done |-> FALSE] ELSE tombs[d]]
  <1> USE DEF RaceInv, TypeOK
  <1>1. ctl[c].pc = "stage" /\ UNCHANGED <<bytes, generations, registry, plans, stops>>
    BY DEF Stage, store
  <1>2. Follows(ctl[c]) /\ p \in PlanId /\ plans[p] # Unplanned /\ ctl[c].target = {}
    BY <1>1 DEF ControllersFollowPlans, Follows
  <1>3. CASE GiveUp(c) /\ UNCHANGED tombs
    BY <1>1, <1>3, GiveUpKeeps
  <1>4. CASE Stageable(p) /\ Goto(c, "read") /\ tombs' = staged
    <2>1. plans[p].candidates \subseteq Digests /\ plans[p].candidates # {}
          /\ \A d \in plans[p].candidates : d \notin linked
      BY <1>2, <1>4 DEF Stageable, Eligible, PlansAreSigned
    <2>2. running = 0
      BY <1>4 DEF Stageable, NoRunningWork
    <2>3. \A d \in Digests : tombs[d].plan # NoPlan => tombs'[d] = tombs[d]
      BY <1>4 DEF Stageable, Tombed, Pending, Finalized
    <2>4. \A d \in plans[p].candidates : tombs'[d].plan = p
      <3>1. CASE Staged(p)
        <4>1. PICK e \in Digests : tombs[e].plan = p
          BY <3>1 DEF Staged
        <4>2. \A d \in plans[p].candidates : tombs[d].plan = p
          BY <1>2, <4>1, NoPlanIsNoNumber DEF TombsAreStaged
        <4> QED
          BY <1>4, <2>1, <3>1, <4>2
      <3>2. CASE ~Staged(p)
        BY <1>4, <2>1, <3>2
      <3> QED
        BY <3>1, <3>2
    <2>5. \A d \in Digests : tombs'[d].plan # NoPlan => tombs'[d] = tombs[d] \/ d \in plans[p].candidates
      BY <1>4
    <2>6. \A d \in Digests : tombs'[d].done => tombs'[d] = tombs[d]
      BY <1>4
    <2>7. TypeOK'
      <3>1. tombs' \in [Digests -> [plan : {NoPlan} \cup PlanId, done : BOOLEAN]]
        BY <1>2, <1>4
      <3>2. ctl' \in [Controllers -> [pc : Pcs, plan : {NoPlan} \cup PlanId,
                                      todo : SUBSET Digests, target : SUBSET Digests]]
        BY <1>4, ZenonT(40) DEF Goto, Pcs
      <3> QED
        BY <1>1, <3>1, <3>2 DEF registry
    <2>8. PlansAreSigned' /\ PendingExcludesRunning'
      BY <1>1, <2>2 DEF PlansAreSigned, PendingExcludesRunning, registry
    <2>9. TombsAreStaged'
      BY <1>1, <2>3, <2>4, <2>5, <2>6 DEF TombsAreStaged
    <2>10. ControllersFollowPlans'
      <3> SUFFICES ASSUME NEW k \in Controllers PROVE Follows(ctl[k])'
        BY DEF ControllersFollowPlans
      <3>1. CASE k = c
        <4>1. ctl'[c] = [ctl[c] EXCEPT !.pc = "read"] /\ ctl[c] \in Place
          BY <1>4 DEF Goto, Place
        <4>2. ctl'[c].pc = "read" /\ ctl'[c].plan = p /\ ctl'[c].todo = ctl[c].todo /\ ctl'[c].target = {}
          BY <1>2, <4>1 DEF Place
        <4> QED
          BY <1>1, <1>2, <2>4, <3>1, <4>2 DEF Follows
      <3>2. CASE k # c
        <4>1. ctl'[k] = ctl[k] /\ Follows(ctl[k])
          BY <1>4, <3>2 DEF Goto, ControllersFollowPlans
        <4>2. ctl[k].pc \in Committed => \A d \in plans[ctl[k].plan].candidates : tombs'[d].plan = ctl[k].plan
          <5>1. SUFFICES ASSUME ctl[k].pc \in Committed, NEW d \in plans[ctl[k].plan].candidates
                         PROVE  tombs'[d].plan = ctl[k].plan
            OBVIOUS
          <5>2. ctl[k].plan \in PlanId /\ tombs[d].plan = ctl[k].plan
            BY <4>1, <5>1 DEF Follows, Committed
          <5>3. d \in Digests
            BY <5>2
          <5> QED
            BY <2>3, <5>2, <5>3, NoPlanIsNoNumber
        <4> QED
          BY <1>1, <4>1, <4>2 DEF Follows, Committed
      <3> QED
        BY <3>1, <3>2
    <2>11. LinksAreSafe'
      <3>1. \A d \in Digests : d \in Tombed <=> tombs[d].plan # NoPlan
        BY DEF Tombed, Pending, Finalized, TombsAreStaged
      <3>2. \A d \in Digests : d \in Tombed' <=> tombs'[d].plan # NoPlan
        BY <2>9 DEF Tombed, Pending, Finalized, TombsAreStaged
      <3>3. \A d \in Digests : d \in Tombed => d \in Tombed'
        BY <2>3, <3>1, <3>2
      <3>4. \A d \in linked : d \notin Tombed'
        BY <2>1, <2>5, <3>1, <3>2 DEF LinksAreSafe
      <3> QED
        BY <1>1, <3>3, <3>4 DEF LinksAreSafe, registry
    <2>12. DeletionRecordsAreTrue'
      BY <1>1, <2>6 DEF DeletionRecordsAreTrue, Finalized
    <2> QED
      BY <2>7, <2>8, <2>9, <2>10, <2>11, <2>12
  <1> QED
    BY <1>3, <1>4 DEF Stage

\* A controller about to unlink holds one candidate, tombed by its plan and unlinked by no run.
LEMMA TargetIsTombed ==
    ASSUME RaceInv, NEW c \in Controllers, ctl[c].pc \in {"unlink", "finalize"}
    PROVE  \E d \in Digests : /\ ctl[c].target = {d} /\ tombs[d].plan = ctl[c].plan
                              /\ ctl[c].plan \in PlanId /\ plans[ctl[c].plan] # Unplanned
                              /\ d \in plans[ctl[c].plan].candidates
                              /\ d \in Tombed /\ d \notin linked
  <1>1. Follows(ctl[c])
    BY DEF RaceInv, ControllersFollowPlans
  <1>2. PICK d \in Digests : ctl[c].target = {d}
    BY <1>1 DEF Follows
  <1>3. ctl[c].plan \in PlanId /\ plans[ctl[c].plan] # Unplanned
        /\ d \in plans[ctl[c].plan].candidates /\ tombs[d].plan = ctl[c].plan
    BY <1>1, <1>2 DEF Follows, Committed
  <1>4. d \in Tombed /\ d \notin linked
    BY <1>3 DEF Tombed, Pending, Finalized, NoPlan, PlanId, RaceInv, LinksAreSafe
  <1> QED
    BY <1>2, <1>3, <1>4

LEMMA UnlinkKeeps ==
    ASSUME RaceInv, NEW c \in Controllers, Unlink(c)
    PROVE  RaceInv'
  <1> USE DEF RaceInv, TypeOK
  <1>1. ctl[c].pc = "unlink" /\ UNCHANGED <<generations, registry, plans, tombs, stops>>
    BY DEF Unlink
  <1>2. CASE UNCHANGED bytes /\ GiveUp(c)
    BY <1>1, <1>2, GiveUpKeeps
  <1>3. CASE /\ bytes' = [d \in Digests |-> IF d \in ctl[c].target THEN 0 ELSE bytes[d]]
             /\ Goto(c, "finalize")
    <2>1. PICK d \in Digests : /\ ctl[c].target = {d} /\ tombs[d].plan = ctl[c].plan
                               /\ ctl[c].plan \in PlanId /\ plans[ctl[c].plan] # Unplanned
                               /\ d \in plans[ctl[c].plan].candidates
                               /\ d \in Tombed /\ d \notin linked
      BY <1>1, TargetIsTombed
    <2>2. \A e \in Digests : bytes'[e] = IF e = d THEN 0 ELSE bytes[e]
      BY <1>3, <2>1
    <2>3. TypeOK'
      <3>1. ctl' \in [Controllers -> Place]
        BY <1>3, ZenonT(40) DEF Goto, Pcs, Place
      <3>2. bytes' \in [Digests -> 0..MaxGeneration]
        BY <1>3, RetentionAssumption
      <3> QED
        BY <1>1, <3>1, <3>2 DEF registry, Place
    <2>4. PlansAreSigned' /\ TombsAreStaged' /\ PendingExcludesRunning'
      BY <1>1, <2>2, RetentionAssumption DEF PlansAreSigned, TombsAreStaged, PendingExcludesRunning, Pending, registry
    <2>5. ControllersFollowPlans'
      <3> SUFFICES ASSUME NEW k \in Controllers PROVE Follows(ctl[k])'
        BY DEF ControllersFollowPlans
      <3>1. CASE k = c
        BY <1>1, <1>3, <2>1, <2>2, <3>1 DEF Follows, ControllersFollowPlans, Goto, Committed
      <3>2. CASE k # c
        <4>1. ctl'[k] = ctl[k] /\ Follows(ctl[k])
          BY <1>3, <3>2 DEF Goto, ControllersFollowPlans
        <4> QED
          BY <1>1, <2>2, <4>1 DEF Follows, Committed
      <3> QED
        BY <3>1, <3>2
    <2>6. LinksAreSafe'
      BY <1>1, <2>1, <2>2 DEF LinksAreSafe, Tombed, Pending, Finalized, registry
    <2>7. DeletionRecordsAreTrue'
      <3>1. \A e \in Finalized : /\ tombs[e].plan \in PlanId /\ plans[tombs[e].plan] # Unplanned
                                 /\ e \in plans[tombs[e].plan].candidates
        BY DEF Finalized, TombsAreStaged, Unplanned, NoPlan
      <3> QED
        BY <1>1, <2>2, <3>1 DEF DeletionRecordsAreTrue, Finalized, PlansAreSigned
    <2> QED
      BY <2>3, <2>4, <2>5, <2>6, <2>7
  <1> QED
    BY <1>2, <1>3 DEF Unlink

LEMMA FinalizeKeeps ==
    ASSUME RaceInv, NEW c \in Controllers, Finalize(c)
    PROVE  RaceInv'
  <1> USE DEF RaceInv, TypeOK
  <1> DEFINE target == CHOOSE d \in ctl[c].target : TRUE
  <1>1. ctl[c].pc = "finalize" /\ UNCHANGED <<bytes, generations, registry, plans, stops>>
    BY DEF Finalize, store
  <1>2. CASE UNCHANGED tombs /\ GiveUp(c)
    BY <1>1, <1>2, GiveUpKeeps
  <1>3. CASE /\ tombs' = [tombs EXCEPT ![target].done = TRUE]
             /\ ctl' = [ctl EXCEPT ![c].pc = "loop", ![c].target = {}, ![c].todo = @ \ {target}]
    <2>1. PICK d \in Digests : /\ ctl[c].target = {d} /\ tombs[d].plan = ctl[c].plan
                               /\ ctl[c].plan \in PlanId /\ plans[ctl[c].plan] # Unplanned
                               /\ d \in plans[ctl[c].plan].candidates
                               /\ d \in Tombed /\ d \notin linked
      BY <1>1, TargetIsTombed
    <2>2. target = d
      BY <2>1
    <2>3. bytes[d] = 0
      BY <1>1, <2>1 DEF ControllersFollowPlans, Follows
    <2>4. \A e \in Digests : tombs'[e].plan = tombs[e].plan /\ (tombs'[e].done <=> e = d \/ tombs[e].done)
      BY <1>3, <2>2, ZenonT(40)
    <2>5. TypeOK'
      <3>1. ctl' \in [Controllers -> Place]
        <4> HIDE DEF target
        <4>1. ctl[c] \in Place
          BY DEF Place
        <4>2. [ctl[c] EXCEPT !.pc = "loop", !.target = {}, !.todo = @ \ {target}] \in Place
          BY <4>1 DEF Pcs, Place
        <4> QED
          BY <1>3, <4>2 DEF Place
      <3>2. tombs' \in [Digests -> [plan : {NoPlan} \cup PlanId, done : BOOLEAN]]
        <4> DEFINE stone == [tombs[d] EXCEPT !.done = TRUE]
        <4>1. tombs' = [tombs EXCEPT ![d] = stone]
          BY <1>3, <2>2
        <4>2. stone \in [plan : {NoPlan} \cup PlanId, done : BOOLEAN]
          BY ZenonT(40)
        <4> HIDE DEF stone
        <4> QED
          BY <4>1, <4>2
      <3> QED
        BY <1>1, <3>1, <3>2 DEF registry, Place
    <2>6. PlansAreSigned' /\ TombsAreStaged' /\ PendingExcludesRunning'
      <3>1. PlansAreSigned'
        BY <1>1 DEF PlansAreSigned
      <3>2. TombsAreStaged'
        BY <1>1, <2>1, <2>4, NoPlanIsNoNumber DEF TombsAreStaged
      <3>3. Pending' \subseteq Pending
        BY <2>4 DEF Pending
      <3> QED
        BY <1>1, <3>1, <3>2, <3>3 DEF PendingExcludesRunning, registry
    <2>7. ControllersFollowPlans'
      <3> SUFFICES ASSUME NEW k \in Controllers PROVE Follows(ctl[k])'
        BY DEF ControllersFollowPlans
      <3>1. CASE k = c
        BY <1>1, <1>3, <2>1, <2>4, <3>1 DEF Follows, ControllersFollowPlans, Committed
      <3>2. CASE k # c
        <4>1. ctl'[k] = ctl[k] /\ Follows(ctl[k])
          BY <1>3, <3>2 DEF ControllersFollowPlans
        <4> QED
          BY <1>1, <2>4, <4>1 DEF Follows, Committed
      <3> QED
        BY <3>1, <3>2
    <2>8. LinksAreSafe'
      BY <1>1, <2>1, <2>4 DEF LinksAreSafe, Tombed, Pending, Finalized, registry
    <2>9. DeletionRecordsAreTrue'
      BY <1>1, <2>1, <2>3, <2>4 DEF DeletionRecordsAreTrue, Finalized, PlansAreSigned
    <2> QED
      BY <2>5, <2>6, <2>7, <2>8, <2>9
  <1> QED
    BY <1>2, <1>3 DEF Finalize

LEMMA RaceKeeps ==
    ASSUME RaceInv, Next
    PROVE  RaceInv'
  <1>1. ASSUME NEW c \in Controllers, Advance(c) \/ Stop(c) PROVE RaceInv'
    BY <1>1, PassKeeps, StageKeeps, NextCandidateKeeps, UnlinkKeeps, FinalizeKeeps DEF Advance
  <1> QED
    BY <1>1, PublishKeeps, WorkerKeeps, MakePlanKeeps, BeginKeeps DEF Next

\* A step that takes bytes away is the unlink of a pending candidate in its planned generation.
LEMMA UnlinksArePlanned ==
    ASSUME RaceInv, Next, NEW d \in Digests, bytes[d] # 0, bytes'[d] = 0
    PROVE  d \in Pending /\ bytes[d] = plans[tombs[d].plan].gen[d]
  <1>1. \A e \in Digests : ~Publish(e)
    BY RetentionAssumption, SMTT(30) DEF Publish, RaceInv, TypeOK
  <1>2. PICK c \in Controllers : Unlink(c)
    BY <1>1 DEF Next, Advance, Begin, Stop, InspectNew, Stage, ReadIntent, Recheck, NextCandidate, Finalize,
                MakePlan, RegisterArtifact, Claim, LoseLease, CommitRun, PreflightLinks, store
  <1>3. ctl[c].pc = "unlink" /\ d \in ctl[c].target /\ GenerationMatches(ctl[c].plan, d)
    BY <1>2 DEF Unlink, RaceInv, TypeOK
  <1>4. tombs[d].plan = ctl[c].plan /\ d \in Tombed
    BY <1>3, TargetIsTombed
  <1>5. bytes[d] = plans[tombs[d].plan].gen[d]
    BY <1>3, <1>4 DEF GenerationMatches
  <1>6. d \notin Finalized
    BY <1>5, SMTT(30) DEF RaceInv, DeletionRecordsAreTrue
  <1> QED
    BY <1>4, <1>5, <1>6 DEF Tombed

LEMMA TombstonesStay ==
    ASSUME RaceInv, Next, NEW d \in Digests
    PROVE  /\ d \in Tombed => tombs'[d].plan = tombs[d].plan
           /\ d \in Finalized => tombs'[d].done
  <1> USE DEF RaceInv, TypeOK
  <1>1. ASSUME NEW c \in Controllers, Stage(c) PROVE d \in Tombed => tombs'[d] = tombs[d]
    BY <1>1 DEF Stage, Stageable
  <1>2. ASSUME NEW c \in Controllers, Finalize(c)
        PROVE  tombs'[d].plan = tombs[d].plan /\ (tombs[d].done => tombs'[d].done)
    <2> DEFINE target == CHOOSE e \in ctl[c].target : TRUE
    <2>1. UNCHANGED tombs \/ tombs' = [tombs EXCEPT ![target].done = TRUE]
      BY <1>2 DEF Finalize
    <2> HIDE DEF target
    <2> QED
      BY <2>1
  <1>3. CASE UNCHANGED tombs
    BY <1>3 DEF Finalized
  <1> QED
    BY <1>1, <1>2, <1>3 DEF Next, Advance, Begin, Stop, InspectNew, ReadIntent, Recheck, NextCandidate, Unlink,
           Tombed, Finalized, MakePlan, Publish, RegisterArtifact, Claim, LoseLease, CommitRun, PreflightLinks


-----------------------------------------------------------------------------
\* Both sides.

ControlInv == RaceInv /\ AuthorityInv

LEMMA ControlInvariance == ControlSpec => []ControlInv
  <1>1. ControlInit => ControlInv
    BY RaceInitially, AuthorityInitially DEF ControlInit, ControlInv
  <1>2. ControlInv /\ [ControlNext]_controlVars => ControlInv'
    <2> SUFFICES ASSUME ControlInv, [ControlNext]_controlVars PROVE ControlInv'
      OBVIOUS
    <2> USE DEF ControlInv
    <2>1. UNCHANGED vars => RaceInv'
      BY DEF vars, store, registry, RaceInv, TypeOK, PlansAreSigned, TombsAreStaged, ControllersFollowPlans, Follows,
             LinksAreSafe, PendingExcludesRunning, DeletionRecordsAreTrue, Tombed, Pending, Finalized
    <2>2. UNCHANGED authorityVars => AuthorityInv'
      BY AuthorityStutters
    <2> QED
      BY <2>1, <2>2, RaceKeeps, AuthorityKeeps DEF ControlNext, controlVars
  <1> QED
    BY <1>1, <1>2, PTL DEF ControlSpec

\* The variables of both sides keep their types.
THEOREM ControlTypes == ControlSpec => []ControlTypeOK
  <1>1. ControlInv => ControlTypeOK
    BY DEF ControlInv, RaceInv, AuthorityInv, ControlTypeOK
  <1> QED
    BY <1>1, ControlInvariance, PTL

\* Retention removes no linked evidence, however many controllers plan, stage, resume,
\* unlink and stop while workers claim, preflight and commit.
THEOREM EvidenceIsKept == ControlSpec => []EvidenceKeepsItsBytes
  <1>1. ControlInv => EvidenceKeepsItsBytes
    BY DEF ControlInv, RaceInv, LinksAreSafe, EvidenceKeepsItsBytes
  <1> QED
    BY <1>1, ControlInvariance, PTL

\* No attempt runs under a pending tombstone, a final one tells the truth, and the
\* registry's verifier accepts whatever retention left, under any clock and policy.
THEOREM DeletionAccounting == ControlSpec => []DeletionIsAccounted
  <1>1. ControlInv => DeletionIsAccounted
    BY AuthorityIsAccepted DEF ControlInv, RaceInv, DeletionIsAccounted, DeletionIsJustified
  <1> QED
    BY <1>1, ControlInvariance, PTL

\* Bytes go only in the generation a plan signed, under its own tombstone, and under the
\* policy of the controller that removes them.
THEOREM DeletionAuthority == ControlSpec => DeletionIsAuthorized
  <1>1. ControlInv /\ [ControlNext]_controlVars =>
          [\A d \in Digests : bytes[d] # 0 /\ bytes'[d] = 0
             => d \in Pending /\ bytes[d] = plans[tombs[d].plan].gen[d]]_vars
    BY UnlinksArePlanned DEF ControlInv, ControlNext, controlVars, vars
  <1>2. ControlInv /\ [ControlNext]_controlVars =>
          [\A d \in Digests : /\ d \in Tombed => tombs'[d].plan = tombs[d].plan
                              /\ d \in Finalized => tombs'[d].done]_vars
    BY TombstonesStay DEF ControlInv, ControlNext, controlVars, vars
  <1>3. ControlInv /\ [ControlNext]_controlVars =>
          [\A d \in Artifacts : present[d] # Authority!Absent /\ present'[d] = Authority!Absent =>
             /\ controller.policy.enabled /\ controller.store = bound /\ d \notin used
             /\ present[d].changed + controller.policy.grace <= now
             /\ created[d] + controller.policy.grace <= now
             /\ Authority!Total({e \in Artifacts : deleted'[e].plan = controller.plan})
                  <= controller.policy.total]_(Authority!authorityVars)
    <2> SUFFICES ASSUME ControlInv, ControlNext, ~UNCHANGED (Authority!authorityVars), NEW d \in Artifacts,
                        present[d] # Authority!Absent, present'[d] = Authority!Absent
                 PROVE  /\ controller.policy.enabled /\ controller.store = bound /\ d \notin used
                        /\ present[d].changed + controller.policy.grace <= now
                        /\ created[d] + controller.policy.grace <= now
                        /\ Authority!Total({e \in Artifacts : deleted'[e].plan = controller.plan})
                             <= controller.policy.total
      BY DEF controlVars, authorityVars, Authority!authorityVars
    <2>1. Authority!Finalize(d)
      BY OnlyRemovalsTakeBytes DEF ControlInv, ControlNext, authorityVars, Authority!authorityVars
    <2> QED
      BY <2>1, RemovalIsWithinPolicy DEF ControlInv
  <1>4. ControlSpec => OnlyPlannedBytesAreUnlinked
    BY <1>1, ControlInvariance, PTL DEF ControlSpec, OnlyPlannedBytesAreUnlinked
  <1>5. ControlSpec => TombstonesAreMonotonic
    BY <1>2, ControlInvariance, PTL DEF ControlSpec, TombstonesAreMonotonic
  <1>6. ControlSpec => Authority!DeletionIsWithinPolicy
    BY <1>3, ControlInvariance, PTL DEF ControlSpec, Authority!DeletionIsWithinPolicy
  <1> QED
    BY <1>4, <1>5, <1>6 DEF DeletionIsAuthorized
=============================================================================
