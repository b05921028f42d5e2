-------------------------- MODULE RetentionControl --------------------------
(***************************************************************************)
(* Retention from its two sides: controllers and workers that race          *)
(* (Retention, where plans are taken as signed), and what makes a plan      *)
(* valid: policy, clock, store and age (RetentionAuthority, with one        *)
(* controller at a time).  A behaviour is about one of the two.             *)
(***************************************************************************)
EXTENDS Retention

CONSTANTS Artifacts, Size, Policies, Stores, MaxTime, MaxSetBacks, MaxSigned, MaxMade

ASSUME AuthorityAssumption ==
    /\ Artifacts \subseteq Nat /\ IsFiniteSet(Artifacts) /\ Size \in [Artifacts -> Nat]
    /\ Policies \subseteq [enabled : BOOLEAN, grace : Nat \ {0}, count : Nat \ {0}, total : Nat \ {0}]
    /\ 0 \notin Stores
    /\ MaxTime \in Nat /\ MaxSetBacks \in Nat /\ MaxSigned \in Nat /\ MaxMade \in Nat

VARIABLES
    side,                     \* what this behaviour is about
    now, setBacks, present, made, created, used, bound, controller, signed, envelopes, deleted

authorityVars == <<now, setBacks, present, made, created, used, bound, controller, signed, envelopes, deleted>>
controlVars == <<side, vars, authorityVars>>

Authority == INSTANCE RetentionAuthority WITH bytes <- present

ControlInit ==
    /\ side \in {"race", "authority"}
    /\ Init /\ Authority!Init
    /\ side = "race" => controller = CHOOSE c \in [policy : Policies, store : Stores, plan : {0}] : TRUE

ControlNext ==
    /\ UNCHANGED side
    /\ \/ side = "race" /\ Next /\ UNCHANGED authorityVars
       \/ side = "authority" /\ Authority!Next /\ UNCHANGED vars
       \/ side = "authority" /\ UNCHANGED <<vars, authorityVars>>

\* The fairness of Retention's FairSpec.
ControlSpec ==
    /\ ControlInit /\ [][ControlNext]_controlVars
    /\ \A c \in Controllers : WF_vars(Advance(c))
    /\ \A p \in PlanId : SF_vars(PendingIn(p) /\ Resume(p))

-----------------------------------------------------------------------------
\* The types of both.
ControlTypeOK == TypeOK /\ Authority!TypeOK

\* No attempt runs while a tombstone is pending, a final one tells the truth, and the
\* registry's own verifier accepts what retention leaves in it (Retention,
\* RetentionAuthority).
DeletionIsAccounted == DeletionIsJustified /\ Authority!ReadinessAcceptsRetention

\* Bytes go only in the generation a plan signed, no controller takes over or resets
\* the tombstone of another plan, and bytes go only under the policy of the
\* controller that removes them (Retention, RetentionAuthority).
DeletionIsAuthorized ==
    OnlyPlannedBytesAreUnlinked /\ TombstonesAreMonotonic /\ Authority!DeletionIsWithinPolicy
=============================================================================
