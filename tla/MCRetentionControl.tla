------------------------- MODULE MCRetentionControl -------------------------
(* Values of the constants of RetentionControl for TLC. *)
EXTENDS RetentionControl, TLC

CONSTANTS d1, d2, c1, c2

TwoDigests == {d1, d2}
TwoControllers == {c1, c2}
Sizes == 1 :> 1 @@ 2 :> 2
TwoPolicies == {[enabled |-> TRUE, grace |-> 1, count |-> 2, total |-> 3],
                [enabled |-> TRUE, grace |-> 2, count |-> 1, total |-> 2]}
=============================================================================
