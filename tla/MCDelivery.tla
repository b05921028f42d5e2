----------------------------- MODULE MCDelivery -----------------------------
(* Values of the constants of Delivery for TLC. *)
EXTENDS Delivery, TLC

\* 1 the start, 2 a promotion to prod, 3 to main, 4 pushed to main directly, 5 the next version.
Graph == 1 :> {} @@ 2 :> {1} @@ 3 :> {1, 2} @@ 4 :> {1, 3} @@ 5 :> {4}
Manifests == 1 :> 1 @@ 2 :> 1 @@ 3 :> 1 @@ 4 :> 1 @@ 5 :> 2
CaseFold == "a" :> "a" @@ "A" :> "a" @@ "b" :> "b"
Findings == "clean" :> {"vulnerability", "license"} @@ "edited" :> {"license"} @@ "bad" :> {"license", "critical"}
BothModes == <<"disabled", "enabled">>
TwoEqual == 1 :> 1 @@ 2 :> 1 @@ 3 :> 2
=============================================================================
