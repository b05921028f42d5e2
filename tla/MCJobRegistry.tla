--------------------------- MODULE MCJobRegistry ---------------------------
(* Values of the constants of JobRegistry for TLC. *)
EXTENDS JobRegistry, TLC

CONSTANTS w1, w2

MCWorkers    == {w1, w2}
MCSoloWorker == {w1}
MCSymmetry   == Permutations(MCWorkers)

\* Two jobs, the second one more urgent, the first one with a retry.
TwoJobPriority == <<1, 2>>
TwoJobAttempts == <<2, 1>>

\* Three jobs, the first one with a retry: a recovery batch smaller than what expires, and
\* an expired job that returns to a full queue.
ThreeJobPriority == <<1, 1, 1>>
ThreeJobAttempts == <<2, 1, 1>>

ShortLease == {1}
=============================================================================
