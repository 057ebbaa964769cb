--------------------------- MODULE MCRunLifecycle ---------------------------
(* Instances of RunLifecycle for TLC: one plan, so every run contends for   *)
(* the same lock.                                                           *)
EXTENDS RunLifecycle, TLC

CONSTANTS p1, w1, w2

OneRun == {1}
TwoRuns == 1..2
OnePlan == {p1}
SamePlan == [r \in Runs |-> p1]
Single == {w1}
Pair == {w1, w2}
AllModes == {"graph", "recompose"}
GraphOnly == {"graph"}
=============================================================================
