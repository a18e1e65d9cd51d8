----------------------------- MODULE MCPlanCache -----------------------------
(* Instances of PlanCache for TLC.  The cache holds fewer entries than there *)
(* are keys whose plan can be saved, so that saves push entries out.         *)
EXTENDS PlanCache, TLC

CONSTANTS t1, t2, plain, rich, s1, s2

TwoThreads == {t1, t2}
TwoDocs == {plain, rich}
OneRich == {rich}
TwoSelectors == {s1, s2}

Symmetry == Permutations(TwoThreads) \cup Permutations(TwoSelectors)
==============================================================================
