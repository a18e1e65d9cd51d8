--------------------------- MODULE MCRunRegistry ---------------------------
(* Small instances of RunRegistry: two runs and one request thread for the  *)
(* pool, one run and two request threads for the races on the history file. *)
EXTENDS RunRegistry

CONSTANTS r1, r2, q1, q2

TwoRuns == {r1, r2}
OneReq == {q1}
TwoRunsOneReq == TwoRuns \cup OneReq

OneRun == {r1}
TwoReqs == {q1, q2}
OneRunTwoReqs == OneRun \cup TwoReqs
=============================================================================
