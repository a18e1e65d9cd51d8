SPECIFICATION SpecCLIsEnd
CONSTANTS
  r1 = r1
  r2 = r2
  q1 = q1
  q2 = q2
  Runs <- TwoRuns
  Reqs <- OneReq
  Threads <- TwoRunsOneReq
  PoolSize = 1
  MaxRestarts = 0
CHECK_DEADLOCK FALSE
INVARIANTS
  TypeOK
  OutcomeTrue
PROPERTIES
  FinalizersEnd
