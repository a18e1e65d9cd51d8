SPECIFICATION Spec
CONSTANTS
  r1 = r1
  r2 = r2
  q1 = q1
  q2 = q2
  Runs <- OneRun
  Reqs <- TwoReqs
  Threads <- OneRunTwoReqs
  PoolSize = 1
  MaxRestarts = 1
CHECK_DEADLOCK FALSE
INVARIANTS
  HistoryGenuine
  TornOnlyIfRaced
PROPERTIES
  UncontendedAppend
