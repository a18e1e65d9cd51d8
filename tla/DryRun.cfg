SPECIFICATION BackendSpec
CONSTANTS
  t1 = t1
  t2 = t2
  f1 = f1
  f2 = f2
  c1 = c1
  b1 = b1
  Threads <- TwoThreads
  Files <- TwoFiles
  ScenarioFiles <- OneFile
  ActiveFiles <- OneFile
  Confs <- FiveConfs
  RemovesTmp = FALSE
  MaxId = 2
  MaxClosing = 2
  MaxAttempts = 2
  Cleaners <- OneCleaner
  Builders <- OneBuilder
  MaxEvents = 4
  MaxLines = 3
  MaxCancels = 2
CHECK_DEADLOCK FALSE
INVARIANT
  DryRunStops
