\* A cleanup that cannot ask CORE for its sessions.
CONSTANTS
  c1 = c1
  b1 = b1
  MaxId = 2
  MaxClosing = 2
  MaxAttempts = 2
  Cleaners <- OneCleaner
  Builders <- OneBuilder
SPECIFICATION Spec
INVARIANTS
  SparesActive
CHECK_DEADLOCK FALSE
