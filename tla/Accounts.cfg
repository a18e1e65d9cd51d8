SPECIFICATION Spec
CONSTANTS
  boot = boot
  t1 = t1
  t2 = t2
  c1 = c1
  p1 = p1
  p2 = p2
  Threads <- BootAndTwo
  Boot = boot
  Clients <- OneClient
  Names <- SeededNames
  Passwords <- TwoPasswords
  RemovesTmp = TRUE
  MaxRequests = 4
  MaxCrashes = 1
SYMMETRY Symmetry
CHECK_DEADLOCK FALSE
INVARIANTS
  TypeOK
  AdminRemains
  NamesUnique
  AloneIsAtomic
  RemovedStays
PROPERTIES
  SpoiltByOverlap
