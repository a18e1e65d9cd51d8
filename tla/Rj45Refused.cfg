SPECIFICATION GenerationSpec
CONSTANTS
  Slot = 2
  Networks <- Overlapping
  MaxPools = 3
CHECK_DEADLOCK FALSE
INVARIANTS
  Rj45sAccepted
