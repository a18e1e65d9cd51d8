SPECIFICATION GenerationSpec
CONSTANTS
  Slot = 2
  Networks <- Overlapping
  MaxPools = 3
CHECK_DEADLOCK FALSE
INVARIANTS
  Disjoint
  PoolsServed
  CountsMet
  GroupsFit
  DegreesMet
  RoutersConnected
  AddressesDistinct
  FlowsAsAsked
  OwnScriptsUnlessTouched
  SlotsPlaced
  AllowRulesSuffice
  InterfacesDistinct
  HostsAttached
  DockersPlaced
