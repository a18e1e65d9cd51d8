SPECIFICATION Spec
CONSTANTS
  t1 = t1
  t2 = t2
  plain = plain
  rich = rich
  s1 = s1
  s2 = s2
  None = None
  Threads <- TwoThreads
  Docs <- TwoDocs
  Rich <- OneRich
  Selectors <- TwoSelectors
  Capacity = 2
  MaxClock = 1
  MaxCrashes = 1
  MaxRewrites = 1
SYMMETRY Symmetry
INVARIANTS TypeOK EntriesGenuine
PROPERTIES BehavesAtomically
