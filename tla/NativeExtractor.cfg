CONSTANTS
  Files <- MCFiles
  Heaps <- MCHeaps
  Missing = Missing
  Limit = 3
  MaxParts = 5
SPECIFICATION Spec
CHECK_DEADLOCK FALSE
INVARIANTS
  CutsTheFile
  NothingLeaks
  AbortsOnlyWithoutSets
