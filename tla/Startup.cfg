CONSTANTS
  Inputs <- MCInputs
  Missing = Missing
  Empty = Empty
  None = None
  MaxRuns = 3
  MaxSessions = 2
SPECIFICATION Spec
CHECK_DEADLOCK FALSE
INVARIANTS
  TypeOK
  ThrowsOnlyForBadFiles
  OwnBytesOnly
PROPERTIES
  FinishedStays
  ClickFinishes
