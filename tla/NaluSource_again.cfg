CONSTANTS
  Nalus = 4
  MaxSessions = 2
SPECIFICATION Spec
CHECK_DEADLOCK FALSE
INVARIANTS
  GetsOneFrame
