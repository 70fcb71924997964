CONSTANTS
  Payloads <- MCPayloads
  MaxSessions = 1
  MaxPayloads = 3
SPECIFICATION Spec
CHECK_DEADLOCK FALSE
INVARIANTS
  TypeOK
  RecordedInOrder
  SetsBeforeSlices
