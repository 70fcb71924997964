CONSTANTS
  Payloads <- MCFewPayloads
  MaxSessions = 2
  MaxPayloads = 2
SPECIFICATION Spec
CHECK_DEADLOCK FALSE
INVARIANTS
  AtMostOneAfterClick
  OldClickRecordsNothing
PROPERTIES
  FinalIsFinal
  ClickCloses
