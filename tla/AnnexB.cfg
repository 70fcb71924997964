CONSTANTS
  Files <- MCFiles
  MaxParts = 6
SPECIFICATION Spec
CHECK_DEADLOCK FALSE
INVARIANTS
  RecordsEveryUnit
  GroupsAsModelled
  BufferFits
