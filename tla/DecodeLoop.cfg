CONSTANTS
  InBuffers = 2
  OutBuffers = 3
  Depth = 2
  MaxReconfigs = 3
SPECIFICATION Spec
CHECK_DEADLOCK FALSE
INVARIANTS
  TypeOK
  NoStall
  ArrayFresh
  DrainedAtEnd
PROPERTIES
  InputComesFree
  EosEndsLoop
