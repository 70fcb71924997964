CONSTANTS
  MaxSessions = 1
  MaxRenderers = 2
  MaxFrames = 2
  MaxClicks = 2
  None = None
SPECIFICATION Spec
CHECK_DEADLOCK FALSE
INVARIANTS
  TypeOK
  CaptureFresh
PROPERTIES
  NeverBackwards
  FlagComesDown
  ClickIsServed
