CONSTANTS
  MaxSessions = 2
  MaxRenderers = 1
  MaxFrames = 2
  MaxClicks = 1
  None = None
SPECIFICATION Spec
CHECK_DEADLOCK FALSE
INVARIANTS
  ClickServedOnce
  
