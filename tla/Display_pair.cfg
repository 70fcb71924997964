CONSTANTS
  MaxSessions = 1
  MaxRenderers = 1
  MaxFrames = 4
  MaxClicks = 2
  None = None
SPECIFICATION Spec
CHECK_DEADLOCK FALSE
INVARIANTS
  NoTornPicture
PROPERTIES
  NoFrameLost
  ImplementsSlot
