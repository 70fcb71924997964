CONSTANTS
  Sizes <- MCSizes
  Levels = {0, 1, 15, 16, 17, 100, 127, 128, 129, 200, 254, 255}
SPECIFICATION Spec
CHECK_DEADLOCK FALSE
INVARIANTS
  OwnSamples
  ColoursAgree
