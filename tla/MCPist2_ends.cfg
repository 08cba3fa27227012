SPECIFICATION FairSpec
CONSTANTS
  N = 3
  Bypass = TRUE
  Victims <- AnyVictim
  Faults = {}
  InterruptAt = {}
PROPERTIES GameEnds
CHECK_DEADLOCK FALSE
