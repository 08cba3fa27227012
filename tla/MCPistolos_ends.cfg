SPECIFICATION FairSpec
CONSTANTS
  N = 3
  Victims <- AnyVictim
  ForkFailsAt <- AnyFork
  InterruptAt <- AnyTime
PROPERTIES GameEnds
CHECK_DEADLOCK FALSE
