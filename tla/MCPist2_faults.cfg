SPECIFICATION FairSpec
CONSTANTS
  N = 3
  Bypass = FALSE
  Victims <- TwoDie
  Faults <- AllFaults
  InterruptAt <- DuringGame
INVARIANTS NoChildFails ReleasedAtExit
PROPERTIES CleanupCompletes GameEnds
