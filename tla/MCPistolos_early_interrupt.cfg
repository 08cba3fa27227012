SPECIFICATION Spec
CONSTANTS
  N = 3
  Victims <- AnyVictim
  ForkFailsAt <- NoFork
  InterruptAt <- WhileStarting
INVARIANTS ReleasedAtExit
