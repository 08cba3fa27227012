SPECIFICATION Spec
CONSTANTS
  N = 4
  Victims <- FewVictims
  ForkFailsAt <- NoFork
  InterruptAt <- InTheGame
INVARIANTS TypeOK RoundsApart FindsTarget DumpFindsTargets ReleasedAtExit
PROPERTIES ImplementsGame
