SPECIFICATION Spec
CONSTANTS
  N = 4
  Bypass = FALSE
  Victims <- AnyVictim
  Faults = {}
  InterruptAt = {}
INVARIANTS TypeOK PhasesApart UniqueCoordinator AliveCountAgrees NoLostShot MessagesOfThisRound
PROPERTIES CoordinatorStable ImplementsGame
