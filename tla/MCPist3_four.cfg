SPECIFICATION FairSpec
CONSTANTS
  N = 4
  Victims <- AnyVictim
INVARIANTS TypeOK PhasesApart NoReleaseFails ReturnsSurvivor
PROPERTIES ImplementsGame GameEnds
CHECK_DEADLOCK FALSE
