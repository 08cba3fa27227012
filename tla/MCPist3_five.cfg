SPECIFICATION Spec
CONSTANTS
  N = 5
  Victims <- TwoRounds
INVARIANT PhasesApart
