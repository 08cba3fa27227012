SPECIFICATION Spec
CONSTANTS
  N = 3
  Bypass = FALSE
  Victims <- TwoDie
  Faults = {}
  InterruptAt <- Anywhere
INVARIANTS ReleasedAtExit
