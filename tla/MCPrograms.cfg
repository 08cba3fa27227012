SPECIFICATION ProgramsSpec
CONSTANTS
  Pids = {p1, p2, p3}
  MaxCount = 2
  Cells <- Point
  WalkerBirths <- Walkers
  CarBirths <- Cars
  Advance <- Way
  Off = "off"
SYMMETRY PidSymmetry
INVARIANTS NobodyRunOver FindsSlot NobodyOutlivesMain OthersSound
PROPERTIES LostByStore
CHECK_DEADLOCK FALSE
