SPECIFICATION MCSpec
CONSTANT
  MaxPushed = 3
INVARIANTS
  HalvesAdjacent
CHECK_DEADLOCK FALSE
