SPECIFICATION MCSpec
CONSTANT
  MaxPushed = 3
INVARIANTS
  CollatesPairs
CHECK_DEADLOCK FALSE
