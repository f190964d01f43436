SPECIFICATION Spec
CONSTANTS
  Objs = {a, b}
  Keys = {k1, k2}
  Elems <- MCElems
  Missing = Missing
  NumberTexts = {"1"}
  OtherTexts = {"", "inf"}
  MaxSize = 3
INVARIANTS
  TypeOK
  WellFormed
  LookupsAgree
PROPERTIES
  DuplicatesFromPushKVs
  IsMap
CHECK_DEADLOCK FALSE
