SPECIFICATION Spec
CONSTANT MaxTokens = 9
INVARIANTS
  TypeOK
  OpenPathLive
  KeysMatchValues
  RoundTrip
  LinesIndented
PROPERTIES
  ReadsTheGrammar
CHECK_DEADLOCK FALSE
