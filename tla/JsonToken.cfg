SPECIFICATION MCTokenSpec
CONSTANTS
  Pieces <- MCPieces
  StringPieces <- MCStringPieces
  MaxText = 7
  MaxString = 20
  MaxUnits = 3
  MaxPushed = 4
  IntLimit = 11
  LongLimits = {11, 81}
INVARIANTS
  TypeOK
  AcceptsEveryText
  MeansWhatItSays
  NoHalves
  NumbersAreJson
  WithinText
  IntegersExact
  RereadsAsStored
  StringsRead
CHECK_DEADLOCK FALSE
