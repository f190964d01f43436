SPECIFICATION FairSpec
CONSTANTS
  i1 = i1
  i2 = i2
  NullId = NullId
  NoInput = NoInput
  Ids <- MCIds
  Methods <- MCMethods
  Names <- MCNames
  Reqs = {r1, r2}
  Inputs <- MCFewInputs
  Drivers = {"loop", "workers"}
  MaxFaults = 2
INVARIANTS
  TypeOK
  OneAnswer
  HandedOver
  AssertionHolds
PROPERTIES
  AnsweredUnlessAborted
CHECK_DEADLOCK FALSE
