SPECIFICATION FairSpec
CONSTANTS
  i1 = i1
  i2 = i2
  NullId = NullId
  NoInput = NoInput
  Ids <- MCIds
  Methods <- MCMethods
  Names <- MCNames
  Reqs = {r1, r2}
  Inputs <- MCFewInputs
  Drivers = {"workers"}
  MaxFaults = 0
PROPERTIES
  CrossThreadTrigger
CHECK_DEADLOCK FALSE
