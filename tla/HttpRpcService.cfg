SPECIFICATION FairSpec
CONSTANTS
  i1 = i1
  i2 = i2
  NullId = NullId
  NoInput = NoInput
  Ids <- MCIds
  Methods <- MCMethods
  Names <- MCNames
  Reqs = {r1, r2}
  Inputs <- MCInputs
  Drivers = {"loop", "workers"}
  MaxFaults = 0
PROPERTIES
  Implements
  ServesInLoop
CHECK_DEADLOCK FALSE
