SPECIFICATION Spec
CONSTANTS
  i1 = i1
  i2 = i2
  NullId = NullId
  NoInput = NoInput
  Ids <- MCIds
  Methods <- MCMethods
  Names <- MCNames
  Reqs = {r1}
  Inputs <- MCFewInputs
  Drivers = {"loop"}
  MaxFaults = 1
INVARIANTS
  WrittenOnce
CHECK_DEADLOCK FALSE
