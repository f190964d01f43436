SPECIFICATION Spec
CONSTANTS
  Names <- MCNames
  KeySeqs <- MCKeySeqs
  ArgSpecs <- MCArgSpecs
INVARIANTS
  TypeOK
  ReturnsPositional
  ThrowsOnUnknownOnly
CHECK_DEADLOCK FALSE
