CONSTANTS
  MaxDepth = 2
  MaxLines = 4
  Stubborn <- MCStubborn
  Names <- MCNames
  StrictNames <- MCStrictNames
  Fold <- MCFold
  Props <- MCProps
  Lines <- MCLines
SPECIFICATION RTSpec
INVARIANTS
  RepairsIffInvalid
  ModesAgree
  LosslessUpToRepairs
  RoundTripIdentity
CHECK_DEADLOCK FALSE
