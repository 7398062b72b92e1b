CONSTANTS
  Letters = {"n", "x"}
  Inputs <- MCInputs
  Models <- MCModels
SPECIFICATION Spec
INVARIANTS
  CleanIffGrammar
  
  NothingLost
CHECK_DEADLOCK FALSE
