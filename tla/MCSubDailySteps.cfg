CONSTANTS
  Rules <- MCRules
  MaxEpoch = 259199
  LastDay = 2
SPECIFICATION Spec
INVARIANTS
  Aligned
PROPERTIES
  NothingSkipped
  PeriodsInOrder
  Terminates
CHECK_DEADLOCK FALSE
