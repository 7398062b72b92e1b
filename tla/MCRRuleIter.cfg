CONSTANT Rules <- MCRules
SPECIFICATION Spec
INVARIANTS
  BudgetExact
PROPERTIES
  IsStream
  CallReturns
