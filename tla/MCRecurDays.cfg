CONSTANTS
  Rules <- MCRules
  Years <- MCYears
  WalkYears = {0, 9890}
  LastYear = 9999
SPECIFICATION CalendarSpec
INVARIANTS
  DaysAreRfc
  YearsInOrder
  FormulasMatchWalk
CHECK_DEADLOCK FALSE
