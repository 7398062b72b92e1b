CONSTANTS
  Calendars <- MCCalendars
  Gregorian12 <- MCGregorian12
  Rules <- MCRules
  StartDays <- MCStartDays
  StartTime = 1
  DayLen = 3
  FirstDay <- MCFirstDay
  LastDay <- MCLastDay
  Int32 <- MCInt32
  Int64 <- MCInt64
  MaxYears = 3
  MaxEmpty = 2
SPECIFICATION Spec
INVARIANTS
  DaysAsRfc7529
  NoInstanceLost
  AgreesWithGregorian
PROPERTIES
  Ends
CHECK_DEADLOCK FALSE
