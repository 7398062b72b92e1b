CONSTANTS
  Zones <- MCZones
  YearLen = 12
  FirstHorizon = 1
  Slack = 1
  PerYear = 1
  MaxYears = 4
  MaxYear = 7
  Rules <- MCRules
  UntilRange = 3
  Spans <- MCSpans
  Padding = 6
  ProbeStep = 2
SPECIFICATION MCSpec
INVARIANTS
  AnswersArePep495
  InstancesResolved
  UntilIsInstant
  GeneratedAgrees
PROPERTIES
  NeverRevised
CHECK_DEADLOCK FALSE
