SPECIFICATION Spec
CONSTANTS
  Scenarios <- MCScenarios
  Word = 16
  WsnNodes = 3
  GridWidth = 3
  Delta = 1
  MaxRange = 2
  MaxHosts = 4
  MaxFlows = 3
  HalfSecond = 3
  Period = 3
  Interval = 2
  StopTime = 13
  Buffer = 1
INVARIANTS TypeOK OnSchedule OwnSinkOnly SourcesBalanced ReadingOfOnePeriod SendsToItsSink CrossesOneRateErrorModel RatioOfOnePeriod ReportAddsUp
PROPERTY SimulationEnds
CHECK_DEADLOCK FALSE
