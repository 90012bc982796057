SPECIFICATION Spec
CONSTANTS
  Scenarios <- DefaultScenario
  Word = 65536
  WsnNodes = 26
  GridWidth = 30
  Delta = 2
  MaxRange = 42
  MaxHosts = 254
  MaxFlows = 5
  HalfSecond = 5
  Period = 1
  Interval = 1
  StopTime = 150
  Buffer = 1
INVARIANT FlowsReach
CHECK_DEADLOCK FALSE
