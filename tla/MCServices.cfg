SPECIFICATION MCSpec
CONSTANTS
  caller1 = caller1
  caller2 = caller2
  caller3 = caller3
  c1 = c1
  c2 = c2
  w1 = w1
  w2 = w2
  Callers <- MCCallers
  BatchRows <- MCBatchRows
  EventKeys = {"e1"}
  StateValues = {"v1", "v2"}
  Capacity = 3
  HighWater = 2
  MaxChunk = 2
  RetryBudget = 1
  MaxRows = 3
  PhysicalMax = 2
  UpWindows = 2
  EnterWindows = 2
  ExitWindows = 2
  HealthyWindows = 2
  RateWindow = 2
  Settle = 5
  WindowSize = 3
  MaxSecond = 5
  MaxHeld = 1
  MaxAdmitted = 1
  MaxFaults = 1
  Candidates = {c1, c2}
  NetEdge <- MCNetEdge
  Depth <- MCDepth
  KeyOrder <- MCKeyOrder
  WindowOf <- MCWindowOf
  Windows = {w1, w2}
  Launches = {1, 2}
  MaxEvents = 7
  MaxProcs = 2
  Pids = {"p1", "p2"}
INVARIANTS
  GateSound
  TelemetryYields
  TelemetrySound
  ArbitrationSound
  OwnershipSound
PROPERTIES
  NoOvertaking
  CriticalNotStarved
  StopProgresses
  OccupancyStands
CHECK_DEADLOCK FALSE
