SPECIFICATION MCSpec
CONSTANTS
  Jobs = {"j1", "j2", "j3"}
  JobCapacity = 2
  MinInterval = 2
  Threshold = 2
  MaxSetbacks = 1
  RowBudget = 3
  ChunkRows = 2
  MaxEligible = 4
  Models = {"lag", "trend"}
  Results <- MCResults
  MinObservations = 1
  SevereObservations = 2
  FactorTenths = 9
  ExpectancyTenths = 1
  AsymmetryCap = 3
  Cooldown = 2
  MaxCarried = 1
  MaxTrades = 2
  MaxHealthTime = 4
  Assets = {"BTC"}
  NWindows = 2
  MaxOpen = 2
  MaxPerAsset = 2
  MaxRetries = 1
  Batch = 1
  MaxCrashes = 1
  RepairOnline = FALSE
INVARIANTS
  LoopsSound
PROPERTIES
  WorkerSound
  WorkerAnswers
  ReliefComes
  Settles
CHECK_DEADLOCK FALSE
