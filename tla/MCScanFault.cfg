SPECIFICATION MCSpec
CONSTANTS
  Tokens = {"t1"}
  EntryShares = 2
  MaxChases = 1
  MaxHeld = 1
  ExitCutoff = 1
  AgeCutoff = 0
  MaxTime = 1
  MaxOrders = 3
  MaxCommands = 1
  MaxLaunches = 2
  NUnits = 1
  UnitRows = 2
  MaxBad = 1
  ScanFaults = TRUE
  Assets = {"BTC", "ETH"}
  NWindows = 2
  MaxOpen = 1
  MaxPerAsset = 1
  MaxRetries = 1
  Batch = 1
  MaxCrashes = 1
  RepairOnline = FALSE
INVARIANT
  CycleComplete
CHECK_DEADLOCK FALSE
