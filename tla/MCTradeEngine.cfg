SPECIFICATION MCSpec
CONSTANTS
  btc1 = btc1
  btc2 = btc2
  s1 = s1
  s2 = s2
  Windows <- MCWindows
  Assets <- MCAssets
  AssetOf <- MCAssetOf
  Sessions <- MCSessions
  Evidence <- MCEvidence
  VerdictOf <- MCVerdictOf
  Costs = {2}
  Fees = {0}
  Prices = {1}
  Payout = 5
  Buffer = 1
  StartEquity = 7
  MaxOpen = 2
  MaxPerAsset = 1
  MaxDecisions = 1
  MaxAttempts = 2
  MaxFaults = 1
INVARIANTS
  EngineSound
PROPERTIES
  UsesStore
  Resolved
CHECK_DEADLOCK FALSE
