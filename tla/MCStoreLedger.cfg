SPECIFICATION MCSpec
CONSTANTS
  btc1 = btc1
  btc2 = btc2
  eth = eth
  s1 = s1
  s2 = s2
  Windows <- ThreeWindows
  Assets <- MCAssets
  AssetOf <- MCAssetOf
  Sessions <- OneSession
  Evidence = {"says_yes"}
  VerdictOf <- MCVerdictOf
  Costs = {2}
  Fees = {1}
  Prices = {0}
  Payout = 5
  Buffer = 1
  StartEquity = 11
  MaxOpen = 2
  MaxPerAsset = 1
  MaxDecisions = 1
  MaxAttempts = 1
  EntryWindows = {"w1"}
  MaxSessions = 2
  MaxObs = 3
  MaxLate = 1
INVARIANTS
  EntrySound
  LifecyclesAgree
  RestartAccepted
PROPERTY
  ImplementsLedger
CHECK_DEADLOCK FALSE
