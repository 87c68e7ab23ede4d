SPECIFICATION MCSpec
CONSTANTS
  btc1 = btc1
  btc2 = btc2
  eth = eth
  s1 = s1
  s2 = s2
  Windows <- OneWindow
  Assets <- MCAssets
  AssetOf <- MCAssetOf
  Sessions <- TwoSessions
  Evidence <- MCEvidence
  VerdictOf <- MCVerdictOf
  Costs = {2}
  Fees = {0, 1}
  Prices = {0, 1}
  Payout = 5
  Buffer = 1
  StartEquity = 7
  MaxOpen = 2
  MaxPerAsset = 1
  MaxDecisions = 2
  MaxAttempts = 2
  Absent = Absent
  EventOf <- MCEventOf
  ObsOf <- MCObsOf
  BookOf <- MCBookOf
  CandOf <- MCCandOf
  MarketOf <- MCMarketOf
  MaxCalls = 2
  StepRows = 7
  RawCap = 1
  LastCutoff = 2
  Databases <- MCDatabases
  MaxOpens = 3
  RecoveryPublishes = 2
  TroubleSets <- MCTroubles
  MaxLost = 1
  MaxRuns = 2
  MaxFailures = 1
  Unknown = Unknown
  MaxAge <- MCMaxAge
  Interval <- MCInterval
  StaleLimit <- MCStaleLimit
  MaxWait = 2
  MaxRows = 1
  MaxTime = 5
  MaxFaults = 1
INVARIANT
  EvidencedExit
PROPERTIES
  EvidenceSound
  SchemaSound
  FilesSound
  HistoryStands
  LiveReservationsKept
CHECK_DEADLOCK FALSE
