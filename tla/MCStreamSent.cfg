SPECIFICATION MCSpec
CONSTANTS
  a = a
  b = b
  s1 = s1
  s2 = s2
  p1 = p1
  p2 = p2
  p3 = p3
  m1 = m1
  m2 = m2
  m3 = m3
  Tokens = {a, b}
  Windows = {1, 2}
  WindowTokens <- MCWindowTokens
  Rotators = {"loop"}
  MaxTs = 2
  MaxBuffer = 1
  MaxStrikes = 2
  MaxAttempts = 1
  MaxEpoch = 2
  Streams = {s1, s2}
  Payloads = {p1, p2, p3}
  ProviderTs <- MCProviderTs
  Price <- MCPrice
  EqualAllowed = {s2}
  DedupeCapacity = 2
  StreamCapacity = 1
  MaxReconnects = 1
  MaxMono = 2
  MaxLog = 4
  AssetSets <- MCAssetSets
  QueueCapacity = 2
  MaxTicks = 3
  MaxConnections = 3
  ListedMarkets = {m1, m2, m3}
  WindowListed <- MCWindowListed
  Span = 2
  MinRemaining = 1
  MaxClock = 6
  MaxRestarts = 1
  StreamKeys = {"c1", "c2", "c3"}
  SourceOf <- MCSources
  KindOf <- MCKinds
  Classes = {"ok", "late"}
  CountCap = 1
  FlushRows = 2
  ChunkRows = 1
  MaxSecond = 1
  MaxEvents = 3
INVARIANT
  SubscribedWasSent
CHECK_DEADLOCK FALSE
