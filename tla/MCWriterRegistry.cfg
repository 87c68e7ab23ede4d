SPECIFICATION MCSpec
CONSTANTS
  Commands <- MCCommands
  Keys <- MCKeys
  OrderingKeys <- MCOrderingKeys
  Idem <- MCIdem
  Content <- MCContent
  OrderingKey <- MCOrderingKey
  Priority <- MCPriority
  TradeCritical <- RetryCommands
  MaxAttempts = 2
  Capacity = 2
  MaxFaults = 2
  MaxCrashes = 0
INVARIANT
  RegistryExact
CHECK_DEADLOCK FALSE
