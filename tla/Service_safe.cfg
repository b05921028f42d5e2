SPECIFICATION MCSpec
CONSTANTS
  log = log
  trace = trace
  e1 = e1
  e2 = e2
  e3 = e3
  Channels <- Both
  MaxRecords = 4
  QueueCapacity = 2
  BatchSize = 2
  MaxRetries = 1
  Exchanges <- ThreeExchanges
  GlobalConcurrency = 2
  DataConcurrency = 1
  Burst = 1
  Rate = 1
  MaxTicks = 1
INVARIANTS
  ServiceTypeOK
  TelemetryIsAccounted
  ExchangesAreAccounted
PROPERTIES
  DrainHolds
  StopIsBounded
CHECK_DEADLOCK FALSE
