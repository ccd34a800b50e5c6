SPECIFICATION BackgroundSpec
CONSTANTS
  \* ingestion queue
  Symbols = {s1}
  Kinds = {"listing", "quotes", "independent"}
  Global = Global
  BatchSize = 2
  AlphaLimit = 1
  MaxAttempts = 2
  LastDay = 0
  MaxFailures = 2
  MaxCrashes = 1
  MaxApiRuns = 1
  \* broker gateway
  MaxConnects = 2
  MaxReads = 1
  MaxRestarts = 1
INVARIANTS
  TypeOK
  QuotaHeld ActivationComplete
  QuietDisconnect
PROPERTIES
  KeepsLifecycle QueueDrains RetryPossible
CHECK_DEADLOCK FALSE
