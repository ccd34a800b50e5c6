SPECIFICATION ResearchSpec
CONSTANTS
  \* risk service
  Requests <- RiskRequests
  Configurations <- OwnPolicies
  DefaultPolicy <- Policy0
  Callers = {c1, c2}
  MaxPolicies = 2
  MaxUpdates = 1
  \* market data and the paper simulator
  Providers = {"robinhood"}
  Items <- MarketItems
  Runners = {r1}
  MaxRuns = 2
  Traders = {t1, t2}
  Authorized <- PaperAuthorized
  InitialCash = 3011500
  \* strategy council
  Artifacts <- CouncilArtifacts
  People = {"ann", "bob"}
  Codex = "codex"
  Panels = {p1, p2}
  MaxArtifacts = 1
  \* candidate scanner
  Instruments <- ScanInstruments
  Histories <- ScanHistories
  Specs <- ScanSpecs
  Scenarios = {f1, f2}
  Authors = {a1}
  ScanSize = 3
  MaxPriceAge = 7
  MaxVersions = 2
  MaxChanges = 2
  \* broker synchronization and dividend exits
  Tools = {"get_portfolio", "get_equity_positions", "get_equity_orders"}
  Fragile = {"get_equity_positions"}
  Syncers = {"worker"}
  MaxSyncs = 2
  LastTick = 4
  Bought = 1
  Positions = {"p1", "p2"}
  Fractional = {"p2"}
  ExTick = 1
  Opens = 1
  Closes0 = 4
  Target = 2
  Prices = {1, 2}
  MaxQuotes = 1
  MaxDeaths = 1
  \* notifications
  NoticePlans = {1, 2}
  EmailLimit = 1
  Health = {"up", "down"}
  MaxEvents = 2
  MaxFailures0 = 2
  MaxSwings = 2
  \* logins and sessions
  Sources = {h1, h2}
  SourceLimit = 1
  BridgeLimit = 2
  Window = 1
  LastMinute = 3
  MaxBackends = 1
  SessionIds = {i1}
  Browsers = {b1, b2}
  IdleTTL = 2
  TTL = 3
  LastHour = 5
  \* trading calendar
  Years = {2021, 2022, 2023}
  FirstDate <- FirstDay
  LastDate <- LastDay
  ShownSessions = 4
INVARIANT EligibleIsUndisputed
CHECK_DEADLOCK FALSE
