SPECIFICATION FairSpec
CONSTANTS
  Intents = {i1}
  Handlers = {h1}
  Worker = worker
  WorkerEnabled = TRUE
  None = none
  Qty = 1
  MaxFilled = 1
  TermValues = {terms}
  Terms <- SameTerms
  Unit = 1
  Notional <- UnitNotional
  Caps = {1}
  Faults = {}
PROPERTY CancelledFillReachesLedger
