SPECIFICATION SafetySpec
CONSTANTS
  Intents = {i1}
  Handlers = {h1, h2}
  Worker = worker
  WorkerEnabled = TRUE
  None = none
  Qty = 2
  MaxFilled = 3
  TermValues = {terms, otherTerms}
  Terms <- SameTerms
  Unit = 1
  Notional <- UnitNotional
  Caps = {1, 2}
  Faults = {"crash", "malformed"}
CONSTRAINT InSetup
SYMMETRY HandlerSymmetry
INVARIANTS
  TypeOK IInv
  SubmittedOnce BrokerOrderAccounted PlacedOnlyApproved LedgerFillsHappened OpenRecordHasReference
PROPERTIES RejectionIsFinal DoubtStopsTrading KeepsPromise
