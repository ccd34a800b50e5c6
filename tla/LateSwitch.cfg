SPECIFICATION Spec
CONSTANTS
  Intents = {i1}
  Handlers = {h1, h2}
  Worker = worker
  WorkerEnabled = FALSE
  None = none
  Qty = 1
  MaxFilled = 1
  TermValues = {terms}
  Terms <- SameTerms
  Unit = 1
  Notional <- UnitNotional
  Caps = {1}
  Faults = {}
SYMMETRY HandlerSymmetry
PROPERTY SwitchesClearAtSubmission
