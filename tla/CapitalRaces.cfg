SPECIFICATION Spec
CONSTANTS
  d1 = d1
  d2 = d2
  e1 = e1
  a1 = a1
  planner = planner
  wording = wording
  None = None
  Planner = planner
  Decisions = {d1, d2}
  Entries = {e1}
  Assessments = {a1}
  Handlers = {h1}
  MaxPower = 1
  Plans <- CreatedPlans
  EntryOf <- SameEntry
  Payable <- AllPay
  AssessedFor <- AssessesFirst
INVARIANTS TypeOK OverbookingBounded ReadyIsAssessed PlansInv
