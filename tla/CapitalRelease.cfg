SPECIFICATION FairSpec
CONSTANTS
  d1 = d1
  d2 = d2
  e1 = e1
  a1 = a1
  planner = planner
  wording = wording
  None = None
  Planner = planner
  Decisions = {d1, d2}
  Entries = {e1}
  Assessments = {a1}
  Handlers = {h1}
  MaxPower = 1
  Plans <- WithLegacyPlan
  EntryOf <- SameEntry
  Payable <- OnlyFirstPays
  AssessedFor <- AssessesFirst
PROPERTIES MissedPlanReleased FillBecomesPosition
