SPECIFICATION Spec
CONSTANTS
  hasty = hasty
  patient = patient
  Scrapes = {hasty, patient}
  MaxAge <- Ages
  Budget <- Budgets
  Storing = {hasty, patient}
  Edges = {2, 3}
  MinTier = 1
  LastTime = 3
  NoPage = NoPage
CHECK_DEADLOCK FALSE
INVARIANTS
  ReplayIsFresh
  BudgetHonoured
PROPERTIES
  OnlyGoodPagesKept
