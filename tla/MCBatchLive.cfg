\* Every wait of the worker is bounded.
SPECIFICATION FairSpec
CONSTANTS
  c1 = c1
  c2 = c2
  c3 = c3
  p1 = p1
  p2 = p2
  Cell = {c1, c2}
  MaxRuns = 1
  MaxConcurrency = 1
  PlanOf <- SamePlan
  StaleReads = TRUE
CHECK_DEADLOCK FALSE
PROPERTIES BatchFinishes
