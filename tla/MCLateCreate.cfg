\* A create that outlives the harness and the sealed digest of its attempt.
SPECIFICATION Spec
CONSTANTS
  c1 = c1
  c2 = c2
  c3 = c3
  p1 = p1
  p2 = p2
  Cell = {c1}
  MaxRuns = 1
  MaxConcurrency = 1
  PlanOf <- SamePlan
  StaleReads = FALSE
CHECK_DEADLOCK FALSE
INVARIANTS RetainedIdentityIsSealed
