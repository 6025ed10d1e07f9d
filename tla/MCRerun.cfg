\* The same plan executed twice on one account, two cells at a time.
SPECIFICATION Spec
CONSTANTS
  c1 = c1
  c2 = c2
  c3 = c3
  p1 = p1
  p2 = p2
  Cell = {c1, c2}
  MaxRuns = 2
  MaxConcurrency = 2
  PlanOf <- SamePlan
  StaleReads = FALSE
SYMMETRY CellSymmetry
CHECK_DEADLOCK FALSE
INVARIANTS OneCreatePerPlannedCell JournalNeverContradicts OwnershipIsDurable EvidenceIsTruthful PublishedIsAccountedFor
PROPERTIES CreatesOnlyOnSettledAccount
