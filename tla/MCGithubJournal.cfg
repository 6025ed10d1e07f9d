\* Two processes append the same two records to one branch.
SPECIFICATION Spec
CONSTANTS
  w1 = w1
  w2 = w2
  r1 = r1
  r2 = r2
  r3 = r3
  Process = {w1, w2}
  Record = {r1, r2}
  MaxTries = 3
CHECK_DEADLOCK FALSE
PROPERTIES ImplementsJournal
