\* A blind count whose scans are sent after the pass they were made in.
SPECIFICATION Spec
CONSTANTS
  Skus = {s1, s2}
  Users = {u1, u2}
  Counters = {}
  Freezes = {TRUE}
  Blinds = {TRUE}
  Threshold = 0
  Offline = TRUE
  RecountFlag = FALSE
  Honest = FALSE
  Corrections = TRUE
  Movers = {}
  MaxQty = 1
INVARIANTS
  TwoObservers
CHECK_DEADLOCK FALSE
