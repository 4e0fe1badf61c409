\* A blind count of one product by three people, who may find it unlisted;
\* the supervisor computes and advances while they count.
SPECIFICATION Spec
CONSTANTS
  Skus = {s1}
  Users = {u1, u2, u3}
  Counters = {}
  Freezes = {TRUE}
  Blinds = {TRUE}
  Threshold = 0
  Offline = FALSE
  RecountFlag = FALSE
  Honest = FALSE
  Corrections = TRUE
  Movers = {}
  MaxQty = 1
SYMMETRY UserSymmetry
INVARIANTS
  CountTypeOK
  TwoObservers
  NoUncountedAsZero
CHECK_DEADLOCK FALSE
