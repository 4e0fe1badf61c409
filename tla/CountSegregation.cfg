\* One folio, its counters, its supervisor and who reconciles it.
SPECIFICATION Spec
CONSTANTS
  Skus = {s1}
  Users = {u1, u2, u3}
  Counters = {}
  Freezes = {TRUE}
  Blinds = {FALSE}
  Threshold = 0
  Offline = FALSE
  RecountFlag = FALSE
  Honest = FALSE
  Corrections = TRUE
  Movers = {}
  MaxQty = 1
PROPERTIES
  SegregationOfDuties
CHECK_DEADLOCK FALSE
