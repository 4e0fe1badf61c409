\* One folio, its supervisor and the person who reconciles it.
SPECIFICATION Spec
CONSTANTS
  Skus = {s1}
  Users = {u1, u2, u3}
  Counters = {}
  Freezes = {TRUE}
  Blinds = {FALSE}
  Threshold = 0
  Offline = FALSE
  RecountFlag = FALSE
  Honest = FALSE
  Corrections = TRUE
  Movers = {}
  MaxQty = 1
PROPERTIES
  ClosedStaysClosed
CHECK_DEADLOCK FALSE
