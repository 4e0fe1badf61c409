\* A product is counted, sold and counted again by the same person, in a
\* folio that freezes nothing.
SPECIFICATION Spec
CONSTANTS
  Skus = {s1}
  Users = {u1, u2}
  Counters = {u1}
  Freezes = {FALSE}
  Blinds = {FALSE}
  Threshold = 0
  Offline = FALSE
  RecountFlag = FALSE
  Honest = TRUE
  Corrections = TRUE
  Movers = {"out"}
  MaxQty = 2
PROPERTIES
  BookMeetsShelf
CHECK_DEADLOCK FALSE
