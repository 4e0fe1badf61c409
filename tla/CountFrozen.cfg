\* A frozen folio against movements that began before it was opened.
SPECIFICATION Spec
CONSTANTS
  Skus = {s1}
  Users = {u1, u2}
  Counters = {}
  Freezes = {TRUE}
  Blinds = {FALSE}
  Threshold = 0
  Offline = FALSE
  RecountFlag = FALSE
  Honest = FALSE
  Corrections = TRUE
  Movers = {"out"}
  MaxQty = 1
PROPERTIES
  FrozenBookStands
CHECK_DEADLOCK FALSE
