\* One person counts a product, without freezing it, while others sell,
\* receive, reserve and release it; another person reconciles.
SPECIFICATION Spec
CONSTANTS
  Skus = {s1}
  Users = {u1, u2}
  Counters = {u1}
  Freezes = {FALSE}
  Blinds = {FALSE}
  Threshold = 50
  Offline = FALSE
  RecountFlag = FALSE
  Honest = TRUE
  Corrections = FALSE
  Movers = {"in", "out", "reserve", "deliver", "expire"}
  MaxQty = 2
INVARIANTS
  BookCoversReserve
PROPERTIES
  BookMeetsShelf
CHECK_DEADLOCK FALSE
