\* No preventa, no cron, nothing given back by hand: the setting in which the
\* reserved counter must be exact.
SPECIFICATION Spec
CONSTANTS
  Products = {p1}
  Orders = {o1, o2}
  DatedOrders = {}
  Reservations = {r1, r2}
  Instances = {}
  Manual = manual
  Holders = {o1, o2, r1, r2, manual}
  HandKinds = {"in", "out", "adjust", "reserve"}
  MaxLine = 2
  MaxHold = 1
  MaxStock = 3
SYMMETRY OrderSymmetry
INVARIANTS
  ReserveExact
  NoOverselling
PROPERTIES
  HonoursPromise
CHECK_DEADLOCK FALSE
