\* Two orders, one of which may be a preventa, and nobody else.
SPECIFICATION Spec
CONSTANTS
  Products = {p1}
  Orders = {o1, o2}
  DatedOrders = {o2}
  Reservations = {}
  Instances = {}
  Manual = manual
  Holders = {o1, o2, manual}
  HandKinds = {"in"}
  MaxLine = 1
  MaxHold = 1
  MaxStock = 2
INVARIANTS
  ReservedUntilClosed
CHECK_DEADLOCK FALSE
