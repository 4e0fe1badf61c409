\* Two orders, one of which may be a preventa, against every kind of
\* movement recorded by hand.
SPECIFICATION Spec
CONSTANTS
  Products = {p1}
  Orders = {o1, o2}
  DatedOrders = {o2}
  Reservations = {}
  Instances = {}
  Manual = manual
  Holders = {o1, o2, manual}
  HandKinds = {"in", "out", "adjust", "reserve", "release", "sale"}
  MaxLine = 2
  MaxHold = 1
  MaxStock = 3
INVARIANTS
  TypeOK
  StockSound
  SoldExactlyOnce
  ApprovedWithinRequested
  HeldWithinLines
  NoStrandedReserve
  UnitsConserved
CHECK_DEADLOCK FALSE
