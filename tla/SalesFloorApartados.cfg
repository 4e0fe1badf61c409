\* Two apartados while two instances of the API run the cron, under its
\* fairness.  (No symmetry: the run checks a liveness property.)
SPECIFICATION FairSpec
CONSTANTS
  Products = {p1}
  Orders = {}
  DatedOrders = {}
  Reservations = {r1, r2}
  Instances = {i1, i2}
  Manual = manual
  Holders = {r1, r2, manual}
  HandKinds = {"in", "out"}
  MaxLine = 1
  MaxHold = 1
  MaxStock = 2
INVARIANTS
  HoldKeepsItsUnits
PROPERTIES
  ExpiredIsClosed
CHECK_DEADLOCK FALSE
