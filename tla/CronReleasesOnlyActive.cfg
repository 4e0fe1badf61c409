\* Two apartados and the cron of one instance, against manual releases.
SPECIFICATION Spec
CONSTANTS
  Products = {p1}
  Orders = {}
  DatedOrders = {}
  Reservations = {r1, r2}
  Instances = {i1}
  Manual = manual
  Holders = {r1, r2, manual}
  HandKinds = {"in"}
  MaxLine = 1
  MaxHold = 1
  MaxStock = 2
PROPERTIES
  CronReleasesOnlyActive
CHECK_DEADLOCK FALSE
