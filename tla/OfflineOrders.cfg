\* Two orders of one product, and two requests that go astray.
SPECIFICATION FairSpec
CONSTANTS
  Orders = {o1, o2}
  Products = {p1}
  MaxRetry = 1
  MaxLosses = 2
INVARIANTS
  OneOrderEach
  SyncedIsPlaced
  DeadIsUnplaced
PROPERTIES
  QueueDrains
CHECK_DEADLOCK FALSE
