\* A ticket, two calls for it at once, the office and the cut of the rider.
SPECIFICATION Spec
CONSTANTS
  Orders = {}
  Folios = {k1}
  References = {f1}
  Means <- CashOrTransfer
  MaxTotal = 1
  MaxPayments = 3
  Attempts = {a1, a2}
  Price = 1
SYMMETRY AttemptSymmetry
INVARIANTS
  CopiesAreOverlaps
  CountedIsStamped
CHECK_DEADLOCK FALSE
