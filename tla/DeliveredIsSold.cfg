\* One order, one call at a time, and the office.
SPECIFICATION DeliverySpec
CONSTANTS
  Orders = {o1}
  Folios = {}
  References = {f1}
  Means <- CashOrTransfer
  MaxTotal = 1
  MaxPayments = 1
  Attempts = {a1}
  Price = 1
INVARIANTS
  DeliveredIsSold
CHECK_DEADLOCK FALSE
