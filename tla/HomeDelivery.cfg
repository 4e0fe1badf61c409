\* One order, two calls for it at once, and the office.
SPECIFICATION DeliverySpec
CONSTANTS
  Orders = {o1}
  Folios = {}
  References = {f1}
  Means <- CashOrTransfer
  MaxTotal = 2
  MaxPayments = 2
  Attempts = {a1, a2}
  Price = 1
SYMMETRY AttemptSymmetry
INVARIANTS
  PaidIsLedger
  BalanceIsRest
  OnePerReference
  ConfirmedIsSold
CHECK_DEADLOCK FALSE
