\* Two orders of a customer, one of which has lost its lines, and two calls at
\* once, one of which dies or loses an answer.
SPECIFICATION FairSpec
CONSTANTS
  Orders = {o1, o2}
  Customers = {k1}
  CustomerOf <- OneCustomer
  Lineless = {o1}
  Calls = {c1, c2}
  MaxAttempts = 1
  Limit = 1
  CronEnabled = TRUE
  MaxCfdis = 4
  MaxFaults = 1
INVARIANTS
  CopiesWithinFaults
  InvoicedIsCovered
  AttemptsWithinCalls
PROPERTIES
  NobodyIsForgotten
CHECK_DEADLOCK FALSE
