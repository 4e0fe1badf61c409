\* One order, and one answer that does not arrive.
SPECIFICATION Spec
CONSTANTS
  Orders = {o1}
  Products = {p1}
  MaxRetry = 2
  MaxLosses = 1
PROPERTIES
  ReplayIsIdempotent
CHECK_DEADLOCK FALSE
