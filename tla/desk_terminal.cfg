SPECIFICATION Spec
CONSTANTS
  Orders = {o1}
  Payments = {p1, p2}
  Calls = {c1, c2}
  Types = {"DINE_IN"}
  Prices = {2}
  Discounts = {0, 1}
  Fees = {0}
  ServiceBps = 0
  TaxBps = 0
  MaxSubtotal = 4
  MaxAmount = 4
  MaxPaid = 4
  OnlineToo = TRUE
  CanFail = FALSE
PROPERTIES
  TerminalIsFinal
CHECK_DEADLOCK FALSE
