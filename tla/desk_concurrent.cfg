SPECIFICATION Spec
CONSTANTS
  Orders = {o1}
  Payments = {p1}
  Calls = {c1, c2}
  Types = {"TAKEAWAY"}
  Prices = {1}
  Discounts = {0}
  Fees = {0}
  ServiceBps = 0
  TaxBps = 0
  MaxSubtotal = 2
  MaxAmount = 2
  MaxPaid = 1
  OnlineToo = TRUE
  CanFail = TRUE
INVARIANTS
  HistoryIsTrue
  RefundsWithinAmount
  OnlyPaidMoneyIsCaptured
CHECK_DEADLOCK FALSE
SYMMETRY Interchangeable
