SPECIFICATION Spec
CONSTANTS
  Orders = {o1}
  Payments = {p1, p2}
  Calls = {c1}
  Types = {"DINE_IN", "DELIVERY"}
  Prices = {2}
  Discounts = {0, 3}
  Fees = {1}
  ServiceBps = 2500
  TaxBps = 2500
  MaxSubtotal = 4
  MaxAmount = 3
  MaxPaid = 4
  OnlineToo = TRUE
  CanFail = FALSE
INVARIANTS
  TypeOK
  ReceiptsMatch
  BillMatchesItems
  PaidMeansCovered
PROPERTIES
  FlowSpec
CHECK_DEADLOCK FALSE
