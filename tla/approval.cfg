SPECIFICATION SubSpec
CONSTANTS
  Requests = {r1}
  Plans = {basic, pro}
  DefaultPlan = basic
  Null = Null
  Horizon = 1
  ProcessDies = FALSE
  MaxInvoices = 1
  MaxHands = 1
INVARIANTS
  ApprovedIsActivated
CHECK_DEADLOCK FALSE
