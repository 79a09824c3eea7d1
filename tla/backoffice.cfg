SPECIFICATION BackOfficeSpec
CONSTANTS
  MaxMessages = 2
  MaxAttempts = 2
  Batch = 1
  MaxTroubles = 2
  Requests = {r1}
  Plans = {basic, pro}
  DefaultPlan = basic
  Null = Null
  Horizon = 1
  ProcessDies = TRUE
  MaxInvoices = 2
  MaxHands = 1
  Senders = {s1}
  CampaignIds = {c1, c2}
  Customers = {ann, bob}
  NoCampaign = NoCampaign
  Allowance = 3
  MaxRecipients = 2
  MaxMonths = 1
  MaxQueries = 2
  MaxTokens = 3
  Handlers = {h1}
  Accounts = {u1, u2}
  Founder = u1
  MaxStaff = 2
  Taps = {g1, g2}
  Spots = {bill}
  Screens = {counter}
  MaxCalls = 2
  MaxUpdates = 2
  MaxMisses = 2
  Dishes = {soup}
  Extras = {a, b}
  Prices = {1, 2}
  Nothing = Nothing
  MaxQuantity = 1
  MaxOptions = 1
  MaxLines = 2
  MaxEdits = 1
  Regulars = {mina}
  Tickets = {t1, t2, t3}
  Clerks = {k1}
  Nobody = Nobody
  VipFloor = 3
  Slips = {o1}
  Kitchens = {rail}
  Movers = {m1}
  Counter = elsewhere
  MaxRounds = 1
  MaxTaps = 1
  MaxFaults = 1
INVARIANTS
  BackOfficeTypeOK
  OutboxIsSound
  InStep
  InvoiceCountsOnce
  NobodyTwice
  AllowanceKept
  ReportIsTrue
  SpentTokenIsNotPresented
  OwnerRemains
  OneMenuPrices
  SegmentsAreTrue
PROPERTIES
  EveryMessageSettles
  PaidTimeIsKept
  CartIsHonoured
  CallsAreSeen
  ScreensSettle
CHECK_DEADLOCK FALSE
