SPECIFICATION Spec
CONSTANTS
  Orders = {o1, o2}
  Customers = {p1}
  Coupons = {k1}
  Guests = {g1, g2}
  Staff = {s1}
  Limits = {1}
  Asks = {1, 3}
  Affordable = 2
  MinRedeem = 1
  Welcome = 1
  Award = 1
  Corrections = {2}
  MaxPoints = 2
INVARIANTS
  TypeOK
  UsageMatchesRedemptions
  WelcomeOnce
  EndedMeansSettled
PROPERTIES
  CouponLimitsHold
  SpendIsCovered
CHECK_DEADLOCK FALSE
SYMMETRY Interchangeable
