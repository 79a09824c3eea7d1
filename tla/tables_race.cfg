SPECIFICATION Spec
CONSTANTS
  Tables = {t1}
  Orders = {o1, o2}
  Calls = {c1, c2}
  ByHand = {}
PROPERTIES
  ReleasedOnlyWhenFree
CHECK_DEADLOCK FALSE
