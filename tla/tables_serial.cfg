SPECIFICATION FairSpec
CONSTANTS
  Tables = {t1, t2}
  Orders = {o1, o2}
  Calls = {c1}
  ByHand = {"RESERVED", "DISABLED"}
INVARIANTS
  TypeOK
  OpenOrdersHoldTables
PROPERTIES
  NeverStuckOccupied
CHECK_DEADLOCK FALSE
