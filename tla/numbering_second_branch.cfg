SPECIFICATION FairSpec
CONSTANTS
  Branches = {b1, b2}
  Calls = {c1, c2}
  Base = 1
  MaxNumber = 3
PROPERTIES
  BranchKeepsServing
