SPECIFICATION FairSpec
CONSTANTS
  Branches = {b1, b2}
  Calls = {c1, c2, c3}
  Base = 1
  MaxNumber = 4
INVARIANTS
  TypeOK
  NumbersAreSound
PROPERTIES
  NoCollision
  BranchServesOrCollides
