SPECIFICATION FairSpec
CONSTANTS
  o1 = o1
  o2 = o2
  w1 = w1
  b = b
  Operations = {o1, o2}
  Writers = {w1}
  Branches = {b}
  BranchOf <- OneBranch
  PoolSizes = {2, 4}
  MaxAttempts = 3
INVARIANTS
  TypeOK
  SlotsAreConserved
  FenceIsReleased
PROPERTIES
  EscalatedRunsAlone
  EveryOperationCommits
