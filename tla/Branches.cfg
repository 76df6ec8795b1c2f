SPECIFICATION Spec
CONSTANTS
  Branches = {main, fork, topic}
  RootBranch = main
  RevisionIds = {1, 2, 3, 4, 5, 6, 7}
  RootHead = 1
  RootDraft = 2
  TableVersions = {1, 2}
  RowVersions = {1, 2}
  TableCreatedIds = {11, 12}
  RowCreatedIds = {21}
  TableIds = {a, b, c}
  RowIds = {x}
  Folded <- CaseVariants
  Data = {d1}
  None = None
  a = a
  c = c
  b = b
  x = x
  y = y
  d1 = d1
  d2 = d2
  fork = fork
  topic = topic
SYMMETRY BranchSymmetry
INVARIANTS
  NamesAreUnique
  DraftFollowsHead
PROPERTIES
  ImplementsBranchHistory
ACTION_CONSTRAINT OtherNameIsEarly
