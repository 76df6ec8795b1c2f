SPECIFICATION Spec
CONSTANTS
  Branches = {main}
  RootBranch = main
  RevisionIds = {1, 2, 3, 4}
  RootHead = 1
  RootDraft = 2
  TableVersions = {1, 2, 3}
  RowVersions = {1, 2}
  TableCreatedIds = {11, 12}
  RowCreatedIds = {21, 22}
  TableIds = {a, b}
  RowIds = {x}
  Folded <- PlainNames
  Data = {d1, d2}
  None = None
  a = a
  b = b
  c = c
  x = x
  y = y
  d1 = d1
  d2 = d2
  fork = fork
  topic = topic
SYMMETRY Symmetry
PROPERTIES
  DraftOnlyNeverAutoReverted
