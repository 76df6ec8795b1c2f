SPECIFICATION DraftsSpec
CONSTANTS
  Branches = {main}
  RootBranch = main
  RevisionIds = {1, 2, 3, 4}
  RootHead = 1
  RootDraft = 2
  TableVersions = {1, 2, 3}
  RowVersions = {1, 2, 3}
  TableCreatedIds = {11, 12}
  RowCreatedIds = {21, 22}
  TableIds = {a, b}
  RowIds = {x, y}
  Folded <- PlainNames
  Data = {d1, d2}
  None = None
  a = a
  b = b
  x = x
  y = y
  d1 = d1
  d2 = d2
SYMMETRY Symmetry
INVARIANTS
  TypeOK
  CommittedIsReadonly
  MutableIsUnshared
  NamesAreUnique
  HasChangesIsExact
PROPERTIES
  CommittedNeverChanges
  OperationsReachTheirTarget
VIEW Database
