SPECIFICATION Spec
CONSTANTS
  Branches = {main, fork, topic}
  RootBranch = main
  MaxSequence = 7
  RowVersions = {1, 2, 3, 4}
  RowIds = {x, y}
  Hashes = {d1, d2}
  PageSizes = {1}
  None = None
  x = x
  y = y
  d1 = d1
  d2 = d2
  main = main
  fork = fork
  topic = topic
SYMMETRY Symmetry
INVARIANTS
  HistoryIsComplete
  PagesJoinUp
