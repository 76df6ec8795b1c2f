SPECIFICATION FilesSpec
CONSTANTS
  Projects = {p1, p2}
  Hashes = {h, g}
  RowVersions = {1, 2}
  Sweepers = {s1, s2}
  MaxBytes = 4
  Size <- UnequalSizes
  None = None
  Active = Active
  InWrite = InWrite
  p1 = p1
  p2 = p2
  h = h
  g = g
  s1 = s1
  s2 = s2
SYMMETRY Symmetry
INVARIANTS
  WritesKeepFilesExact
  CounterCoversActive
