SPECIFICATION Spec
CONSTANTS
  Projects = {p1}
  Hashes = {h}
  RowVersions = {1}
  Sweepers = {s1}
  MaxBytes = 3
  Size <- UnequalSizes
  None = None
  Active = Active
  InWrite = InWrite
  p1 = p1
  p2 = p2
  h = h
  g = g
  s1 = s1
  s2 = s2
INVARIANTS
  ReferencedIsActive
