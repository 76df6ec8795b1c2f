SPECIFICATION FairSpec
CONSTANTS
  Projects = {p1}
  Hashes = {h}
  RowVersions = {1,2}
  Sweepers = {s1}
  MaxBytes = 2
  Size <- UnequalSizes
  None = None
  Active = Active
  InWrite = InWrite
  p1 = p1
  p2 = p2
  h = h
  g = g
  s1 = s1
  s2 = s2
PROPERTIES
  OrphanIsEventuallyTombstoned
  RepairsConverge
