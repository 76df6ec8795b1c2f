SPECIFICATION FairSpec
CONSTANTS
  w1 = w1
  w2 = w2
  None = None
  Workers = {w1}
  Tokens <- TwoTokens
  Versions <- ThreeVersions
  a = a
  b = b
  Schemas = {a, b}
  Rows <- TwoRows
  Written <- SomeOrAll
  BatchSize = 1
  MaxRetries = 1
INVARIANTS
  ShadowHoldsCheckpoint
PROPERTIES
  EveryMigrationEnds
CHECK_DEADLOCK FALSE
