SPECIFICATION Spec
CONSTANTS
  w1 = w1
  w2 = w2
  None = None
  Workers = {w1, w2}
  Tokens <- TwoTokens
  Versions <- ThreeVersions
  a = a
  b = b
  Schemas = {a, b}
  Rows <- OneRow
  Written <- JustOne
  BatchSize = 1
  MaxRetries = 1
SYMMETRY Symmetry
INVARIANTS
  TypeOK
  ShadowHoldsCheckpoint
  SwapFindsItsSource
PROPERTIES
  HeadNeverChanges
  ImplementsSchemaChange
CHECK_DEADLOCK FALSE
