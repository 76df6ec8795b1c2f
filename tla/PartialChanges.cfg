SPECIFICATION Spec
CONSTANTS
    t1 = t1  t2 = t2
    r1 = r1  r2 = r2
    a = a  b = b
    x = x  y = y  v = v
    None = None
    Blank = Blank
    Tables = {t1, t2, t3}
    TableIds = {a, b, c}
    Rows = {r1, r2, r3}
    RowIds = {x, y, z}
    Values = {v, w}
    InitialContent <- MCInitialContent
    MaxEdits = 3
VIEW View
INVARIANTS
    TypeOK
    RevisionsHoldTogether
    EveryDifferenceHasAUnit
    EveryUnitCanBeApplied
PROPERTIES
    AppliedUnitsAreSettled
    FingerprintPinsTheHead
CHECK_DEADLOCK FALSE
