SPECIFICATION LedgerSpec
CONSTANTS
    t1 = t1  t2 = t2
    a = a  b = b
    None = None
    Blank = Blank
    Tables = {t1, t2, t3}
    TableIds = {a, b, c}
    Rows = {}
    RowIds = {}
    Values = {}
    InitialContent <- MCInitialContent
    InitialLedger <- MCInitialLedger
    MaxEdits = 3
VIEW View
INVARIANTS
    LedgerTypeOK
    LedgersReproduceSchemas
    EveryMigrationHasAUnit
    EveryUnitCanBeMoved
PROPERTIES
    HeadLedgerOnlyGrows
    MovedUnitsAreSettled
CHECK_DEADLOCK FALSE
