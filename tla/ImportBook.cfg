\* Four exchanges, uploads of a line at a time, corrections, the APIs' rows, clears.
SPECIFICATION Spec
CONSTANTS
    Year = 2
    WashDays = 1
    MaxLines = 1
    Line <- SomeLines
    ApiRow <- SomeApiRows
INVARIANTS
    TypeOK
    LotsAgreeWithImports
    ReimportChangesNothing
    SatsMatchedOnce
    ClosedYearsStay
CHECK_DEADLOCK FALSE
