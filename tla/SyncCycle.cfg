\* The sync cycle, its refinement of LedgerSync and its catching up with the node:
\* every order of four steps of the node and the stages of the cycles, with one failure.
SPECIFICATION FairSpec
CONSTANTS
    Channel = {c1}
    Route = {r1}
    PageSize = 1
    MaxHistory = 1
    EmptyPageOffset = {"zero"}
    MaxEvents = 4
    MaxFailures = 1
INVARIANTS
    TypeOK
    ForwardsComplete
    InvoicesBehindCursor
    ClosedIsFinal
    PortfolioCountsOnce
PROPERTIES
    LedgerRefined
    ForwardsRecorded
    SettlementsRecorded
    ClosesRecorded
