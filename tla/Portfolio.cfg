\* Two days, two snapshots and the reconstructed ones, an import at work.
SPECIFICATION PortfolioSpec
CONSTANTS
    Year = 2
    WashDays = 1
    MaxLines = 1
    Line <- FewLines
    ApiRow <- FewApiRows
    Onchain = {1}
    Channels = {2}
    Cold = {1}
    Live = {1}
    LastDay = 1
    MaxRows = 2
    MaxAsked = 1
INVARIANTS
    PortfolioTypeOK
    ChartShowsWhatWasSeen
    HistoryIsCurrent
    DetailsAddUp
CHECK_DEADLOCK FALSE
