\* Keys saved and removed while the syncer, or the goroutines, are at work. A process
\* without LND and without keys only waits: deadlock is not an error.
SPECIFICATION FairSpec
CONSTANTS
    StrikeKey = {k1, k2}
    CoinbaseKey = {c1, c2}
    Malformed = {c2}
    NoKey = NoKey
    Modes = {TRUE, FALSE}
    MaxChanges = 2
    MaxTrades = 2
    MaxFailures = 1
INVARIANT
    TypeOK
PROPERTIES
    OnlyCurrentKey
    SavingNeverPanics
    TriggerNotLost
    StrikeCatchesUp
CHECK_DEADLOCK FALSE
