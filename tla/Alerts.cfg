\* Two channels, a limit of one message a minute, three days.
SPECIFICATION FairSpec
CONSTANTS
    Channel = {c, d}
    Day = 1
    Offset = 0
    WeekDays = 2
    Fee = {2}
    MaxPerMinute = 1
    MaxTests = 2
    LastTick = 2
    MaxChanges = 2
    MaxFaults = 1
INVARIANTS
    TypeOK
    RepeatedOnlyInDoubt
    RateLimit
PROPERTIES
    ClosedIsTold
CHECK_DEADLOCK FALSE
