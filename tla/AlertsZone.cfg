\* Two ticks ahead of UTC in a day of four; nothing fails.
SPECIFICATION Spec
CONSTANTS
    Channel = {}
    Day = 4
    Offset = 2
    WeekDays = 2
    Fee = {}
    MaxPerMinute = 1
    MaxTests = 0
    LastTick = 5
    MaxChanges = 0
    MaxFaults = 0
INVARIANTS
    OneSummaryPerDay
CHECK_DEADLOCK FALSE
