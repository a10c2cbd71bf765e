\* A candidate with a per-minute and a per-day limit.
SPECIFICATION QuotaSpec
CONSTANTS
    Slots <- MCSlots
    Candidates <- MinuteAndDay
    NoLimit = NoLimit
    MINUTE = 2
    DAY = 4
    MaxAge = 5
    TokenCounts = {0, 1, 3}
    MaxTime = 6
    MaxRows = 4
INVARIANTS
    OkMeansBelowEveryLimit
CHECK_DEADLOCK FALSE
