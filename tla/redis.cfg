\* Two hub processes whose clocks differ by a tick or not at all, and are adjusted.
SPECIFICATION RedisSpec
CONSTANTS
    Slots = {"s1"}
    Candidates <- MCCandidates
    NoLimit = NoLimit
    MINUTE = 2
    DAY = 4
    MaxAge = 4
    TokenCounts = {0, 1}
    MaxTime = 8
    MaxRows = 2
    Procs = {p1, p2}
    Reqs = {p1, p2}
    Home <- MCHome
    Skew = 1
    Grace = 0
    MaxAdjusted = 1
    MaxDelay = 1
INVARIANTS
    RedisTypeOK
    AgreesUpToSkew
    RowsExpire
    SharedLimit
SYMMETRY ProcSymmetry
CHECK_DEADLOCK FALSE
