\* The table by itself: two slots, limits of every shape.
SPECIFICATION QuotaSpec
CONSTANTS
    Slots <- MCSlots
    Candidates <- AllShapes
    NoLimit = NoLimit
    MINUTE = 2
    DAY = 4
    MaxAge = 5
    TokenCounts = {0, 1, 3}
    MaxTime = 6
    MaxRows = 3
INVARIANTS
    QuotaTypeOK
    ResetsInIsWorstCase
PROPERTIES
    CompactionInvisible
    OnlyInsertsExhaust
CHECK_DEADLOCK FALSE
