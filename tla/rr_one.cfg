\* One candidate list.
SPECIFICATION RRSpec
CONSTANTS
    Slots <- MCSlots
    Candidates <- MCCandidates
    NoLimit = NoLimit
    MINUTE = 1
    DAY = 2
    MaxAge = 2
    TokenCounts = {0}
    MaxTime = 3
    MaxRows = 3
    BACKOFF_STEPS <- MCBackoff
    Callers = {p1, p2}
    Lists <- OneList
    NoCall = NoCall
INVARIANTS
    RRTypeOK
    BoundedBypass
    BypassInv
CHECK_DEADLOCK FALSE
