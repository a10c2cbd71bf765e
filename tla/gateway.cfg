\* Two concurrent requests over two slots: streams, reloads, a failing tracker, crashes.
SPECIFICATION GatewaySpec
CONSTANTS
    Slots <- MCSlots
    Candidates <- MCCandidates
    NoLimit = NoLimit
    MINUTE = 2
    DAY = 3
    MaxAge = 3
    TokenCounts = {0, 1}
    MaxTime = 3
    MaxRows = 2
    BACKOFF_STEPS <- MCBackoff
    Reqs = {r1, r2}
    Models = {"auto", "a"}
    RouteTables <- AllTables
    Modes = {FALSE, TRUE}
    MAX_RETRIES = 2
    Second = 1
    Faults = {"crash", "tracker"}
INVARIANTS
    GatewayTypeOK
    OvershootBound
    CooldownSound
PROPERTIES
    CoolingDrains
    CallChargedOnce
    NoFalseExhaustion
SYMMETRY RequestSymmetry
CHECK_DEADLOCK FALSE
