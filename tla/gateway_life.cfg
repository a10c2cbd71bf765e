\* The handlers as an implementation of RequestLife.
SPECIFICATION FairGatewaySpec
CONSTANTS
    Slots <- MCSlots
    Candidates <- MCCandidates
    NoLimit = NoLimit
    MINUTE = 2
    DAY = 3
    MaxAge = 3
    TokenCounts = {0, 1}
    MaxTime = 1
    MaxRows = 1
    BACKOFF_STEPS <- MCBackoff
    Reqs = {r1, r2}
    Models = {"auto", "a"}
    RouteTables <- AllTables
    Modes = {FALSE, TRUE}
    MAX_RETRIES = 2
    Second = 1
    Faults = {"crash", "tracker"}
PROPERTIES
    EveryRequestAnswered
    ImplementsLife
CHECK_DEADLOCK FALSE
