\* A cooldown and an exhausted quota.
SPECIFICATION GatewaySpec
CONSTANTS
    Slots <- MCSlots
    Candidates <- MCCandidates
    NoLimit = NoLimit
    MINUTE = 2
    DAY = 3
    MaxAge = 3
    TokenCounts = {0, 1}
    MaxTime = 3
    MaxRows = 3
    BACKOFF_STEPS <- MCBackoff
    Reqs = {r1, r2}
    Models = {"auto", "a"}
    RouteTables <- OneTable
    Modes = {FALSE}
    MAX_RETRIES = 2
    Second = 1
    Faults = {}
PROPERTIES
    RetryAfterIsReset
CHECK_DEADLOCK FALSE
