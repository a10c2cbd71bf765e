\* The loop and one admin pass beside it; two disturbances, then peace.
SPECIFICATION FairHealthSpec
CONSTANTS
    Slots <- MCSlots
    KeyOf <- MCKeyOf
    Candidates <- MCCandidates
    NoLimit = NoLimit
    MINUTE = 1
    DAY = 2
    MaxAge = 2
    TokenCounts = {}
    MaxTime = 1
    MaxRows = 1
    Keys <- MCKeys
    KeyLists <- MCKeyLists
    NoModel = NoModel
    Admins = {a1}
    DownAt = 3
    MaxFlips = 2
    MaxFails = 4
INVARIANTS
    HealthTypeOK
    StatusSound
PROPERTIES
    KeyRecovers
    OutageShows
CHECK_DEADLOCK FALSE
