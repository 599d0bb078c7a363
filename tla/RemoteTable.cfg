SPECIFICATION MCSpec
CONSTANTS
    Clients = {c1, c2}
    Keys <- TwoKeys
    Values = {v}
    Modes = {"extent", "inline"}
    BucketCount = 2
    LockedBuckets = {{}, {0}}
    ExtentTotal = 5
    Magic = 100
    RegionLen = 110
    MaxInserts = 2
    Threads = {t1, t2}
    SharedKeys <- ThreeKeys
    Slots = 2
    MaxCalls = 2
INVARIANTS ReservationsDisjoint PublishedComplete SettledIsRead PresentIsFound
PROPERTIES SettledStays
CHECK_DEADLOCK FALSE
