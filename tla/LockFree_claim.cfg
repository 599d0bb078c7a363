SPECIFICATION MCSpec
CONSTANTS
    Clients = {c1}
    Keys <- TwoKeys
    Values = {v}
    Modes = {"inline"}
    BucketCount = 2
    LockedBuckets = {{1}}
    ExtentTotal = 5
    Magic = 100
    RegionLen = 110
    MaxInserts = 0
    Threads = {t1, t2}
    SharedKeys <- ThreeKeys
    Slots = 2
    MaxCalls = 2
INVARIANTS OkIsThere
CHECK_DEADLOCK FALSE
