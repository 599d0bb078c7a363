SPECIFICATION Spec
CONSTANTS
    Clients = {c1, c2}
    Keys <- TwoKeys
    Values = {v}
    Modes = {"inline"}
    BucketCount = 2
    LockedBuckets = {{}}
    ExtentTotal = 5
    Magic = 100
    RegionLen = 110
    MaxInserts = 2
INVARIANTS InsertedIsThere
CHECK_DEADLOCK FALSE
