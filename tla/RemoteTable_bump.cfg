SPECIFICATION Spec
CONSTANTS
    Clients = {c1, c2}
    Keys <- TwoKeys
    Values = {v}
    Modes = {"extent"}
    BucketCount = 2
    LockedBuckets = {{}}
    ExtentTotal = 5
    Magic = 100
    RegionLen = 110
    MaxInserts = 2
PROPERTIES BumpAdvances
CHECK_DEADLOCK FALSE
