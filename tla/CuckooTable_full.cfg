SPECIFICATION TableSpec
CONSTANTS
    Keys <- MCKeys
    Values = {u, v}
    ExtentValues = {v}
    Torn = Torn
    BucketCount = 4
    MaxKick = 3
    NoKey = NoKey
INVARIANTS NoPartialWrites
CHECK_DEADLOCK FALSE
