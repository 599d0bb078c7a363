SPECIFICATION TableSpec
CONSTANTS
    Keys <- MCKeys
    Values = {u, v}
    ExtentValues = {v}
    Torn = Torn
    BucketCount = 4
    MaxKick = 3
    NoKey = NoKey
INVARIANTS LookupFinds ReaderAgrees ClientInsertSafe
PROPERTIES ImplementsMap
CHECK_DEADLOCK FALSE
