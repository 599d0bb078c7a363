SPECIFICATION SlowSpec
CONSTANTS
    Writers = {w1, w2}
    Readers = {}
    NoData = NoData
    LeaseTimeout = 1
    LeaseMod = 16
    WordMod = 256
    VersionMod = 8
    ClockStart = 0
    MaxClock = 4
    MaxVersion = 3
    MaxCrashes = 0
PROPERTIES VersionMonotonic
CHECK_DEADLOCK FALSE
