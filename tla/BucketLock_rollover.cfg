SPECIFICATION Spec
CONSTANTS
    Writers = {w1, w2}
    Readers = {r1}
    NoData = NoData
    LeaseTimeout = 1
    LeaseMod = 16
    WordMod = 256
    VersionMod = 8
    ClockStart = 14
    MaxClock = 18
    MaxVersion = 3
    MaxCrashes = 1
INVARIANTS RunningLeaseNotExpired
CHECK_DEADLOCK FALSE
