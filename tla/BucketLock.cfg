SPECIFICATION FairSpec
CONSTANTS
    Writers = {w1, w2}
    Readers = {r1}
    NoData = NoData
    LeaseTimeout = 1
    LeaseMod = 16
    WordMod = 256
    VersionMod = 8
    ClockStart = 0
    MaxClock = 4
    MaxVersion = 2
    MaxCrashes = 1
INVARIANTS MutualExclusion ValidatedReadUnchanged
PROPERTIES OrphanRecovered
CHECK_DEADLOCK FALSE
