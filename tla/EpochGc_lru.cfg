SPECIFICATION LruSpec
CONSTANTS
    Size = 80
    Lens = {5}
    LenWrap = 65536
    LegacyLens = {}
    Data = {}
    Epochs = {}
    MagicEpoch = 99
    MagicLen = 1000
    Keys = {k1, k2}
    Clients = {c1, c2}
    SweepInterval = 2
    ClockWrap = 1000
    MaxClock = 4
    MaxPuts = 3
INVARIANTS NoUseAfterFree
CHECK_DEADLOCK FALSE
