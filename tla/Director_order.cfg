SPECIFICATION Spec
CONSTANTS
    Clients = {c1, c2}
    Sessions = {c1}
    MaxIncarnation = 2
    MaxTs = 2
    Limits = {0, 2}
    BaseDelay = 4
    MaxDelay = 12
    PowWidth = 32
    FutureIds = {f1, f2}
    Timeout = 1
    MaxClock = 4
    CacheKeys = {k1, k2}
    Chunks = {{k1}, {k2}}
    MaxReports = 3
INVARIANT ViewAlwaysExact
CHECK_DEADLOCK FALSE
