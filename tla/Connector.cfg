CONSTANTS
    k1 = k1
    k2 = k2
    Keys = {k1, k2}
    Threads = {t1, t2}
    Workers = {w1}
    Batches <- MCBatches
    Capacity = 2
    Room = 1
    Watermark = 1
    MaxCalls = 2
    ClearFirst = TRUE
SPECIFICATION ConnectorSpec
INVARIANTS FutureOnce AckedIsThere
PROPERTIES EveryFutureDrained
CHECK_DEADLOCK FALSE
