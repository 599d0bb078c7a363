SPECIFICATION CompletionSpec
CONSTANTS
    Tasks = {t1, t2}
    BatchStart = 100
    MaxBatches = 1
    PollMax = 2
    MaxId = 2
    MaxPosted = 3
    Outcomes = {"done", "error"}
INVARIANTS RightCompletion NothingStranded BufferHeld
PROPERTIES EveryOpResolves
CHECK_DEADLOCK FALSE
