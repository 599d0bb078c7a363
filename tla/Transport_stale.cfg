SPECIFICATION Spec
CONSTANTS
    Callers = {c1, c2}
    MaxCalls = 3
    MaxFailed = 1
INVARIANT OkMeansDone
CHECK_DEADLOCK FALSE
