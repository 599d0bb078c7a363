SPECIFICATION Spec
CONSTANTS
    Callers = {c1, c2}
    MaxCalls = 2
    MaxFailed = 2
INVARIANTS OkCounted OkIsOwn Lifetimes
PROPERTIES CallsReturn
CHECK_DEADLOCK FALSE
