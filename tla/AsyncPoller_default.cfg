SPECIFICATION Spec
CONSTANTS
    Tasks = {t1, t2, t3}
    PollMax = 2
    BusyPollIterations = 2
PROPERTIES EveryCompletionHarvested
CHECK_DEADLOCK FALSE
