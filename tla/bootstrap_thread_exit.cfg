\* The leader of a process exits before its other thread.
SPECIFICATION Spec
CONSTANTS
    None = None
    Pid = {1, 2}
    MinDurations <- Filters
    MaxStarts = 1
    RingSize = 2
    PollErrors = FALSE
    MaxTime = 2
    MaxProcs = 2
    MaxExecs = 2
CHECK_DEADLOCK FALSE
INVARIANT ExitsOnce
