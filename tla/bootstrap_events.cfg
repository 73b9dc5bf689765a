\* Two pids used again, a map and a ring buffer that run full, signals, errors.
SPECIFICATION Spec
CONSTANTS
    None = None
    Pid = {1, 2}
    MinDurations <- Filters
    MaxStarts = 1
    RingSize = 2
    PollErrors = TRUE
    MaxTime = 2
    MaxProcs = 2
    MaxExecs = 2
CHECK_DEADLOCK FALSE
INVARIANTS TypeOK StartsAreLive DurationExact DurationKnown HandlersInv
PROPERTIES EventsDrain ExitsAfterSignal
