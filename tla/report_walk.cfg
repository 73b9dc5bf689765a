\* Walks over a map that changes under the reader, with signals and map errors.
SPECIFICATION Spec
CONSTANTS
    None = None
    Key = {1, 2, 3}
    Sizes = {2}
    Stacks <- SomeStacks
    NoFrames = "none"
    EFAULT = 14
    EEXIST = 17
    MinAge = 1
    Asked = {0, 1, 8}
    IntSize = 4
    MapErrors = TRUE
    MaxTime = 2
    MaxChurn = 3
CHECK_DEADLOCK FALSE
INVARIANTS TypeOK StandingReported QuietReportExact ReportOrdered RoundsAsAsked WalkInv
PROPERTY ExitsAfterSignal
