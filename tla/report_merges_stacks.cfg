\* Allocations from two places whose stacks have one id.
SPECIFICATION Spec
CONSTANTS
    None = None
    Key = {1, 2}
    Sizes = {1}
    Stacks <- TwoCallers
    NoFrames = "none"
    EFAULT = 14
    EEXIST = 17
    MinAge = 1
    Asked = {1}
    IntSize = 4
    MapErrors = FALSE
    MaxTime = 2
    MaxChurn = 2
CHECK_DEADLOCK FALSE
INVARIANT OneStackPerLine
