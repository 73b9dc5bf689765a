\* The walk starts again at the first key when the key it stands on is removed.
SPECIFICATION Spec
CONSTANTS
    None = None
    Key = {1, 2}
    Sizes = {1}
    Stacks <- OneStack
    NoFrames = "none"
    EFAULT = 14
    EEXIST = 17
    MinAge = 1
    Asked = {1}
    IntSize = 4
    MapErrors = FALSE
    MaxTime = 2
    MaxChurn = 4
CHECK_DEADLOCK FALSE
INVARIANT CountedOnce
