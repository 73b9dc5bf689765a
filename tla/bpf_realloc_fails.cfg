\* realloc may fail: the program still owns the block it passed.
SPECIFICATION Spec
CONSTANTS
    None = None
    NULL = NULL
    MAP_FAILED = MAP_FAILED
    t1 = t1
    t2 = t2
    a1 = a1
    a2 = a2
    a3 = a3
    Tid <- Threads
    Addr <- TwoAddrs
    Sizes = {1, 2}
    StackIds = {1, 2}
    Fns <- CFns
    Delegates = {}
    CanFail = {"realloc"}
    Leftovers <- NullOnly
    ReadFaults = FALSE
    MinSize = 0
    MaxSize = 9
    SampleRate = 1
    MaxSizes = 2
    MaxMemptrs = 2
    MaxAllocs = 9
SYMMETRY Symmetric
INVARIANTS NoMissedLeak
