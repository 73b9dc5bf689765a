\* The probes are attached one by one to a running process; attachments fail,
\* memptrs is full, *memptr cannot be read.
SPECIFICATION AttachSpec
CONSTANTS
    None = None
    NULL = NULL
    MAP_FAILED = MAP_FAILED
    t1 = t1
    t2 = t2
    a1 = a1
    a2 = a2
    Tid <- Threads
    Addr <- Addrs
    Sizes = {1, 2}
    StackIds = {1}
    Fns <- Calls
    Delegates = {}
    CanFail = {}
    Leftovers <- NullOnly
    ReadFaults = TRUE
    MinSize = 0
    MaxSize = 9
    SampleRate = 1
    MaxSizes = 9
    MaxMemptrs = 1
    MaxAllocs = 9
    StdCxxLoaded = FALSE
    AttachErrors = TRUE
SYMMETRY Symmetric
INVARIANTS AttachTypeOK SizesOwed WatchedExact AttachInv
PROPERTIES SetupSettles LedgerButSpoiled
