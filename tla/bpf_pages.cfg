\* The probes on mmap, mremap and munmap, all of which may fail, with sampling,
\* a size filter and maps of one entry.
SPECIFICATION FairSpec
CONSTANTS
    None = None
    NULL = NULL
    MAP_FAILED = MAP_FAILED
    t1 = t1
    t2 = t2
    a1 = a1
    a2 = a2
    a3 = a3
    Tid <- Threads
    Addr <- TwoAddrs
    Sizes = {0, 1}
    StackIds = {1}
    Fns <- PageFns
    Delegates = {}
    CanFail = {"mmap", "mremap", "munmap"}
    Leftovers <- NullOnly
    ReadFaults = FALSE
    MinSize = 1
    MaxSize = 9
    SampleRate = 2
    MaxSizes = 1
    MaxMemptrs = 2
    MaxAllocs = 1
INVARIANTS NoFalseLeak LiveInv
PROPERTIES LedgerSpec SizesDrain
