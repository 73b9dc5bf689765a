\* The probes on the malloc family, nested calls included, maps large enough.
SPECIFICATION Spec
CONSTANTS
    None = None
    NULL = NULL
    MAP_FAILED = MAP_FAILED
    t1 = t1
    t2 = t2
    a1 = a1
    a2 = a2
    a3 = a3
    Tid <- Threads
    Addr <- ThreeAddrs
    Sizes = {0, 1}
    StackIds = {1, 2}
    Fns <- HeapFns
    Delegates <- HeapDelegates
    CanFail = {"malloc", "memalign"}
    Leftovers <- NullOnly
    ReadFaults = FALSE
    MinSize = 0
    MaxSize = 9
    SampleRate = 1
    MaxSizes = 2
    MaxMemptrs = 2
    MaxAllocs = 9
SYMMETRY Symmetric
INVARIANTS TypeOK NoFalseLeak NoMissedLeak CallsLeaveNothing ProbeInv ListInv
PROPERTY LedgerSpec
