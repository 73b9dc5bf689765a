\* Every table of at most three symbols, looked up at every address.
SPECIFICATION Spec
CONSTANTS
    None = None
    Tables <- SomeTables
    Addrs <- SomeAddrs
    MaxSyms = 3
    MaxAddr = 3
CHECK_DEADLOCK FALSE
INVARIANTS SearchInv FindsLargest FindsCovering
PROPERTY Terminates
