\* A picture taken while the process changes, three changes in all.
CONSTANTS
    Elf <- MCElf
    Mappings <- MCMappings
    Initial <- MCInitial
    Addrs <- MCAddrs
    MaxChanges = 3
    None = None
    Garbage = Garbage
SPECIFICATION Spec
INVARIANTS TypeOK AnswersOnceTrue StandingFound PictureInv
PROPERTIES NamesStay
CHECK_DEADLOCK FALSE
