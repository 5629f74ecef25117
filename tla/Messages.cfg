SPECIFICATION Spec
CONSTANTS
    Users = {a, b}
    MaxMessages = 3
    Limit = 1
    CacheSize = 1
    MaxAsked = 2
    Patience = {TRUE, FALSE}
    None = None
SYMMETRY Interchangeable
CONSTRAINTS
    OneReader
    FewForImpatient
INVARIANTS
    MessagesInv
    ReadStaysRead
    WalkIsComplete
    LiveKept
    OwnRows
CHECK_DEADLOCK FALSE
