SPECIFICATION Spec
CONSTANTS
    Users = {u1, u2}
    Roles = {USER, ADMIN}
    Pairs = {t1, t2}
    Requests = {r1, r2}
    None = None
    Exclusive = TRUE
    MaxFailures = 0
    MaxExpiries = 1
SYMMETRY Interchangeable
INVARIANTS
    SingleSession
    ForcedLogout
PROPERTIES
    OnlyUnlockUnlocks
    ImplementsStore
CHECK_DEADLOCK FALSE
