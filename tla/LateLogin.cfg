SPECIFICATION Spec
CONSTANTS
    Users = {u1}
    Roles = {USER}
    Pairs = {t1, t2}
    Requests = {r1, r2}
    None = None
    Exclusive = FALSE
    MaxFailures = 0
    MaxExpiries = 0
SYMMETRY Interchangeable
INVARIANTS
    ForcedLogout
CHECK_DEADLOCK FALSE
