SPECIFICATION Spec
CONSTANTS
    Users = {u1, u2}
    Roles = {USER}
    Pairs = {t1, t2}
    Requests = {r1, r2}
    None = None
    Exclusive = FALSE
    MaxFailures = 1
    MaxExpiries = 1
SYMMETRY Interchangeable
INVARIANTS
    RegistryInv
PROPERTIES
    TokensDieOnce
CHECK_DEADLOCK FALSE
