SPECIFICATION LongRun
CONSTANTS
    Users = {u1}
    Roles = {USER}
    Pairs = {t1, t2}
    Requests = {r1, r2}
    None = None
    Exclusive = FALSE
    MaxFailures = 0
    MaxExpiries = 2
PROPERTIES
    LockEventuallyBites
CHECK_DEADLOCK FALSE
