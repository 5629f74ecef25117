SPECIFICATION Spec
CONSTANTS
    Addresses = {a1, a2, a3}
    Identities = {g}
    AddressOf <- SomeAddressOf
    Passwords = {p1, p2}
    Temps = {t1, t2}
    Requests = {r0, r1, r2, r3, r4}
    Founder = r0
    Modes <- SomeModes
    None = None
    a1 = a1
    a2 = a2
    a3 = a3
    g = g
    p1 = p1
    p2 = p2
    t1 = t1
    t2 = t2
    r1 = r1
    r2 = r2
    r3 = r3
    r4 = r4
    r0 = r0
SYMMETRY Interchangeable
INVARIANTS
    RelationsInv
    OneAccount
    SignInDecides
CHECK_DEADLOCK FALSE
