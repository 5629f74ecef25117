SPECIFICATION JobSpec
CONSTANTS
    Users = {u1, u2}
    Names = {action, sport}
    TagLists <- SomeTagLists
    Titles = {a, b}
    Ratings = {1, 2}
    Keys = {film1, film2, show, match1, match2}
    Requests <- SomeRequests
    Modes <- SomeModes
    MaxContents = 6
    Sources <- TwoDays
    ChunkSize = 2
    MaxChunks = 13
    MaxFaults = 1
    Guests = {guest}
    None = None
    a = a
    b = b
    u1 = u1
    u2 = u2
    guest = guest
    r1 = r1
    r2 = r2
    r3 = r3
    film1 = film1
    film2 = film2
    show = show
    match1 = match1
    match2 = match2
    action = action
    sport = sport
SYMMETRY Interchangeable
INVARIANTS
    CatalogInv
    TotalsMatch
    ImportComplete
CHECK_DEADLOCK FALSE
