SPECIFICATION PageSpec
CONSTANTS
    Users = {u1, u2}
    Sessions = {s1, s2, s3}
    Contents = {c1, c2}
    Settings <- AllOfThem
    Combinations <- Explored
    None = None
SYMMETRY Interchangeable
INVARIANTS
    WatchInv
    ListedIffWatching
    BroadcastsAddUp
    PageShowsWatchers
    EntriesAreLive
CHECK_DEADLOCK FALSE
