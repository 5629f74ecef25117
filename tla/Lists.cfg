SPECIFICATION EitherSpec
CONSTANTS
    Users = {u1, u2}
    Playlists = {p1}
    Contents = {c1}
    Titles = {x, y}
    Requests = {1, 2, 3, 4, 5}
    None = None
    Limit = 2
    Worlds <- SomeWorlds
    Grain = 3
    NoCursor = NoCursor
SYMMETRY Interchangeable
CONSTRAINT InTurn
INVARIANTS
    OneSubscription
    CountMatches
    PlaylistInv
    PagesInOrder
    WalkComplete
    CursorSeparates
PROPERTIES
    DeletedStaysDeleted
    OwnerEditsAlone
CHECK_DEADLOCK FALSE
