SPECIFICATION FairSpec
CONSTANTS
    Users = {u1}
    Emitters = {e1}
    Kinds = {"event"}
    MaxNotes = 3
    Core = 1
    MaxPool = 1
    QueueCapacity = 1
    ReplayLimit = 2
    MaxCrashes = 0
    None = None
PROPERTIES
    GoneIsForgotten
    DeliveredInTheEnd
CHECK_DEADLOCK FALSE
