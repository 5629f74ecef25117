SPECIFICATION Spec
CONSTANTS
    Users = {u1, u2}
    Emitters = {e1, e2}
    Kinds = {"event", "dm"}
    MaxNotes = 3
    Core = 1
    MaxPool = 2
    QueueCapacity = 0
    ReplayLimit = 1
    MaxCrashes = 1
    None = None
SYMMETRY Interchangeable
CONSTRAINT ThreeForOne
INVARIANTS
    DeliveryInv
    NoGap
CHECK_DEADLOCK FALSE
