SPECIFICATION Spec
CONSTANTS
    InitialSlots = 2
    HashKey <- MCHashKey
    Pipes = {"p1", "p2"}
    Keys = 3
    MaxConn = 3
    MaxReplies = 2
    MaxHeld = 2
    Requests = {1, 2}
INVARIANTS
    HashConsistent
PROPERTIES
    ImplementsService
CHECK_DEADLOCK FALSE
