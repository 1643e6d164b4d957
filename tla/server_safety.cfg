SPECIFICATION Spec
CONSTANTS
    Clients = {c1, c2}
    Timeout = 0
    AppLocks = TRUE
    SocketMayFail = TRUE
    MayLose = TRUE
    MaxSlots = 1
    MaxSays = 2
    MaxDups = 0
    MaxTime = 1
SYMMETRY MCSymmetry
INVARIANTS
    TypeOK
    QueueIsFresh
    OneStrangerPerReuse
CHECK_DEADLOCK FALSE
