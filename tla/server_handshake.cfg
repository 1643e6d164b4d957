SPECIFICATION FairSpec
CONSTANTS
    Clients = {c1, c2}
    Timeout = 0
    AppLocks = TRUE
    SocketMayFail = FALSE
    MayLose = FALSE
    MaxSlots = 2
    MaxSays = 0
    MaxDups = 1
    MaxTime = 1
PROPERTIES
    HandshakeEnds
CHECK_DEADLOCK FALSE
