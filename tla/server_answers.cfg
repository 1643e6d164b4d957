SPECIFICATION Spec
CONSTANTS
    Clients = {c1, c2}
    Timeout = 0
    AppLocks = TRUE
    SocketMayFail = FALSE
    MayLose = FALSE
    MaxSlots = 1
    MaxSays = 1
    MaxDups = 0
    MaxTime = 1
INVARIANTS
    AnswersAreOwn
CHECK_DEADLOCK FALSE
