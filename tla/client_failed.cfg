SPECIFICATION Spec
CONSTANTS
    MayReset = FALSE
    MaxCalls = 1
PROPERTIES
    FailedStaysDisconnected
CHECK_DEADLOCK FALSE
