SPECIFICATION FairSpec
CONSTANTS
    MaxStarts = 2
    MaxClients = 1
    MaxAttempts = 2
    MaxSockets = 4
INVARIANTS
    TypeOK
    OneServer
    PortIsFreed
PROPERTIES
    ClientsAreKept
    StopStops
    StopReturns
CHECK_DEADLOCK FALSE
