SPECIFICATION FairSpec
CONSTANTS
    MayReset = TRUE
    MaxCalls = 2
INVARIANTS
    TypeOK
    IdleIsServed
    NoSocketLeaks
PROPERTIES
    ReadersEndTheirOwn
    ResponsesAreTheirs
    CallsConnect
CHECK_DEADLOCK FALSE
