SPECIFICATION FairSpec
CONSTANTS
    NumClients = 2
    Outputs <- SomeOutputs
    Capacity = 2
    MaxRequests = 3
INVARIANTS
    TypeOK
    AnswersAreOwn
    AnswersAreWhole
    HandlesReleased
PROPERTIES
    RequestsAreAnswered
CHECK_DEADLOCK FALSE
