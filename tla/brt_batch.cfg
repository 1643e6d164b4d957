SPECIFICATION Spec
CONSTANTS
    NumClients = 1
    Outputs <- SomeOutputs
    Capacity = 2
    MaxRequests = 2
INVARIANTS
    PickedUpIsAnswered
CHECK_DEADLOCK FALSE
