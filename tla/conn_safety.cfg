SPECIFICATION Spec
CONSTANTS
    Client = client
    Server = server
    Hash <- MCHash
    Payloads = {p1, p2}
    RetryCounts = {1}
    Modes <- Ciphered
    Lifetime = 1
    Advance = 1
    Lapse = 5
    FirstPing = 2
    Word = 1000
    SendMayFail = TRUE
    Prompt = FALSE
    MaxTime = 4
    MaxPush = 2
    MaxDups = 0
SYMMETRY MCSymmetry
INVARIANTS
    TypeOK
    OneHome
    BoundedTransmissions
    ConfirmedHasArrived
PROPERTIES
    ContractHolds
CHECK_DEADLOCK FALSE
