SPECIFICATION FairSpec
CONSTANTS
    Client = client
    Server = server
    Hash <- MCHash
    Payloads = {p1, p2}
    RetryCounts = {0}
    Modes <- Plain
    Lifetime = 1
    Advance = 1
    Lapse = 5
    FirstPing = 2
    Word = 1000
    SendMayFail = FALSE
    Prompt = TRUE
    MaxTime = 4
    MaxPush = 2
    MaxDups = 1
INVARIANTS
    CopiesBounded
PROPERTIES
    ClientPayloadsSettle
CHECK_DEADLOCK FALSE
