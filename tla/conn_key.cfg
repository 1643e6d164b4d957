SPECIFICATION Spec
CONSTANTS
    Client = client
    Server = server
    Hash <- MCHash
    Payloads = {p1, p2}
    RetryCounts = {1}
    Modes <- Ciphered
    Lifetime = 1
    Advance = 1
    Lapse = 5
    FirstPing = 2
    Word = 1000
    SendMayFail = FALSE
    Prompt = FALSE
    MaxTime = 4
    MaxPush = 3
    MaxDups = 0
PROPERTIES
    DetectedKeyDeciphers
CHECK_DEADLOCK FALSE
