SPECIFICATION LiveSpec
CONSTANTS
    t1 = t1
    t2 = t2
    Token = {t1}
    LastBlock = 4
    Confirmations = 1
    MaxAttempts = 2
    Rescues = {}
    MaxWindow = 2
    FaultKinds = {"crash", "read", "disk"}
    MaxFaults = 1
    n1 = n1
    n2 = n2
    Notice = {n1, n2}
    SendAttempts = 3
    MaxTries = 2
    DrainLimit = 1
    MaxOutboxFaults = 2
PROPERTIES
    EventsConsumed
    InspectionsEnd
    EveryEntryEnds
CHECK_DEADLOCK FALSE
