SPECIFICATION FairSpec
CONSTANTS
    t1 = t1
    t2 = t2
    Token = {t1}
    LastBlock = 3
    Confirmations = 0
    MaxAttempts = 1
    Rescues = {t1}
    MaxWindow = 1
    FaultKinds = {}
    MaxFaults = 0
PROPERTIES
    EventsConsumed
CHECK_DEADLOCK FALSE
