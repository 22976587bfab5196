SPECIFICATION Spec
CONSTANTS
    t1 = t1
    t2 = t2
    Token = {t1, t2}
    LastBlock = 4
    Confirmations = 0
    MaxAttempts = 2
    Rescues = {t1}
    MaxWindow = 2
    FaultKinds = {"crash", "read", "disk"}
    MaxFaults = 1
INVARIANTS
    AppliedIsReflected
    CursorCoversEvents
    NewestInspectionOnly
    KillAnnouncedOnce
PROPERTIES
    NoWayBack
CHECK_DEADLOCK FALSE
