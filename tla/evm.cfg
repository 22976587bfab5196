SPECIFICATION FairSpec
CONSTANTS
    c1 = c1
    c2 = c2
    Candidate = {c1, c2}
    BlockOf <- OneEach
    LastBlock = 2
    MaxAttempts = 2
    HasFallback = TRUE
    FaultKinds = {"crash", "disk", "ack", "discovery", "lag"}
    MaxFaults = 2
INVARIANTS
    CursorCoversCandidates
    SilentFirstRange
    AlertBudget
    ToldOnce
PROPERTIES
    SlotsAreAnalyses
    DiscoveryAdvances
