SPECIFICATION FairSpec
CONSTANTS
    c1 = c1
    c2 = c2
    Candidate = {c1}
    Source = {"onchain"}
    BlockOf <- OnlyFirst
    LastBlock = 1
    ChunkBlocks = 1
    QueueSize = 1
    MaxAttempts = 2
    Aging = {c1}
    FaultKinds = {"crash", "disk", "unexpected"}
    MaxFaults = 2
PROPERTIES
    OnchainSettled
    ChecksTerminate
CHECK_DEADLOCK FALSE
