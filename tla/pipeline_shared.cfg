SPECIFICATION Spec
CONSTANTS
    c1 = c1
    c2 = c2
    Candidate = {c1}
    Source = {"onchain", "gecko"}
    BlockOf <- OnlyFirst
    LastBlock = 1
    ChunkBlocks = 1
    QueueSize = 1
    MaxAttempts = 2
    Aging = {c1}
    FaultKinds = {"crash", "disk", "ack", "unexpected"}
    MaxFaults = 2
INVARIANTS
    KeysFollowChecks
    AlertBudget
    UnknownIsRechecked
    SingleOwner
PROPERTIES
    RecheckRunsOnce
