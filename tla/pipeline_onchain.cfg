SPECIFICATION Spec
CONSTANTS
    c1 = c1
    c2 = c2
    Candidate = {c1, c2}
    Source = {"onchain"}
    BlockOf <- BothOnchain
    LastBlock = 2
    ChunkBlocks = 2
    QueueSize = 1
    MaxAttempts = 1
    Aging = {c1}
    FaultKinds = {"crash", "disk", "ack", "unexpected"}
    MaxFaults = 1
INVARIANTS
    CursorCoversWork
    CompletedImpliesSeen
PROPERTIES
    HandoffSpec
CHECK_DEADLOCK FALSE
