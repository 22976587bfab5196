SPECIFICATION DiscoverySpec
CONSTANTS
    Served = {"robinhood", "solana"}
    v2 = v2
    v4 = v4
    ka = ka
    kb = kb
    Factory = {v2, v4}
    SafeHead = 6
    Chunk = 4
    RangeBlocks = 5
    MaxFaults = 1
    Programs = 2
    Signatures = 6
    ProgramOf <- Listing
    SlotOf <- Slots
    PoolOf <- Pools
    Pool = {ka, kb}
    FirstTip = 2
    Poison = {}
    SolFaultKinds = {"crash", "disk", "ack", "net", "missing"}
    MaxSolFaults = 2
INVARIANTS
    SearchFindsFirst
    EachBlockOnce
    NothingSkipped
    HandledUpToCursor
    CursorAccepted
    MessageBudget
PROPERTIES
    HistoryOnlyOnce
    EachChainCatchesUp
CHECK_DEADLOCK FALSE
