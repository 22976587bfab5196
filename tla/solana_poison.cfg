SPECIFICATION DiscoverySpec
CONSTANTS
    Served = {"solana"}
    v2 = v2
    v4 = v4
    ka = ka
    kb = kb
    Factory = {v2, v4}
    SafeHead = 6
    Chunk = 4
    RangeBlocks = 5
    MaxFaults = 0
    Programs = 2
    Signatures = 6
    ProgramOf <- Listing
    SlotOf <- Slots
    PoolOf <- Pools
    Pool = {ka, kb}
    FirstTip = 2
    Poison = {3}
    SolFaultKinds = {}
    MaxSolFaults = 0
PROPERTIES
    OtherProgramsAdvance
CHECK_DEADLOCK FALSE
