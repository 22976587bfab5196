SPECIFICATION InstallationSpec
CONSTANTS
    w1 = w1
    w2 = w2
    Watch = {w1, w2}
    Reading = {"scan"}
    Legacy = {"seen", "positions"}
    Commits = {"c", "d"}
    Limit = 2
    Batches = {1, 2}
    MaxPaid = 5
    Months = 1
    MaxProcessFaults = 1
    Files = 2
    Asset = {"a", "b"}
    Refreshes = 2
    MaxFileFaults = 2
INVARIANTS
    LockNamesHolder
    NothingLost
    BudgetHolds
    AllOrNothing
PROPERTIES
    StartsSettled
CHECK_DEADLOCK FALSE
