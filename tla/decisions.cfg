SPECIFICATION DecisionsSpec
CONSTANTS
    p = p
    q = q
    c = c
    x = x
    TakeLimit = 4
    MaxDue = 5
    MinScores = {55, 61}
    MaxAge = 3
    EarlyCap = 8
    MaxCap = 15
    MinLiquidity = 2
    Ages = {0, 4, 7}
    Caps = {0, 5, 12, 20}
    Liquidities = {0, 2, 4}
    Flows = {0, 1}
    Waits = {0, 2}
    Readings <- FewReadings
    Wallet = {p, q, c, x}
    Person = {p, q}
    Labelled = {q, c}
    Excluded = {x}
    Ranges = 2
    PerRange = 2
    SellersNeeded = 2
    SolanaNeeded = 1
    BuyerSample = 2
    LadderWallets = 1
    CodeLookups = 2
    ReceiptCap = 2
INVARIANTS
    GateSound
    ConfirmedIsEarned
    FairShare
CHECK_DEADLOCK FALSE
