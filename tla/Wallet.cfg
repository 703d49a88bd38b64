SPECIFICATION Spec
CONSTANTS
    Word = 256
    SafeBlockAmount = 1
    Receipts = {3}
    Spends <- SmallSpends
    Fundings <- OneFunding
    HasMiner = FALSE
    Bootstraps = TRUE
    MaxForkDepth = 0
    MaxForks = 0
    MaxBlocks = 4
    MaxRequests = 2
CHECK_DEADLOCK FALSE
INVARIANTS OwnedExactly RequestsSpendOnce PaysWhatItHas ConfirmedIsDeep
