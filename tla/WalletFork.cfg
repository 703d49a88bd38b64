SPECIFICATION Spec
CONSTANTS
    Word = 256
    SafeBlockAmount = 2
    Receipts = {3}
    Spends <- OneSpend
    Fundings = {}
    HasMiner = TRUE
    Bootstraps = FALSE
    MaxForkDepth = 3
    MaxForks = 2
    MaxBlocks = 4
    MaxRequests = 2
CHECK_DEADLOCK FALSE
INVARIANTS BalanceIsCoins CoinInOnePlace
