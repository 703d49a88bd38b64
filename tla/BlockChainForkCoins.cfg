SPECIFICATION Spec
CONSTANTS
    Hashes <- ForkHashes
    Genesis = "G"
    PreviousHash <- ForkPrevious
    Transactions <- ForkTransactions
    Inputs <- ForkInputs
    Outputs <- ForkOutputs
    Forwarded = {"A", "B", "C", "D", "E", "X", "Y"}
    Unchecked = {}
    MainCacheCapacity = 4
    Word = 256
    MaxHashes = 3
    MaxHeaders = 2
    MaxDeliveries = 8
CHECK_DEADLOCK FALSE
INVARIANT CoinsOfActiveChain
