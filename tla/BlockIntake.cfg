SPECIFICATION IntakeSpec
CONSTANTS
    Hashes <- ForkHashes
    Genesis = "G"
    PreviousHash <- ForkPrevious
    Transactions <- ForkTransactions
    Inputs <- ForkInputs
    Outputs <- ForkOutputs
    Forwarded = {"A", "B", "C", "D", "E", "X", "Y"}
    Unchecked = {"A", "B", "D", "E"}
    MainCacheCapacity = 4
    Word = 256
    MaxHashes = 3
    MaxHeaders = 2
    MaxDeliveries = 5
    Callers = {"forward", "bootstrap", "loop"}
CHECK_DEADLOCK FALSE
INVARIANT AncestorsRecorded
