SPECIFICATION Spec
CONSTANTS
    Hashes <- LongHashes
    Genesis = "G"
    PreviousHash <- LongPrevious
    Transactions <- LongTransactions
    Inputs <- LongInputs
    Outputs <- LongOutputs
    Forwarded = {"A", "B", "C", "X", "Y"}
    Unchecked = {"A", "B", "C", "D", "E", "F"}
    MainCacheCapacity = 4
    Word = 256
    MaxHashes = 3
    MaxHeaders = 2
    MaxDeliveries = 9
CHECK_DEADLOCK FALSE
INVARIANTS TypeOK UndoKept PeersCatchUp
PROPERTY OnlyForLonger
