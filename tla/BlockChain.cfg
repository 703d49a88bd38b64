SPECIFICATION Spec
CONSTANTS
    Hashes <- LineHashes
    Genesis = "G"
    PreviousHash <- LinePrevious
    Transactions <- LineTransactions
    Inputs <- LineInputs
    Outputs <- LineOutputs
    Forwarded = {"A", "B", "C", "D", "X", "Y"}
    Unchecked = {"G", "A", "B", "C", "D"}
    MainCacheCapacity = 4
    Word = 256
    MaxHashes = 3
    MaxHeaders = 2
    MaxDeliveries = 7
CHECK_DEADLOCK FALSE
INVARIANTS BalanceExact UndoExact
PROPERTY ImplementsLedger
