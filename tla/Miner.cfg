SPECIFICATION FairSpec
CONSTANTS
    Calls = {"w", "p", "q", "b", "m", "f"}
    Kind <- MCKind
    Txs <- MCTxs
    Transactions <- MCTransactions
    InputSum <- MCInputSum
    OutputSum <- MCOutputSum
    Size <- MCSize
    Segwit = {"t2"}
    Word = 65536
    TransactionPoolCapacity = 4
    PriorityLimit = 10
    BlockSize = 350
    InitialSubsidy = 50
    SubsidyHalvingRate = 2
    MaxHalvings = 2
    InitialPool <- MCInitialPool
    MaxCalls = 3
    MayStart = TRUE
CHECK_DEADLOCK FALSE
INVARIANTS TypeOK CountersAgree NothingLost AnswersMatch BlockIsModest
PROPERTY HandlersReturn
