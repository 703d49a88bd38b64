CONSTANTS
    Alice = Alice
    Bob = Bob
    NoKey = NoKey
    Openers = {Alice}
    Updaters = {Alice}
    Lossy = FALSE
    Amount = 2
    Fee = 1
    Changes = {0, 1}
    Pays = {1}
    MaxOpens = 2
    MaxUpdates = 3
SPECIFICATION FairSpec
INVARIANT IndexedByState
PROPERTIES CallsReturn StatesConverge
CHECK_DEADLOCK FALSE
