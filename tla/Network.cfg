CONSTANTS
    Nodes = {"a", "b", "c", "d"}
    Version <- MCVersion
    Scenarios <- AllScenarios
    AddressLimit = 3
    PeerLimit = 2
    Fanout = 1
    Stamps = {0, 1}
    Transactions = {"t", "u"}
    Segwit = {"t", "u"}
    CoinbaseOnly = {1}
    MaxLength = 3
    BatchLimit = 2
SPECIFICATION Spec
INVARIANTS
    NoOneSided
    WitnessesComplete
    BootstrapGains
PROPERTIES
    Spreads
    Settles
CHECK_DEADLOCK FALSE
