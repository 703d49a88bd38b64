CONSTANTS
    Alice = Alice
    Bob = Bob
    NoKey = NoKey
    Openers = {Alice}
    Updaters = {Alice, Bob}
    Lossy = TRUE
    Amount = 2
    Fee = 1
    Changes = {1}
    Pays = {0, 1}
    MaxOpens = 2
    MaxUpdates = 3
SPECIFICATION Spec
INVARIANTS TypeOK SignedByPeer StateInRange RefundBeforeFunding PeersFound
    VersionsAgree InitiatorCanPunish
PROPERTY ChannelKept
CHECK_DEADLOCK FALSE
