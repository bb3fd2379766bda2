SPECIFICATION SyncSpec
CONSTANTS
    Payloads <- MCPayloads
    BlockNumber <- MCBlockNumber
    PayloadSize <- MCPayloadSize
    ParentHash <- MCParentHash
    MaxSize = 2
    Genesis = "g"
    Gossiped = {"c2", "c3"}
    Canonical = {"c1", "c2", "c3"}
    Served = {"c1", "c2", "f2"}
    Peers = {"p"}
    Loops = {"l1", "l2"}
    QuarantineSize = 2
    RequestsCap = 1
    ResultsCap = 1
    InboxCap = 1
    None = None
INVARIANTS
    IndexedIsQuarantined
    OnlyGossipedChain
CHECK_DEADLOCK FALSE
PROPERTIES
    GapsAreFilled
    KeepsHighest
