SPECIFICATION Spec
CONSTANTS
    NoBlock <- MCNoBlock
    Genesis = 0
    Blocks <- MCBlocks
    Parent <- MCParent
    Number <- MCNumber
    Chain <- MCChain
    L1Origin <- MCL1Origin
    Included <- MCIncluded
    PayloadSize <- MCSize
    DepositOnly = {}
    Gossip = {}
    MaxUnsafePayloadsMemory = 5
    MaxL1 = 4
    ForkPoint = 9
    SeqWindowSize = 1
    ChannelTimeout = 1
    MaxReorgSeqWindows = 5
    FinalityLookback = 3
    FinalityDelay = 1
    EngineSync = FALSE
    LostReplies = FALSE
INVARIANTS
    FinalizedReproducible
    ResetSafeComplete
