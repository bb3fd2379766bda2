SPECIFICATION Spec
CONSTANTS
    g = g
    a1 = a1
    b1 = b1
    a2 = a2
    a3 = a3
    NoBlock = NoBlock
    Genesis = g
    Blocks <- MCBlocks
    Parent <- MCParent
    Number <- MCNumber
    Chain <- MCChain
    L1Origin <- MCL1Origin
    Included <- MCIncluded
    PayloadSize <- MCSize
    DepositOnly = {b1}
    Gossip = {a2}
    MaxUnsafePayloadsMemory = 5
    MaxL1 = 2
    ForkPoint = 2
    SeqWindowSize = 1
    ChannelTimeout = 1
    MaxReorgSeqWindows = 5
    FinalityLookback = 3
    FinalityDelay = 0
    EngineSync = TRUE
    LostReplies = TRUE
INVARIANTS
    HeadsOrdered
    FinalizedReproducible
    SettledSafeOnUnsafeChain
PROPERTIES
    HeadsOnlyAdvance
    EngineFinalizedOnlyAdvances
