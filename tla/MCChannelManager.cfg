SPECIFICATION Spec
CONSTANTS
    MaxBlock = 2
    Blocks <- Chain
    Parent <- ChainParent
    Epoch <- ChainEpoch
    NoBlock = 0
    ChannelTimeout = 2
    SubSafetyMargin = 1
    SeqWindowSize = 4
    MaxChannelDuration = 2
    c1 = c1
    c2 = c2
    c3 = c3
    ChannelIDs <- Ids
    NoChannel = NoChannel
    MaxFrames = 2
    MaxL1Head = 5
SYMMETRY Symmetry
INVARIANTS
    FrameConservation
    NoBlockLost
    NoStuckChannel
PROPERTIES
    EndedOnce
