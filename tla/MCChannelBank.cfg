SPECIFICATION Spec
CONSTANTS
    c1 = c1
    c2 = c2
    NoChannel = NoChannel
    ChannelIDs <- Ids
    FrameSizes <- Sizes
    MaxFrameNumber = 2
    MaxTxFrames = 2
    ChannelTimeout = 1
    MaxChannelBankSize = 4
    CanyonOrigin = 1
    MaxOrigin = 2
SYMMETRY Symmetry
INVARIANTS
    BankConsistent
    NoExpiredBehindHead
    SizeAccounting
    ClosedPruned
PROPERTY
    NoReadyLeftBehind
