SPECIFICATION Spec
CONSTANTS
    Garbage = Garbage
    None = None
    Batches <- MCBatches
    Channels <- MCChannels
    L1Time <- MCL1Time
    MaxL1 = 5
    MaxChannels = 2
    MaxResets = 1
    BlockTime = 2
    SeqWindowSize = 2
    MaxSequencerDrift = 3
    ChannelTimeout = 2
    SpanBatchTime = 0
INVARIANT DerivationDeterministic
