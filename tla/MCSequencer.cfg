SPECIFICATION Spec
CONSTANTS
    BlockTime = 2
    SealingDuration = 1
    MaxSequencerDrift = 4
    ConfDepth = 1
    MaxSafeLag = 2
    L1Times <- MCL1Times
    MaxL1 = 2
    ForkPoint = 1
    MaxL2 = 3
    MaxTime = 8
    MaxResets = 1
    MaxStops = 1
INVARIANTS
    SequencedDerivable
    NotAheadOfClock
PROPERTIES
    SealExtendsHead
    SequencingGoesOn
CHECK_DEADLOCK FALSE
