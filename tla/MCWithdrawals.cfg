SPECIFICATION Spec
CONSTANTS
    Messages = {a, b, c}
    a = a
    b = b
    c = c
    Batches = {{}, {a, b, c}}
    Direct = {c}
    Value <- MCValue
    None = None
    SubmissionInterval = 2
    L2BlockTime = 1
    HashWindow = 3
    FinalizationPeriod = 1
    AllowNonFinalized = TRUE
    FinalityDepth = 1
    ChallengePeriod = 1
    MaxTime = 5
    MaxL2 = 2
    MaxReorgs = 1
    MaxFaults = 1
    MaxPending = 2
    MaxDepth = 2
SYMMETRY AB
INVARIANTS
    FinalizedWasSent
    ProposalsCorrect
    ExecutedOnce
    NoMessageLost
    MessengerSolvent
CHECK_DEADLOCK FALSE
