SPECIFICATION FairSpec
CONSTANTS
    s1 = s1
    s2 = s2
    Sends <- Two
    MaxPending = 2
    MaxVersions <- MCVersions
    NumConfirmations = 2
    SafeAbortNonceTooLowCount = 1
    NonceSpace = 8
    ReorgDepth = 1
    MaxReorgs = 1
    NoNonce = NoNonce
    LostReplies = TRUE
CHECK_DEADLOCK FALSE
INVARIANTS
    NoNonceGap
    ReceiptConfirmed
PROPERTY
    EverySendEnds
