SPECIFICATION Spec
CONSTANTS
    Wrong = {"wrong"}
    Vm <- MCVm
    None = None
    MaxGameDepth = 3
    HalfDuration = 1
    MaxTime = 4
    MaxMoves = 2
INVARIANTS
    RightSideAlwaysWins
CHECK_DEADLOCK FALSE
