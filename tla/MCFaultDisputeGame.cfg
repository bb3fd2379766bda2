SPECIFICATION Spec
CONSTANTS
    Wrong = {"wrong", "merge"}
    Vm <- MCVm
    None = None
    MaxGameDepth = 4
    HalfDuration = 1
    MaxTime = 4
    MaxMoves = 3
INVARIANTS
    RightSideWins
    SolverStepsAccepted
PROPERTIES
    GameEnds
CHECK_DEADLOCK FALSE
