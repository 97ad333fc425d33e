SPECIFICATION FairSpec
CONSTANTS
    Window = 1
    Chunk = 2
    PipeCap = 3
    Loads <- MCLoads
INVARIANTS StageInv NoLostWakeup Fenced
PROPERTIES StageExitReported
CHECK_DEADLOCK FALSE
