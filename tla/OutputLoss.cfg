SPECIFICATION MCSpec
CONSTANTS
    Pipes <- MCPipes
    MaxOffer = 5
    ReadSizes = {1, 2}
    Runs <- MCRuns
    Window = 8
    MaxWindow = 8
INVARIANT LossIsCounted
CHECK_DEADLOCK FALSE
