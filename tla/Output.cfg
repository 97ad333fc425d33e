SPECIFICATION MCSpec
CONSTANTS
    Pipes <- MCPipes
    MaxOffer = 5
    ReadSizes = {1, 2}
    Runs <- MCRuns
    Window = 8
    MaxWindow = 8
INVARIANTS CreditInv StreamSound OutputAccounted LiveLinesExact ReportComplete
CHECK_DEADLOCK FALSE
