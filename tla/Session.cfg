SPECIFICATION FairSpec
CONSTANTS
    Window = 4
    MaxWindow = 4
    MaxStreams = 1
    FaultyFrames <- AnyFrame
    Loads <- MCLoads
INVARIANTS SessionSound
PROPERTIES FlowsImplemented ClosedStaysClosed ExitDelivered
CHECK_DEADLOCK FALSE
