SPECIFICATION RunFairSpec
CONSTANTS
    N = 3
    Concurrency = 2
    Encodable = TRUE
    NoCanary = NoCanary
    CanarySpecs <- MCCanarySpecs
INVARIANTS ControllerInv RunSound
PROPERTIES ResultsAreFinal NothingLaunchedAfterStop RunEnds
CHECK_DEADLOCK FALSE
