SPECIFICATION Spec
CONSTANTS
    Scenarios <- MCScenarios
    SockCapacity = 1
    maxMissed = 2
INVARIANTS OnlyAuthorizedInOrder LeaseExact FailedIsReaped NothingStranded
CHECK_DEADLOCK FALSE
