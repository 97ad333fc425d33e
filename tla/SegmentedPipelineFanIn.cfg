SPECIFICATION Spec
CONSTANTS
    Chains <- MCChains
    PipeCapacity = 1
    MaxFaults = 2
INVARIANT FailureIsReported
CHECK_DEADLOCK FALSE
