SPECIFICATION Spec
CONSTANTS
    Chains <- MCChains
    PipeCapacity = 1
    MaxFaults = 2
INVARIANTS EofAfterAllData OutcomeSound FinalStageEndsRun
CHECK_DEADLOCK FALSE
