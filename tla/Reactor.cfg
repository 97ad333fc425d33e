SPECIFICATION Spec
CONSTANTS
    Pids = {1, 2}
    Handles = {h1, h2}
    Specs <- MCSpecs
    MaxSpawns = 3
    Scenarios <- MCScenarios
    Fds = {1, 2}
    MaxCalls = 5
    MaxArrivals = 3
    MaxClock = 2
INVARIANTS NoLostWakeup HandlersGetTheirOwn OwnersKillTheirOwn ChildGetsItsHandles
CHECK_DEADLOCK FALSE
