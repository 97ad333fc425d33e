SPECIFICATION Spec
CONSTANTS
    Pipelines <- MCPipelines
    Graphs <- MCGraphs
    Inventories <- MCInventories
    Placements <- MCPlacements
    PipeCapacity = 1
    MaxEarly = 1
    Backends = {"epoll", "poll"}
INVARIANTS DataComplete PlanSound CompletionSound NeverStuck
CHECK_DEADLOCK FALSE
