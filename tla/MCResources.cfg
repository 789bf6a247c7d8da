SPECIFICATION DSpec

CONSTANTS
    LRTCount = 4
    graph = graph
    Task <- MCTask
    Deps <- MCDeps
    Vertex <- MCVertex
    VertexOf <- MCVertexOf
    GRTPE = 0
    Enabled = {0, 2, 3}
    RTInfos <- MCRTInfos
    Configs <- MCConfigs
    LastRound = 2
    Context <- MCContext
    ContextOf <- MCContextOf
    RoundOf <- MCRoundOf

INVARIANTS
    JobsInOrder
    MessagesFaithful
    WaitsBackward
    ScheduleFeasible
    MessagesDelivered
PROPERTY MappedWell
