SPECIFICATION Spec

CONSTANTS
    LRTCount = 3
    GRTIx = 1
    Policy = "JIT"
    graph = graph
    Task <- MCTask
    Deps <- MCDeps
    Context <- MCContext
    ContextOf <- MCContextOf
    RoundOf <- MCRoundOf
    MappedLRT <- MCMappedLRT
    ConfigTask = {}
    StaticContext <- MCContext
    SRDAGContext = {}
    Param = {}
    ParamsSetBy <- MCParamsSetBy
    RunGraphOf <- MCParamsSetBy
    Rounds <- MCRounds
    RunMode <- MCRunMode
    LoopCount <- MCLoopCount
    MaxRuns = 1
    MaxSignals = 0
    None = None

INVARIANTS
    TypeOK
    StampsSound
    BarrierSound
    ProtocolRespected

PROPERTIES
    DataflowSafety
