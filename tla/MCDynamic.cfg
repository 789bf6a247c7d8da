SPECIFICATION Spec

CONSTANTS
    LRTCount = 3
    GRTIx = 0
    Policy = "JIT"
    graph = graph
    run = run
    width = width
    height = height
    Task <- MCTask
    Deps <- MCDeps
    Context <- MCContext
    ContextOf <- MCContextOf
    RoundOf <- MCRoundOf
    MappedLRT <- MCMappedLRT
    ConfigTask = {0}
    StaticContext = {}
    SRDAGContext <- MCContext
    Param = {width, height}
    ParamsSetBy <- MCParamsSetBy
    RunGraphOf <- MCRunGraphOf
    Rounds <- MCRounds
    RunMode <- MCRunMode
    LoopCount <- MCLoopCount
    MaxRuns = 2
    MaxSignals = 0
    None = None

INVARIANTS
    PrecedenceRespected
