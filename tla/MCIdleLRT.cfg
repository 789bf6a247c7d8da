SPECIFICATION Spec

CONSTANTS
    LRTCount = 2
    GRTIx = 1
    Policy = "JIT"
    fixed = fixed
    changing = changing
    run = run
    width = width
    height = height
    Task <- MCTask
    Deps <- MCDeps
    Context = {changing}
    ContextOf <- MCContextOf
    RoundOf <- MCRoundOf
    MappedLRT <- IdleMappedLRT
    ConfigTask = {1}
    StaticContext = {}
    SRDAGContext = {}
    Param = {width}
    ParamsSetBy <- OneParamsSetBy
    RunGraphOf <- MCRunGraphOf
    Rounds <- MCRounds
    RunMode <- MCRunMode
    LoopCount <- MCLoopCount
    MaxRuns = 2
    MaxSignals = 0
    None = None

INVARIANTS
    PrecedenceRespected
