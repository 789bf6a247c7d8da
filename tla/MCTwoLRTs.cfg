SPECIFICATION Spec

CONSTANTS
    LRTCount = 2
    GRTIx = 1
    Policy = "DELAYED"
    fixed = fixed
    changing = changing
    run = run
    width = width
    height = height
    Task <- MCTask
    Deps <- MCDeps
    Context = {changing}
    ContextOf <- MCContextOf
    RoundOf <- MCRoundOf
    MappedLRT <- MCMappedLRT
    ConfigTask = {0, 1}
    StaticContext = {}
    SRDAGContext = {}
    Param = {width, height}
    ParamsSetBy <- MCParamsSetBy
    RunGraphOf <- MCRunGraphOf
    Rounds <- MCRounds
    RunMode <- MCRunMode
    LoopCount <- MCLoopCount
    MaxRuns = 2
    MaxSignals = 1
    None = None

INVARIANTS
    ParamsMatched

PROPERTIES
    ImplementsDataflow
    CallsReturn
