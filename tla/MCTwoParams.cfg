SPECIFICATION Spec

CONSTANTS
    LRTCount = 2
    GRTIx = 1
    Policy = "DELAYED"
    fixed = fixed
    changing = changing
    run = run
    width = width
    height = height
    Task <- MCTask
    Deps <- MCDeps
    Context = {changing}
    ContextOf <- MCContextOf
    RoundOf <- MCRoundOf
    MappedLRT <- MCMappedLRT
    ConfigTask = {1}
    StaticContext = {}
    SRDAGContext = {}
    Param = {width, height}
    ParamsSetBy <- TwoParamsSetBy
    RunGraphOf <- MCRunGraphOf
    Rounds <- MCRounds
    RunMode <- MCRunMode
    LoopCount <- MCLoopCount
    MaxRuns = 1
    MaxSignals = 0
    None = None

PROPERTIES
    CallsReturn

CHECK_DEADLOCK FALSE
