SPECIFICATION Spec

CONSTANTS
    LRTCount = 2
    GRTIx = 1
    Policy = "JIT"
    fixed = fixed
    changing = changing
    run = run
    width = width
    height = height
    Task <- MCTask
    Deps <- MCDeps
    Context = {fixed}
    ContextOf <- OneContextOf
    RoundOf <- OneRoundOf
    MappedLRT <- MCMappedLRT
    ConfigTask = {}
    StaticContext = {fixed}
    SRDAGContext = {}
    Param = {}
    ParamsSetBy <- NoParamsSetBy
    RunGraphOf <- MCRunGraphOf
    Rounds <- MCRounds
    RunMode <- MCRunMode
    LoopCount <- MCLoopCount
    MaxRuns = 2
    MaxSignals = 0
    None = None

INVARIANTS
    IterationComplete
