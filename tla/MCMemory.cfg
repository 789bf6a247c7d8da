SPECIFICATION MemorySpec

CONSTANTS
    LRTCount = 3
    GRTIx = 0
    Policy = "JIT"
    graph = graph
    run = run
    width = width
    Task <- MCTask
    Deps <- MCDeps
    Context <- MCContext
    ContextOf <- MCContextOf
    RoundOf <- MCRoundOf
    MappedLRT <- MCMappedLRT
    ConfigTask = {1}
    StaticContext = {}
    SRDAGContext = {}
    Param = {width}
    ParamsSetBy <- MCParamsSetBy
    RunGraphOf <- MCRunGraphOf
    Rounds <- MCRounds
    RunMode <- MCRunMode
    LoopCount <- MCLoopCount
    MaxRuns = 2
    MaxSignals = 0
    None = None
    Fifo <- MCFifo
    Source <- MCSource
    Readers <- MCReaders
    ForkTask = {2}
    AddressOf <- MCAddressOf
    Dynamic <- MCLateFifos

INVARIANTS
    KeptForReaders
    CountsExact
    NothingLeft
    UpdateUninterrupted
