CONSTANTS
    VerticesOf <- MCVerticesOf
    Kind <- MCKind
    OutEdges <- MCOutEdges
    InEdges <- MCInEdges
    Src <- MCSrc
    Snk <- MCSnk
    Roots <- TopTwinForks
    RatesOf <- MCRatesOf
    Outer <- MCOuter
    DelayedEdge <- MCDelayedEdge
    DelaysOf <- MCDelaysOf
    Policies <- Both
    MinExecTime <- MCMinExecTime
    NonSchedulable = 1000
SPECIFICATION FifoSpec
INVARIANTS RepetitionVectorExact ExecExact ConsInverse ScheduleSound NoneKeptForNothing FifosExact UsesExact
CHECK_DEADLOCK FALSE
