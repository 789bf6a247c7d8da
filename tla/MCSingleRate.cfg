CONSTANTS
    VerticesOf <- MCVerticesOf
    Kind <- MCKind
    OutEdges <- MCOutEdges
    InEdges <- MCInEdges
    Src <- MCSrc
    Snk <- MCSnk
    Roots <- AllRoots
    RatesOf <- MCRatesOf
    Outer <- MCOuter
    DelayedEdge <- MCDelayedEdge
    DelaysOf <- MCDelaysOf
    Persistent <- MCPersistent
    Dynamic <- Dyn
    Policies <- Both
    MinExecTime <- MCMinExecTime
    NonSchedulable = 1000
SPECIFICATION RuntimeSpec
INVARIANTS TokensInOrder GraphComplete ExecutedAsWritten
CHECK_DEADLOCK FALSE
