SPECIFICATION Spec
CONSTANTS
    Kinds <- MCKinds
    MaxVertices = 3
    MaxEdits = 1
    ConfigLoopDelays = FALSE
INVARIANTS
    IndicesSound
    EdgesLocal
    PathsKept
CHECK_DEADLOCK FALSE
