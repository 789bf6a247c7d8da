CONSTANTS
    Number = {"0", "2"}
    Static = {"s"}
    Dynamic = {"x", "y"}
    Operations = {"-", "*", "/", "%", "^", "!", "<", "negated", "juxtaposed", "log2", "max", "if"}
    Branches <- MCBranches
    MaxOperations = 2
SPECIFICATION Spec
INVARIANTS ParsedAsWritten EvaluatedAsWritten
CHECK_DEADLOCK FALSE
