SPECIFICATION Spec
CONSTANTS
    Graph = {"top", "run", "filter", "nested", "nestedRun", "leaf"}
    Root = "top"
    Upper <- MCUpper
    Config <- MCConfig
    DependsOn <- MCDependsOn
    Repetition <- MCRepetition
    Value = {1, 2}
    MaxExecutions = 2
INVARIANTS CountMatches DynamicRatesFresh
PROPERTY ExecutionsEnd
CHECK_DEADLOCK FALSE
