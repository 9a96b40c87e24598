SPECIFICATION TraceSpec
CONSTANTS
    Traces <- MCTraces
    Tasks <- MCTasks
    Depth = 4
INVARIANTS
    PrefixesArePreserved
CHECK_DEADLOCK FALSE
