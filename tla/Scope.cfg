SPECIFICATION Spec
CONSTANTS
    Scope = {r, a, b}
    Root = r
    NoScope = NoScope
    Operation = {o1}
    NoOperation = NoOperation
    Thread = {t1, t2}
    StopReason = {"Requested"}
    MaxUnits = 0
    MaxCauses = 2
    ClaimScope = {r}
    FaultyOperation = {o1}
SYMMETRY Symmetry
CONSTRAINT Explored
CHECK_DEADLOCK FALSE
INVARIANTS
    TerminationIsQuiet
    ReportIsComplete
    NothingIsStranded
    StopReachesSubtree
    CauseBeforeWake
