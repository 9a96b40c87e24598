SPECIFICATION WorkSpec
CONSTANTS
    Scope = {r}
    Root = r
    NoScope = NoScope
    Operation = {p, j1, j2, j3}
    NoOperation = NoOperation
    Thread = {t1}
    StopReason = {}
    MaxUnits = 0
    MaxCauses = 2
    ClaimScope = {}
    FaultyOperation = {}
    Job = {j1, j2, j3}
    Blocking = {j1, j2}
    Capacity = 1
SYMMETRY Symmetry
CHECK_DEADLOCK FALSE
INVARIANTS
    NotDispatchedIsCertain
    LostCallerWaits
