SPECIFICATION FairInstanceSpec
CONSTANTS
    Scope = {r, a}
    Root = r
    NoScope = NoScope
    Operation = {o1, o2}
    NoOperation = NoOperation
    FirstOperation = o1
    Thread = {t1}
    StopReason = {"Requested"}
    MaxUnits = 0
    MaxCauses = 1
    ClaimScope = {}
    FaultyOperation = {}
    Watched = r
    Waiter = {wt}
    Releaser = {rl}
    MaxOwed = 2
CHECK_DEADLOCK FALSE
INVARIANTS
    
    NoLostWakeup
PROPERTIES
    TreeEnds
    ObserversReturn
