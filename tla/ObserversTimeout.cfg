SPECIFICATION WatchSpec
CONSTANTS
    Scope = {r}
    Root = r
    NoScope = NoScope
    Operation = {o1}
    NoOperation = NoOperation
    Thread = {t1}
    StopReason = {"Requested"}
    MaxUnits = 0
    MaxCauses = 1
    ClaimScope = {}
    FaultyOperation = {}
    Watched = r
    Waiter = {wt}
    Releaser = {}
    MaxOwed = 2
CHECK_DEADLOCK FALSE
INVARIANTS
    TimedOutNamesWork
