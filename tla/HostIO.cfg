SPECIFICATION HostSpec
CONSTANTS
    Request = {r1, r2}
    NoRequest = NoRequest
    Operation = {"Read", "ReadUntilLimit", "WriteAll", "Flush", "Close", "Connect"}
    Size = {0, 2}
    InputBound = 3
    Reader = {c1, c2}
    NoRead = NoRead
    Unended = {"part"}
    Inputs <- Typed
    Descendant = {d1, d2}
CHECK_DEADLOCK FALSE
INVARIANTS
    
    
    InputIsConserved
    NothingIsPrefetched
    ReadsAreWhole
    NothingIsLeftBehind
PROPERTIES
    ClosedForGood
    
    ReadsReturn
    CommandsEnd
