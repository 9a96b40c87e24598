SPECIFICATION Spec
CONSTANTS
    Request = {r1, r2}
    NoRequest = NoRequest
    Operation = {"WriteAll"}
    Size = {0, 2}
    InputBound = 3
CHECK_DEADLOCK FALSE
INVARIANTS
    FramesAreWhole
