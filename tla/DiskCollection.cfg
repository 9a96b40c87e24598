SPECIFICATION Spec
CONSTANTS
    Process = {p1, p2}
    Deployment <- OneCollector
    NoHash = NoHash
PROPERTIES
    CollectsOnlyUnreachable
