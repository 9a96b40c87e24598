SPECIFICATION Spec
CONSTANTS
    Process = {p1, p2}
    Deployment <- Deployments
    NoHash = NoHash
SYMMETRY Symmetry
INVARIANTS
    HitIsAsPublished
    BudgetHolds
    InvalidationIsComplete
    CommittedObjectExists
