CONSTANTS
    r1 = r1 c1 = c1 c2 = c2 k1 = k1 k2 = k2 k3 = k3 m1 = m1 m2 = m2 m3 = m3 d1 = d1 x1 = x1
    Forever = Forever All = All Null = Null
    Key = {k1, k2, k3}
    Expiry <- Expiries
    MaxTime = 1
    MaxWindow = 1
    Caller = {c1, c2}
    Reader = {r1}
    Message <- Messages
    Bare <- Bares
    Config <- Configs
    Policy <- Policies
    Content = {x1}
    Wants <- Intentions
    DedupKey = {d1}
    PageSize = 1
    ScanLimit = 1
    MaxScan = 2
    MaxSessionReceipts = 2
    MaxOrdinal = 2
    Client = {b1, b2}
    Currency = {"EUR", "USD"}
    MaxValue = 3
    Amount = {1, 2}
    Limit = {2}
    Offered <- SomeBudgets
    Traces <- MCTraces
    Tasks <- MCTasks
    Depth = 4
    ReplayKey = {y1, y2}
    KeyThread = {h1, h2}
    KeyCapacity = 1
    ArtifactKey = {"a", "b", "c", "d", "source"}
    Artifact <- Artifacts
    CacheBudget = {0, 11, 15, 40}
    SlotBytes = 1
    Passes <- SomePasses
    Steps <- SomeSteps
    Unit = {"u1", "u2"}
    Pipelines <- SomePipelines
    UnitLists <- UnitAnswers
    Preserves <- Reports
    Extras <- SomeExtras
    Analyses = {"uses"}
    PassConfigs <- SomeConfigs
    MaxRuns = 2
SPECIFICATION ServiceSpec
SYMMETRY Symmetry
CHECK_DEADLOCK FALSE
INVARIANTS
    
    NoSilentOverrun
    PagesAreOneSnapshot
    SweptStaysClean
    DedupHasItsTarget
    
    VerdictsAreExact
    
    CacheIsSound
    AvailableIsCurrent
PROPERTIES
    PublishesWhatWasRead
