CONSTANTS
    a1 = a1  a2 = a2  a3 = a3  p1 = p1  p2 = p2  k1 = k1  k2 = k2  v1 = v1
    Absent = Absent  NoRequest = NoRequest  NoAttempt = NoAttempt  NoProcess = NoProcess
    Process = {p1, p2}
    Attempt = {a1, a2, a3}
    Key = {k1, k2}
    Entry = {1}
    Request <- AllRequests
    Expiry <- Expiries
    MaxTime = 1
    MaxWindow = 1
    MaxPending = 2
    MaxReceipts = 1
    MaxRevision = 2
    Offers <- Mixed
    Impatient = {a1}
    Fragile = {p1}
SPECIFICATION FairSpec
INVARIANTS ReceiptsAreEvidence CapacityIsConserved
PROPERTIES  CallsReturn
CHECK_DEADLOCK FALSE
