SPECIFICATION FairSpec
CONSTANTS
    m1 = m1
    bad = bad
    Message <- MCMessage
    Malformed <- MCMalformed
    MaxRetries = 1
    MaxDialRetries = 1
    MaxConnections = 3
INVARIANTS
    NothingLost
    CopiesBounded
    ReportedWritten
PROPERTIES
    RequestsHandled
    KeepsPromise
