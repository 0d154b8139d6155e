SPECIFICATION FairSpec
CONSTANTS
    j1 = j1
    j2 = j2
    j3 = j3
    r1 = r1
    r2 = r2
    Requests = {r1, r2}
    Jobs = {j1, j2, j3}
    Batch <- TwoRequests
    MaxChunks = 2
    Unchanged <- OneUnchanged
    ForeignKeys = FALSE
    CommitsFirst = {r1}
    Faults = {"db", "vector", "crash"}
CHECK_DEADLOCK FALSE
INVARIANTS
    VerdictMatchesStores
    RowsBackedByVectors
    FailedRequestLeavesNoRows
    BatchInOrder
    EarlyAcknowledgementsHold
PROPERTIES
    LedgerSpec
    RequestsEnd
