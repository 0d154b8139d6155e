SPECIFICATION FairSpec
CONSTANTS
    j1 = j1
    j2 = j2
    j3 = j3
    r1 = r1
    r2 = r2
    Requests = {r1}
    Jobs = {j1, j2}
    Batch <- OneRequest
    MaxChunks = 2
    Unchanged = {}
    ForeignKeys = TRUE
    CommitsFirst = {r1}
    Faults = {}
CHECK_DEADLOCK FALSE
INVARIANTS
    TasksSurviveBadUrls
