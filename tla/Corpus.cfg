SPECIFICATION FairSpec
CONSTANTS
    cli = cli
    arq = arq
    u1 = u1
    u2 = u2
    host = host
    Runs = {cli, arq}
    Urls = {u1, u2}
    HostOf <- TwoUrls
    Disallowed = {u1}
    RespectRobots = TRUE
    MaxAttempts = 3
    MaxRedirects = 1
    Starters = {1, 2}
    StoreFaults = TRUE
    Clis = {cli}
    ArqJobs = {arq}
    Launches <- OneAtATime
    Batch <- Batches
    MaxTries = 2
    MaxCrashes = 2
    DbFaults = TRUE
    ForeignKeys = FALSE
CHECK_DEADLOCK FALSE
INVARIANTS
    OneSessionOneFate
    CopiesNeedACrash
    CrawlStartsPolitely
    IncompleteCollectionIsKnown
PROPERTIES
    RunsSettle
