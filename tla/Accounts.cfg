SPECIFICATION FairSpec
CONSTANTS
    Calls = {c1, c2, c3}
    Emails = {"ann", "bob"}
    Slugs = {"acme"}
    Default = "default"
    DbFaults = TRUE
CHECK_DEADLOCK FALSE
INVARIANTS
    KeysUnique
    DefaultTenantHasAdmin
    AnswersAreTrue
PROPERTIES
    CallsEnd
