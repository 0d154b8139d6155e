SPECIFICATION Spec
CONSTANTS
    Calls = {c1, c2}
    Emails = {"ann", "bob"}
    Slugs = {"acme"}
    Default = "default"
    DbFaults = FALSE
CHECK_DEADLOCK FALSE
INVARIANTS
    OnlyFirstIsAdmin
