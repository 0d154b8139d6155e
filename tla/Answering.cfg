SPECIFICATION FairSpec
CONSTANTS
    Questions = {"asks", "interrupts"}
    Tenants = {"acme", "globex"}
    Nobody = "nobody"
    Chunks = {"intro", "detail", "notes", "other"}
    Asker <- MCAsker
    Owner <- MCOwner
    Document <- MCDocument
    VectorTopK = 2
    LexicalTopK = 2
    RrfK = 60
    RerankCandidates = 2
    FinalTopK = 2
    MaxRetries = 2
    MaxNumber = 2
CHECK_DEADLOCK FALSE
INVARIANTS
    PassagesAreTheAskers
    AgreementSurvives
    CitationsResolve
PROPERTIES
    ReviewNeverFails
    RunsEnd
