SPECIFICATION Spec
CONSTANTS
    DefaultPlatform = "servicenow"
    MinMain = 1
    ChunkSize = 8
    ChunkOverlap = 2
    MinChunk = 3
    MaxDistance = 1
    HashBits = 6
    HashFeature <- MCHashFeature
    ChromeLines <- MCChromeLines
    ChromeStarts = {"copyright", "cookie"}
    Pages <- MCPages
    Asked <- MCAsked
    AIMax = 24
    AIMin = 4
    BatchSize = 2
    VectorTopK = 2
    LexicalTopK = 3
    RerankCandidates = 5
    FinalTopK = 2
    StopWords = {"how", "in"}
CHECK_DEADLOCK FALSE
INVARIANTS
    FoundOnEveryPlatform
