SPECIFICATION FairSpec
CONSTANTS
    Requests = {t1, t2, t3}
    Faults = {"db", "model", "disconnect"}
CHECK_DEADLOCK FALSE
INVARIANTS
    NoOrphans
    AnswersHaveQuestions
    KnownSessionsExist
    ChatsAreRecorded
PROPERTIES
    DeletedStaysDeleted
    RequestsEnd
