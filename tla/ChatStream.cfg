SPECIFICATION Spec
CONSTANTS
    Requests = {t1, t2}
    Faults = {}
CHECK_DEADLOCK FALSE
INVARIANTS
    TranscriptIsFull
