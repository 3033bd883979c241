SPECIFICATION FairSpec
CONSTANTS
    Requests = {r1, r2}
    Threads = {t1, t2}
    Workers = 1
    MAX_TOOL_ROUNDS = 1
    RecursionLimit = 6
    Overlap = FALSE
INVARIANTS
    DoneIsOwnAnswer
    CallsAreAnswered
PROPERTIES
    ImplementsLog
    EveryStreamEnds
