SPECIFICATION Spec
CONSTANTS
    Requests = {r1, r2}
    Threads = {t1}
    Workers = 2
    MAX_TOOL_ROUNDS = 2
    RecursionLimit = 8
    Overlap = TRUE
INVARIANTS
    DoneIsOwnAnswer
