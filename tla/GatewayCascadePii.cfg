SPECIFICATION GSpec
CONSTANTS
    cheap = cheap
    premium = premium
    frontier = frontier
    embed = embed
    NoGroup = NoGroup
    MaxAttempts = 3
    NumRetries = 2
    MaxAbandoned = 1
    ModelGroup <- MCModelGroup
    CASCADE <- MCCASCADE
    Fallbacks <- MCFallbacks
INVARIANTS
    PiiLockHolds
CHECK_DEADLOCK FALSE
