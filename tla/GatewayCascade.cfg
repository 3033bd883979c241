SPECIFICATION GSpec
CONSTANTS
    cheap = cheap
    premium = premium
    frontier = frontier
    embed = embed
    NoGroup = NoGroup
    MaxAttempts = 3
    NumRetries = 2
    MaxAbandoned = 1
    ModelGroup <- MCModelGroup
    CASCADE <- MCCASCADE
    Fallbacks <- MCFallbacks
INVARIANTS
    SovereignExhaustedFirst
    ProviderCallsBounded
CHECK_DEADLOCK FALSE
