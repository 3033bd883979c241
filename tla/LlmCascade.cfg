SPECIFICATION TFairSpec
CONSTANTS
    cheap = cheap
    premium = premium
    frontier = frontier
    embed = embed
    MaxAttempts = 3
    ModelGroup <- MCModelGroup
    CASCADE <- MCCASCADE
    Lapse = {0, 2, 16, 40, 80, 120}
    Starts = {0, 160}
    Quick = 16
    MaxWaits = 2
    CHAT_STREAM_TIMEOUT_SECONDS = 240
INVARIANTS
    TypeOK
    EscalationOnlyAfterExhaustion
    StaysInAllowed
    ReportIsAccurate
    HardErrorsEndTheCall
    CallIsBounded
    OneHungGroupIsSurvived
PROPERTIES
    Terminates
    RetriesRunOut
    ImplementsPolicy
CHECK_DEADLOCK FALSE
