SPECIFICATION Spec
CONSTANTS
    App = {a1, a2}
    MaxProviders = 3
    MaxPending = 2
    a1 = a1
    a2 = a2
INVARIANTS
    TypeOK
    NoProviderLeaks
    DownIsClean
    TracesConnectedUntilShutdown
CHECK_DEADLOCK FALSE
