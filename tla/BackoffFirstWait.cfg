CONSTANTS
    Requests = {r1, r2}
    Settings <- MCSettings
    LibInitialInterval = 5
    LibMaxInterval = 600
    defaultMaxRetries = 2
    Stop <- MCStop
SPECIFICATION Spec
INVARIANT FirstWaitIsInitial
