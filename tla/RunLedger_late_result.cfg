CONSTANTS
    Workers = {w1, w2}
    Clients = {c1}
    Scanner = scanner
    Nobody = nobody
    StartModes = {"auto"}
    ApiOps = {}
    Faults = {"lapse", "node"}
    TimeoutAction = "failed"
    RejectFallback = FALSE
    MaxToken = 2
    MaxNodes = 1
    MaxRetries = 0
SPECIFICATION Spec
CHECK_DEADLOCK FALSE
PROPERTY
    LateResultIsFenced
