CONSTANTS
    Workers = {w1}
    Clients = {c1}
    Scanner = scanner
    Nobody = nobody
    StartModes = {"held", "auto"}
    ApiOps = {"purge", "retry"}
    Faults = {"lapse", "deadline", "crash", "drain", "human", "human_ttl", "optional"}
    TimeoutAction = "cancelled"
    RejectFallback = FALSE
    MaxToken = 2
    MaxNodes = 2
    MaxRetries = 1
SPECIFICATION FairSpec
CHECK_DEADLOCK FALSE
INVARIANTS
    PurgedHasNoCheckpoint
PROPERTIES
    EveryRunEnds
    PurgeCompletes
