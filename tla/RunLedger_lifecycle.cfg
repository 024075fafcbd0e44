CONSTANTS
    Workers = {w1, w2}
    Clients = {c1}
    Scanner = scanner
    Nobody = nobody
    StartModes = {"held", "auto"}
    ApiOps = {"start", "cancel", "retry", "approve", "reject"}
    Faults = {"lapse", "node", "human", "auth", "revoke", "held_ttl", "queue_ttl"}
    TimeoutAction = "fallback"
    RejectFallback = TRUE
    MaxToken = 2
    MaxNodes = 1
    MaxRetries = 1
SPECIFICATION Spec
SYMMETRY Symmetry
CHECK_DEADLOCK FALSE
INVARIANTS
    TypeOK
    EventSeqIsGapless
    TokensAreUnique
    CallbacksInOrder
PROPERTIES
    OutcomeIsNotReplaced
    ImplementsFeed
