CONSTANTS
    Attempts = {a1, a2}
    First = a1
    r1 = r1
    r2 = r2
    k1 = k1
    Routes <- TwoRoutes
    Primary = r1
    FallbackOf <- MutualFallback
    QuotaOf <- SharedQuota
    Allowed <- TwoRoutes
    MaxCalls = 2
    Concurrency = 1
    Rpm = 1
    Threshold = 1
    NoRoute = NoRoute
    Faults = {"crash", "redis", "minute", "cancel", "usage", "drain", "snapshot"}
SPECIFICATION Spec
CHECK_DEADLOCK FALSE
INVARIANTS
    RecordIsSound
    WithinLimits
PROPERTIES
    VerdictIsFinal
