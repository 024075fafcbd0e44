CONSTANTS
    MaxAttempt = 3
    Docs = {d1, d2}
    MaxCalls = 2
    Faults = {"lapse", "crash", "gate", "drain", "timeout", "disconnect", "lose",
              "unavailable", "supersede", "stale"}
SPECIFICATION Spec
SYMMETRY Symmetry
CHECK_DEADLOCK FALSE
INVARIANTS
    AuditIsSound
    PublishedOnce
    ReportedIsPublished
