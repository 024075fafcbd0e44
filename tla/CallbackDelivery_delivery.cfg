CONSTANTS
    Dispatchers = {d1, d2}
    Callbacks = {"run_started", "partial"}
    MaxEvents = 2
    MaxAttempts = 2
    MaxReplays = 1
    SnapshotReads = FALSE
    Faults = {"crash", "late", "lost", "overdue"}
SPECIFICATION Spec
SYMMETRY Symmetry
CHECK_DEADLOCK FALSE
INVARIANTS
    TypeOK
    DeliveredWasAccepted
