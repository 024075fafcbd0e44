CONSTANTS
    Dispatchers = {d1}
    Callbacks = {"run_started", "succeeded", "failed"}
    MaxEvents = 2
    MaxAttempts = 1
    MaxReplays = 0
    SnapshotReads = FALSE
    Faults = {"lost", "requeue", "remote", "delete", "retry", "purge", "expire"}
SPECIFICATION FairSpec
CHECK_DEADLOCK FALSE
INVARIANTS
    
    PublicationIsShown

    
    
