CONSTANTS
    Launchers = {l1, l2}
    None = None
    MaxRuns = 2
    MaxTrouble = 1
    Faults = {"refused", "lost", "crash", "due", "held_ttl", "expire", "delete", "source", "week", "lease"}
SPECIFICATION FairSpec
CHECK_DEADLOCK FALSE
INVARIANTS
    RunsAreSound
    PlayerFindsDocument
PROPERTIES
    RevokedStaysRevoked
    LaunchConverges
    DeletedIsPurged
