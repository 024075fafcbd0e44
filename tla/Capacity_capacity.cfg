CONSTANTS
    Runs = {r1, r2}
    Queued = {r2}
    Clients = {s1, s2}
    Scanners = {c1, c2}
    Nobody = Nobody
    Ops = {"start", "cancel", "finish"}
    Faults = {"lapse", "due", "fail", "crash"}
    MaxOps = 2
    MaxLapses = 1
    MaxQueued = 4
    MaxRunning = 2
SPECIFICATION FairSpec
CHECK_DEADLOCK FALSE
INVARIANTS
    TypeOK
PROPERTIES
    EndStays
    AdmissionConverges
    ExpiredIsReaped
