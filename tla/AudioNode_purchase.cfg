CONSTANTS
    copied = copied
    bought = bought
    s1 = s1
    Scenes = {s1}
    Parts = 1
    DefaultMusic = {}
    PaidMusic = {bought}
    TtsCost = 1
    MusicCost = 1
    Cap = 3
    MaxSubmits = 2
    MaxAttempt = 2
    Faults = {"crash", "takeover", "limit", "lost", "upload", "media", "music"}
SPECIFICATION Spec
CHECK_DEADLOCK FALSE
INVARIANTS
    ChargedOnce
    ChargesAreReserved
PROPERTIES
    LateNodeIsFenced
