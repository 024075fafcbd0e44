CONSTANTS
    copied = copied
    bought = bought
    s1 = s1
    Scenes = {}
    Parts = 1
    DefaultMusic = {copied}
    PaidMusic = {bought}
    TtsCost = 1
    MusicCost = 1
    Cap = 2
    MaxSubmits = 2
    MaxAttempt = 2
    Faults = {"crash", "takeover", "cancel", "commit", "lapse", "deadline", "lost", "media", "upload", "slow"}
SPECIFICATION FairSpec
CHECK_DEADLOCK FALSE
INVARIANTS
    LedgerIsSound
    PublishedIsKept
PROPERTIES
    NodeReturns
