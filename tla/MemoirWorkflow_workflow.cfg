CONSTANTS
    Cases <- SmallCases
    BatchMax = 2
    OldRefMax = 1
    RouteCap = 3
    MaxCalls = 4
    MaxTokens = 3
    Costs = {1}
    MaxScenes = 2
    MaxAttempt = 2
    Faults = {"crash", "throttle", "time", "stop", "tool"}
SPECIFICATION FairSpec
CHECK_DEADLOCK FALSE
INVARIANTS
    PlaybackIsSafe
    PublishedCovers
    SucceededReadEverything
PROPERTIES
    Terminates
