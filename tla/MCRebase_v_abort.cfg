SPECIFICATION MCSpec
CONSTANTS
    N = 1
    Conflicting = {}
    Applied = {}
    MaxCrashes = 0
    MaxRebaseFaults = 0
INVARIANT AbortGoesBack
CHECK_DEADLOCK FALSE
