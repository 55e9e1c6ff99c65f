\* one handle; name 3 lies beneath name 2; an object is missing
CONSTANTS
    W = W
    V = V
    X = X
    Proc = {W}
    NRefs = 3
    Oid = {o1, o2}
    Broken = {o2}
    Beneath <- Nesting
    Logged = {1, 2}
    HeadRef = 1
    NoRef = NoRef
    Corrupt = Corrupt
    NoFile = NoFile
    Free = Free
    Stale = Stale
    NoCall = NoCall
    Calls <- StoreCalls
    MaxCalls = 3
    MaxCrashes = 2
SPECIFICATION StoreSpec
INVARIANTS ReflogMatches CacheHonest NoDirectoryConflict CrashIsHarmless
PROPERTIES ImplementsStore Untouched
CHECK_DEADLOCK FALSE
