\* three writers of one path, under every choice of flags
CONSTANTS
    Proc = {p1, p2, p3}
    NoFile = NoFile
    NChunks = 2
    MaxErrors = 2
    MaxCrashes = 1
SPECIFICATION FairSpec
INVARIANT AlwaysComplete
PROPERTIES ImplementsFile LockReleased
CHECK_DEADLOCK FALSE
