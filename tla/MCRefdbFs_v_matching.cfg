\* two handles update one reference from the same value
CONSTANTS
    W = W
    V = V
    X = X
    Proc = {W, V}
    NRefs = 1
    Oid = {o1, o2}
    Broken = {}
    Beneath <- NoNesting
    Logged = {1}
    HeadRef = 1
    NoRef = NoRef
    Corrupt = Corrupt
    NoFile = NoFile
    Free = Free
    Stale = Stale
    NoCall = NoCall
    Calls <- MatchingCalls
    MaxCalls = 3
    MaxCrashes = 0
SPECIFICATION Spec
PROPERTY MatchingWriteMatches
SYMMETRY OidSymmetry
CHECK_DEADLOCK FALSE
