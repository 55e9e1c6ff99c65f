\* two handles: one writes while the other reads, or both write
CONSTANTS
    W = W
    V = V
    X = X
    Proc = {W, X}
    NRefs = 2
    Oid = {o1, o2}
    Broken = {}
    Beneath <- NoNesting
    Logged = {1}
    HeadRef = 1
    NoRef = NoRef
    Corrupt = Corrupt
    NoFile = NoFile
    Free = Free
    Stale = Stale
    NoCall = NoCall
    Calls <- HandleCalls
    MaxCalls = 3
    MaxCrashes = 0
SPECIFICATION HandlesSpec
INVARIANTS ReadsSeen NoLocksLeft
SYMMETRY OidSymmetry
CHECK_DEADLOCK FALSE
