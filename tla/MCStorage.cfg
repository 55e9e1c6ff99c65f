CONSTANTS
    r1 = r1
    r2 = r2
    f1 = f1
    f2 = f2
    p1 = p1
    p2 = p2
    Reader = {r1, r2}
    File = {f1, f2}
    Window = {1, 2, 3}
    Size <- MCSize
    Damaged = {}
    WindowSize = 4
    MappedLimit = 8
    Extra = 2
    MaxUse = 3
    MaxLost = 1
    None = None
    NoValue = NoValue
    NoFile = NoFile
    NoTree = NoTree
    IndexPath <- MCPath
    MaxDepth = 3
    Id = {"x", "y"}
    Stages = {0, 2}
    Sources <- MCSources
    MaxIndexCalls = 4
    Unused = Unused
    Oid = {"a"}
    Pack = {p1, p2}
    FRESHEN_FREQUENCY = 1
    Expire = 2
    OdbMaxTime = 4
    MaxMoves = 1
    NoOid = NoOid
    Thread = {"t1", "t2"}
    Handle = {1, 2, 3, 4, 5}
    MaxVersion = 2
    MaxFailures = 1
    NoAttr = NoAttr
    FileContent = {"a", "b", "empty"}
    SizeOf <- MCSizeOf
    MaxTime = 3
    MaxChanges = 2
    N = 3
    Conflicting = {2}
    Applied = {3}
    MaxCrashes = 2
    MaxRebaseFaults = 1
    Path = {"f", "u"}
    Version <- MCVersion
    Heads <- MCHeads
    Ignores = {{}, {"u"}}
    SaveFlags = {{}, {"KEEP_INDEX"}, {"INCLUDE_UNTRACKED", "INCLUDE_IGNORED"}}
    MaxEdits = 3
    MaxCalls = 2
    MaxFaults = 1
    MaxStashes = 2
SYMMETRY Symmetry
SPECIFICATION StorageSpec
CHECK_DEADLOCK FALSE
INVARIANTS
    WindowsAreSafe
    ObjectsAreFound WrittenStays
    SharedIsSound
    ServesTheFile
    ChangesAreSeen DerivedAgrees
    RebaseIsExact CanBeAborted
    WorkIsKept AppliesOrRefuses
PROPERTIES
    EvictsLeastRecent WriteKeepsOthers
