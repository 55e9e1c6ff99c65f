CONSTANTS
    o1 = o1
    o2 = o2
    o3 = o3
    big = big
    bad = bad
    x = x
    y = y
    z = z
    None = None
    NoValue = NoValue
    Crash = Crash
    Unused = Unused
    N = 8
    NrThreads = 3
    Window = 1
    Hash <- MCHash
    MaxFailures = 1
    Unpacker = {"t1", "t2"}
    Offset = {o1, o2, o3, big, bad}
    Base <- MCBase
    Size <- MCSize
    Broken = {bad}
    SizeLimit = 2
    MemoryLimit = 1
SPECIFICATION WorkersSpec
CHECK_DEADLOCK FALSE
INVARIANTS
    SearchIsExact
    BasesAreKept
    WriteIsExact HistoryIsExact WalkIsRight
    KeepsWork ReachesTarget
    NoChangeLost MergeIsSound
PROPERTIES
    SearchAlwaysEnds UnpackReturns
