CONSTANTS
    Path = {"f"}
    Version <- MCVersion
    Heads <- MCHeads
    Ignores = {{}}
    SaveFlags = {{}}
    MaxEdits = 5
    MaxCalls = 2
    MaxFaults = 0
    MaxStashes = 1
SPECIFICATION StashSpec
CHECK_DEADLOCK FALSE
INVARIANT AppliedKeepsUntracked
