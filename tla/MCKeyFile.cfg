SPECIFICATION FlushedBetweenCalls
CONSTANTS
    p1 = p1
    p2 = p2
    ka = ka
    kb = kb
    Procs = {p1, p2}
    NoKey = NoKey
    NoProc = NoProc
    Keys = {ka, kb}
    SizeOf <- TwoSizes
INVARIANTS
    LoadReturnsSavedKey
    SavedKeyLoads
    LoadedBytesInPlace
PROPERTIES
    CallsEnd
CHECK_DEADLOCK FALSE
