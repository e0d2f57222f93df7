SPECIFICATION FlushedBetweenCalls
CONSTANTS
    p1 = p1
    p2 = p2
    m0 = m0
    m3 = m3
    Procs = {p1, p2}
    Msgs = {m0, m3}
    SizeOf <- MCSizeOf
    Base = 2
    LenBytes = 2
    ShortAt = {3, 6}
    MaxSaves = 2
SYMMETRY Symmetry
INVARIANTS
    LoadReturnsSaved
    GcmLoadReturnsSaved
    SavedContainerLoads
CHECK_DEADLOCK FALSE
