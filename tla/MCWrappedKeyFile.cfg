SPECIFICATION FlushedBetweenCalls
CONSTANTS
    p1 = p1
    p2 = p2
    ka = ka
    kb = kb
    wa = wa
    wb = wb
    NoKey = NoKey
    Procs = {p1, p2}
    Keys = {ka, kb}
    SizeOf <- MCSizeOf
    Passphrases = {wa, wb}
    Iterations = {1, 2}
    kMinPbkdf2Iterations = 2
    kMaxPbkdf2Iterations = 2
    ShortAt = {4, 7}
    MaxSaves = 2
SYMMETRY Symmetry
INVARIANTS
    LoadReturnsSavedKey
    SavedKeyLoads
CHECK_DEADLOCK FALSE
