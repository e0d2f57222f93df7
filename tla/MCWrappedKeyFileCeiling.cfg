SPECIFICATION Spec
CONSTANTS
    p1 = p1
    p2 = p2
    ka = ka
    kb = kb
    wa = wa
    wb = wb
    NoKey = NoKey
    Procs = {p1}
    Keys = {ka, kb}
    SizeOf <- MCSizeOf
    Passphrases = {wa, wb}
    Iterations = {1, 2, 4, 5}
    kMinPbkdf2Iterations = 2
    kMaxPbkdf2Iterations = 4
    ShortAt = {1, 2, 3, 4, 5, 6, 7}
    MaxSaves = 2
INVARIANTS
    SavedKeyLoads
CHECK_DEADLOCK FALSE
