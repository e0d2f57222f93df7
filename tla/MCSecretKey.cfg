SPECIFICATION KeySpec
CONSTANTS
    o1 = o1
    o2 = o2
    o3 = o3
    p1 = p1
    p2 = p2
    p3 = p3
    Objs = {o1, o2, o3}
    Pages = {p1, p2, p3}
    PagesOf <- Layout
    Aligned = {o1}
    MlockMayFail = {o2}
    kGcmInvocationLimit = 1
    MaxKeys = 2
    MaxCalls = 2
INVARIANTS
    NoResidue
    KeyIntact
    BudgetFollowsKey
    NoLockLeak
    PrivateKeyProtected
CHECK_DEADLOCK FALSE
