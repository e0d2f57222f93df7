SPECIFICATION GcmSpec
CONSTANTS
    Threads = {t1, t2}
    Msgs = {m1, m2, big}
    TooLong = {big}
    Aads = {a1, a2}
    kGcmInvocationLimit = 2
    CounterMod = 5
    MaxAttempts = 4
    HalfBytes = 1
    Inputs <- MCInputs
INVARIANTS
    NoncesWithinLimit
    OnlySealedIsOpened
    GhashIsPolynomial
    BlocksDetermineInput
PROPERTY ImplementsAead
CHECK_DEADLOCK FALSE
