SPECIFICATION Spec
CONSTANTS
    t1 = t1
    t2 = t2
    s1 = s1
    s2 = s2
    a1 = a1
    a2 = a2
    Threads = {t1, t2}
    PyKeys = {s1, s2}
    Addresses = {a1, a2}
    MaxCalls = 5
SYMMETRY EitherAddress
INVARIANTS
    ErrorIsOfItsCall
    NoDanglingHandle
    NothingLeaks
CHECK_DEADLOCK FALSE
