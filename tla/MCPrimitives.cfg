SPECIFICATION PrimitivesSpec
CONSTANTS
    t1 = t1
    t2 = t2
    Threads = {t1, t2}
    MaxBlocks = 2
    Calls <- MCCalls
    BlockBytes = 8
    LengthBytes = 2
    kInlineCap = 5
    CounterMod = 8
    Jobs <- MCJobs
    Iterations = 3
INVARIANTS
    NoFault
    WrongOnlyBeyondSelfTest
    OneAnswer
    NoRoundKeyLeft
    PaddingIsFips
    HmacIsRfc2104
    Pbkdf2IsRfc8018
    GuardedBuffersWiped
PROPERTIES
    CallsReturn
    ImplementsCipher
    HashCallsReturn
CHECK_DEADLOCK FALSE
