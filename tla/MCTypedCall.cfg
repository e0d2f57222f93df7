SPECIFICATION TypedSpec
CONSTANTS
    CounterMod = 4
    Lengths <- MCLengths
    kNonceSizeBytes = 12
    MaxElements = 80
    Types <- MCTypes
INVARIANTS
    NoPadReuse
    TagBlockNotInPad
    EveryByteMasked
    NonceAllRandom
    ValueIsMessage
    SameTypeRoundTrips
PROPERTIES
    CallsReturn
CHECK_DEADLOCK FALSE
