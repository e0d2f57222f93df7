SPECIFICATION ScratchSpec
CONSTANT Iterations = 3
INVARIANT KeyBytesWiped
CHECK_DEADLOCK FALSE
