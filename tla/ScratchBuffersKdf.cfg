SPECIFICATION ScratchSpec
CONSTANT Iterations = 3
INVARIANT KdfScratchWiped
CHECK_DEADLOCK FALSE
