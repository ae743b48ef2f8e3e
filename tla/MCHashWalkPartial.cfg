\* Vectors of uint64, two items to a chunk, whose last chunk is partial.
CONSTANTS
    U = 2
    MaxTreeDepth = 4
    Plans <- PartialPlan
SPECIFICATION Spec
INVARIANT TreeRootEqualsHashTreeRoot
CHECK_DEADLOCK FALSE
