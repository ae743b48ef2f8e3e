\* Field kinds at every length of interest, and containers and lists nested.
CONSTANTS
    U = 2
    MaxTreeDepth = 4
    Plans <- MCPlans
SPECIFICATION Spec
INVARIANTS
    TypeOK
    HasherHoldsSSZRoots
    WrapperHoldsSSZRoots
    MembersAtTheirIndices
PROPERTY StopsOnlyAtLimits
CHECK_DEADLOCK FALSE
