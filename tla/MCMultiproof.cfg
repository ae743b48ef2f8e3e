\* Depth 3: 15 nodes; up to 3 indices; every single tampering.
CONSTANTS
    HashLen = 2
    Nodes <- MCNodes
    Value <- MCValue
    Inputs <- MCInputs
    Depth = 3
    MaxLeaves = 3
    Tampered = TRUE
SPECIFICATION Spec
INVARIANTS
    TypeOK
    AcceptedLeavesAreInTree
    HonestProofNeverFalse
    HonestPathAccepted
    RequiredIndicesComplete
    NoNodeHashedTwice
PROPERTIES
    Termination
