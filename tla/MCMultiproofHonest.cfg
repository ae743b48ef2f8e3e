\* Depth 3: the smallest tree in which an honest proof is refused.
CONSTANTS
    HashLen = 2
    Nodes <- MCNodes
    Value <- MCValue
    Inputs <- MCInputs
    Depth = 3
    MaxLeaves = 2
    Tampered = FALSE
SPECIFICATION Spec
INVARIANTS
    HonestProofAccepted
