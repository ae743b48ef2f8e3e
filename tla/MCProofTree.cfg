\* 11 nodes; proofs of every node in every state of the cached values.
CONSTANTS
    HashLen = 2
    Nodes <- MCNodes
    Targets <- MCTargets
    Value <- MCValue
    path <- MCpath
    Requests <- MCRequests
    zeroHashes <- MCzeroHashes
    Foreign <- MCForeign
SPECIFICATION Spec
INVARIANTS
    TypeOK
    AcceptedLeafIsInTree
    MadeProofAccepted
    CompressionLossless
PROPERTY LeavesUpToDate
