\* A nil child of MarshalSSZTo, against fuzz.go.
CONSTANTS
    Instances <- MCInstances
    Received <- MCReceived
    MaxCalls = 1
SPECIFICATION Spec
INVARIANT MarshalFillsNilChildren
