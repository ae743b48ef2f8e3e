SPECIFICATION Spec
CONSTANTS
    Registry = 65536
    Types <- MCTypes
    TypeOf <- MCTypeOf
    Instances <- MCInstances
    Received <- MCReceived
    Junk = {8}
    MaxUint32 = 2147483647
    MaxCalls = 3
    MaxOffsets = 16
    Deviant = {"AggregateAndProof", "AttesterSlashing", "Deposit", "Validator", "SignedBeaconBlock", "BeaconBlockBodyCapella", "ListP", "CodeTrieSmall", "Obj2", "Case5A"}
    Altered = {"AggregateAndProof", "AttesterSlashing", "BeaconBlockBodyPhase0", "Obj2", "ListC", "ExecutionPayloadCapella", "ErrorResponse", "Deposit", "PendingAttestation"}
INVARIANTS
    RoundTrip
    InputPartitioned
    DecodedIsUsable
    HashAgreesWithMarshal
