\* Every struct type; three calls; what arrives is what was sent or differs a little.
CONSTANTS
    Instances <- MCInstances
    Received <- MCReceived
    MaxCalls = 3
SPECIFICATION Spec
INVARIANTS
    TypeOK
    UnmarshalNeverPanics
    PanicOnlyAtLastNilChild
    SizeIsExact
    RoundTrip
    DecodedIsEncodable
    KeepsOnlyBytes
    OneEncoding
