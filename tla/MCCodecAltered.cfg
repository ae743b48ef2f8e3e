\* Altered bytes, against the tests of structs_fuzz_test.go.
CONSTANTS
    Instances <- MCInstances
    Received <- MCReceived
    MaxCalls = 2
SPECIFICATION Spec
INVARIANT AlterationIsNoticed
