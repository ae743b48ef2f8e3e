----------------------------- MODULE SpecTypes ----------------------------
(***************************************************************************)
(* The containers of the consensus specification, spectests/structs.go,    *)
(* as their generated methods in spectests/structs_encoding.go treat them. *)
(* The number is the one in the methods: the size compared with the        *)
(* input's, the first offset and what SizeSSZ starts from.                 *)
(***************************************************************************)
EXTENDS SSZTypes

(* 1099511627776 in the code, beyond TLC's integers.                       *)
CONSTANT Registry
ASSUME RegistryAssumption == Registry \in Nat \ {0}

Checkpoint == Struct(40, <<Uint(8), ByteVector(32)>>)
AttestationData == Struct(128, <<
    Uint(8), Uint(8), ByteArray(32), Checkpoint, Checkpoint>>)
Attestation == Struct(228, <<Bitlist(2048), AttestationData, ByteArray(96)>>)
AggregateAndProof == Struct(108, <<Uint(8), Attestation, ByteArray(96)>>)
DepositData == Struct(184, <<
    ByteArray(48), ByteArray(32), Uint(8), ByteVector(96)>>)
Deposit == Struct(1240, <<Vector(ByteVector(32), 33), DepositData>>)
DepositMessage == Struct(88, <<ByteVector(48), ByteVector(32), Uint(8)>>)
IndexedAttestation == Struct(228, <<
    List(Uint(8), 2048), AttestationData, ByteVector(96)>>)
PendingAttestation == Struct(148, <<
    Bitlist(2048), AttestationData, Uint(8), Uint(8)>>)
Fork == Struct(16, <<ByteVector(4), ByteVector(4), Uint(8)>>)
Validator == Struct(121, <<
    ByteVector(48), ByteVector(32), Uint(8), Bool, Uint(8), Uint(8),
    Uint(8), Uint(8)>>)
VoluntaryExit == Struct(16, <<Uint(8), Uint(8)>>)
SignedVoluntaryExit == Struct(112, <<VoluntaryExit, ByteArray(96)>>)
Eth1Block == Struct(48, <<Uint(8), ByteVector(32), Uint(8)>>)
Eth1Data == Struct(72, <<ByteVector(32), Uint(8), ByteVector(32)>>)
SigningRoot == Struct(40, <<ByteVector(32), ByteVector(8)>>)
HistoricalBatch == Struct(524288, <<
    Vector(ByteArray(32), 8192), Vector(ByteArray(32), 8192)>>)
BeaconBlockHeader == Struct(112, <<
    Uint(8), Uint(8), ByteVector(32), ByteVector(32), ByteVector(32)>>)
SignedBeaconBlockHeader == Struct(208, <<BeaconBlockHeader, ByteVector(96)>>)
ProposerSlashing == Struct(416, <<
    SignedBeaconBlockHeader, SignedBeaconBlockHeader>>)
AttesterSlashing == Struct(8, <<IndexedAttestation, IndexedAttestation>>)
BeaconBlockBodyPhase0 == Struct(220, <<
    ByteVector(96), Eth1Data, ByteArray(32), List(ProposerSlashing, 16),
    List(AttesterSlashing, 2), List(Attestation, 128), List(Deposit, 16),
    List(SignedVoluntaryExit, 16)>>)
BeaconBlock == Struct(84, <<
    Uint(8), Uint(8), ByteVector(32), ByteVector(32), BeaconBlockBodyPhase0>>)
SignedBeaconBlock == Struct(100, <<BeaconBlock, ByteVector(96)>>)
Transfer == Struct(184, <<
    Uint(8), Uint(8), Uint(8), Uint(8), Uint(8), ByteVector(48),
    ByteVector(96)>>)
BeaconState == Struct(2687377, <<
    Uint(8), ByteVector(32), Uint(8), Fork, BeaconBlockHeader,
    Vector(ByteVector(32), 8192), Vector(ByteVector(32), 8192),
    List(ByteVector(32), 16777216), Eth1Data, List(Eth1Data, 2048), Uint(8),
    List(Validator, Registry), List(Uint(8), Registry),
    Vector(ByteVector(32), 65536), Vector(Uint(8), 8192),
    List(PendingAttestation, 4096), List(PendingAttestation, 4096),
    ByteVector(1), Checkpoint, Checkpoint, Checkpoint>>)
SyncAggregate == Struct(160, <<ByteVector(64), ByteArray(96)>>)
BeaconBlockBodyAltair == Struct(380, <<
    ByteVector(96), Eth1Data, ByteArray(32), List(ProposerSlashing, 16),
    List(AttesterSlashing, 2), List(Attestation, 128), List(Deposit, 16),
    List(SignedVoluntaryExit, 16), SyncAggregate>>)
ExecutionPayload == Struct(508, <<
    ByteArray(32), ByteArray(20), ByteArray(32), ByteArray(32),
    ByteArray(256), ByteArray(32), Uint(8), Uint(8), Uint(8), Uint(8),
    ByteList(32), ByteArray(32), ByteArray(32),
    List(ByteList(2^30), 1048576)>>)
BeaconBlockBodyBellatrix == Struct(384, <<
    ByteVector(96), Eth1Data, ByteArray(32), List(ProposerSlashing, 16),
    List(AttesterSlashing, 2), List(Attestation, 128), List(Deposit, 16),
    List(SignedVoluntaryExit, 16), SyncAggregate, ExecutionPayload>>)
SyncCommittee == Struct(24624, <<Vector(ByteVector(48), 512), ByteArray(48)>>)
BeaconStateAltair == Struct(2736629, <<
    Uint(8), ByteVector(32), Uint(8), Fork, BeaconBlockHeader,
    Vector(ByteVector(32), 8192), Vector(ByteVector(32), 8192),
    List(ByteVector(32), 16777216), Eth1Data, List(Eth1Data, 2048), Uint(8),
    List(Validator, Registry), List(Uint(8), Registry),
    Vector(ByteVector(32), 65536), Vector(Uint(8), 8192),
    ByteList(Registry), ByteList(Registry), ByteVector(1), Checkpoint,
    Checkpoint, Checkpoint, List(Uint(8), Registry), SyncCommittee,
    SyncCommittee>>)
ExecutionPayloadHeader == Struct(536, <<
    ByteVector(32), ByteVector(20), ByteVector(32), ByteVector(32),
    ByteVector(256), ByteVector(32), Uint(8), Uint(8), Uint(8), Uint(8),
    ByteList(32), ByteVector(32), ByteVector(32), ByteVector(32)>>)
BeaconStateBellatrix == Struct(2736633, <<
    Uint(8), ByteVector(32), Uint(8), Fork, BeaconBlockHeader,
    Vector(ByteVector(32), 8192), Vector(ByteVector(32), 8192),
    List(ByteVector(32), 16777216), Eth1Data, List(Eth1Data, 2048), Uint(8),
    List(Validator, Registry), List(Uint(8), Registry),
    Vector(ByteVector(32), 65536), Vector(Uint(8), 8192),
    ByteList(Registry), ByteList(Registry), ByteVector(1), Checkpoint,
    Checkpoint, Checkpoint, List(Uint(8), Registry), SyncCommittee,
    SyncCommittee, ExecutionPayloadHeader>>)
ErrorResponse == Struct(4, <<ByteList(256)>>)
Dummy == Struct(0, <<>>)
Withdrawal == Struct(44, <<Uint(8), Uint(8), ByteArray(20), Uint(8)>>)
ExecutionPayloadCapella == Struct(512, <<
    ByteArray(32), ByteArray(20), ByteArray(32), ByteArray(32),
    ByteArray(256), ByteArray(32), Uint(8), Uint(8), Uint(8), Uint(8),
    ByteList(32), ByteArray(32), ByteArray(32),
    List(ByteList(2^30), 1048576), List(Withdrawal, 16)>>)
ExecutionPayloadHeaderCapella == Struct(568, <<
    ByteArray(32), ByteArray(20), ByteArray(32), ByteArray(32),
    ByteArray(256), ByteArray(32), Uint(8), Uint(8), Uint(8), Uint(8),
    ByteList(32), ByteArray(32), ByteArray(32), ByteArray(32), ByteArray(32)>>)
BLSToExecutionChange == Struct(76, <<Uint(8), ByteArray(48), ByteArray(20)>>)
HistoricalSummary == Struct(64, <<ByteArray(32), ByteArray(32)>>)
SignedBLSToExecutionChange == Struct(172, <<
    BLSToExecutionChange, ByteArray(96)>>)
BeaconStateCapella == Struct(2736653, <<
    Uint(8), ByteArray(32), Uint(8), Fork, BeaconBlockHeader,
    Array(ByteArray(32), 8192), Array(ByteArray(32), 8192),
    List(ByteVector(32), 16777216), Eth1Data, List(Eth1Data, 2048), Uint(8),
    List(Validator, Registry), List(Uint(8), Registry),
    Array(ByteArray(32), 65536), Vector(Uint(8), 8192), ByteList(Registry),
    ByteList(Registry), ByteArray(1), Checkpoint, Checkpoint, Checkpoint,
    List(Uint(8), Registry), SyncCommittee, SyncCommittee,
    ExecutionPayloadHeaderCapella, Uint(8), Uint(8),
    List(HistoricalSummary, 16777216)>>)
BeaconBlockBodyCapella == Struct(388, <<
    ByteVector(96), Eth1Data, ByteArray(32), List(ProposerSlashing, 16),
    List(AttesterSlashing, 2), List(Attestation, 128), List(Deposit, 16),
    List(SignedVoluntaryExit, 16), SyncAggregate, ExecutionPayloadCapella,
    List(SignedBLSToExecutionChange, 16)>>)
BeaconBlockCapella == Struct(84, <<
    Uint(8), Uint(8), ByteArray(32), ByteArray(32), BeaconBlockBodyCapella>>)
SignedBeaconBlockCapella == Struct(100, <<BeaconBlockCapella, ByteVector(96)>>)
ExecutionPayloadDeneb == Struct(528, <<
    ByteArray(32), ByteArray(20), ByteArray(32), ByteArray(32),
    ByteArray(256), ByteArray(32), Uint(8), Uint(8), Uint(8), Uint(8),
    ByteList(32), ByteArray(32), ByteArray(32),
    List(ByteList(2^30), 1048576), List(Withdrawal, 16), Uint(8),
    Uint(8)>>)
ExecutionPayloadHeaderDeneb == Struct(584, <<
    ByteArray(32), ByteArray(20), ByteArray(32), ByteArray(32),
    ByteArray(256), ByteArray(32), Uint(8), Uint(8), Uint(8), Uint(8),
    ByteList(32), ByteArray(32), ByteArray(32), ByteArray(32),
    ByteArray(32), Uint(8), Uint(8)>>)

Containers == [
    Checkpoint |-> Checkpoint, AttestationData |-> AttestationData,
    Attestation |-> Attestation, AggregateAndProof |-> AggregateAndProof,
    DepositData |-> DepositData, Deposit |-> Deposit,
    DepositMessage |-> DepositMessage,
    IndexedAttestation |-> IndexedAttestation,
    PendingAttestation |-> PendingAttestation, Fork |-> Fork,
    Validator |-> Validator, VoluntaryExit |-> VoluntaryExit,
    SignedVoluntaryExit |-> SignedVoluntaryExit, Eth1Block |-> Eth1Block,
    Eth1Data |-> Eth1Data, SigningRoot |-> SigningRoot,
    HistoricalBatch |-> HistoricalBatch,
    BeaconBlockHeader |-> BeaconBlockHeader,
    SignedBeaconBlockHeader |-> SignedBeaconBlockHeader,
    ProposerSlashing |-> ProposerSlashing,
    AttesterSlashing |-> AttesterSlashing,
    BeaconBlockBodyPhase0 |-> BeaconBlockBodyPhase0,
    BeaconBlock |-> BeaconBlock, SignedBeaconBlock |-> SignedBeaconBlock,
    Transfer |-> Transfer, BeaconState |-> BeaconState,
    SyncAggregate |-> SyncAggregate,
    BeaconBlockBodyAltair |-> BeaconBlockBodyAltair,
    ExecutionPayload |-> ExecutionPayload,
    BeaconBlockBodyBellatrix |-> BeaconBlockBodyBellatrix,
    SyncCommittee |-> SyncCommittee, BeaconStateAltair |-> BeaconStateAltair,
    ExecutionPayloadHeader |-> ExecutionPayloadHeader,
    BeaconStateBellatrix |-> BeaconStateBellatrix,
    ErrorResponse |-> ErrorResponse, Dummy |-> Dummy,
    Withdrawal |-> Withdrawal,
    ExecutionPayloadCapella |-> ExecutionPayloadCapella,
    ExecutionPayloadHeaderCapella |-> ExecutionPayloadHeaderCapella,
    BLSToExecutionChange |-> BLSToExecutionChange,
    HistoricalSummary |-> HistoricalSummary,
    SignedBLSToExecutionChange |-> SignedBLSToExecutionChange,
    BeaconStateCapella |-> BeaconStateCapella,
    BeaconBlockBodyCapella |-> BeaconBlockBodyCapella,
    BeaconBlockCapella |-> BeaconBlockCapella,
    SignedBeaconBlockCapella |-> SignedBeaconBlockCapella,
    ExecutionPayloadDeneb |-> ExecutionPayloadDeneb,
    ExecutionPayloadHeaderDeneb |-> ExecutionPayloadHeaderDeneb]
===========================================================================
